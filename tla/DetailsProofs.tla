---------------------------- MODULE DetailsProofs ----------------------------
(***************************************************************************)
(* Theorems of Details, for all sets of buckets, keys, tags and texts, all *)
(* choices of parts followed and any number of things the user does.       *)
(***************************************************************************)
EXTENDS Details, SequenceTheorems, FiniteSetTheorems, TLAPS

-----------------------------------------------------------------------------
(* The requests under way: a sequence whose order means nothing *)

IsSequence == requests \in Seq(Range(requests))

\* One request at most is about a part.
Lone(part) ==
  \A a, b \in DOMAIN requests : requests[a].part = part /\ requests[b].part = part => a = b

\* What Start does: those of the new requests whose part is followed are added.
Added(new) ==
  /\ \A j \in DOMAIN requests : \E l \in DOMAIN requests' : requests'[l] = requests[j]
  /\ \A r \in new : r.part \in follow => \E l \in DOMAIN requests' : requests'[l] = r
  /\ \A l \in DOMAIN requests' :
       \/ \E j \in DOMAIN requests : requests'[l] = requests[j]
       \/ requests'[l] \in new /\ requests'[l].part \in follow

\* What Handled does: they take the place of request i.
Replaced(i, new) ==
  /\ \A j \in DOMAIN requests \ {i} : \E l \in DOMAIN requests' : requests'[l] = requests[j]
  /\ \A r \in new : r.part \in follow => \E l \in DOMAIN requests' : requests'[l] = r
  /\ \A l \in DOMAIN requests' :
       \/ \E j \in DOMAIN requests \ {i} : requests'[l] = requests[j]
       \/ requests'[l] \in new /\ requests'[l].part \in follow

\* SetToSeqOfSet: SetToSeq lists each element of a finite set once.
LEMMA SetToSeqOfSet ==
  ASSUME NEW S, IsFiniteSet(S)
  PROVE  /\ SetToSeq(S) \in Seq(S)
         /\ \A r \in S : \E n \in 1..Len(SetToSeq(S)) : SetToSeq(S)[n] = r
         /\ \A m, n \in 1..Len(SetToSeq(S)) : SetToSeq(S)[m] = SetToSeq(S)[n] => m = n
<1> DEFINE n == Cardinality(S)
           s == SetToSeq(S)
<1>1. n \in Nat /\ ExistsBijection(1..n, S)
  BY FS_CardinalityType
<1>2. PICK f \in Bijection(1..n, S) : TRUE
  BY <1>1 DEF ExistsBijection
<1>3. f \in [1..n -> S] /\ (\A a, b \in DOMAIN f : f[a] = f[b] => a = b)
  BY <1>2 DEF Bijection, Injection, IsInjective
<1>4. s \in [1..n -> S] /\ (\A a, b \in DOMAIN s : s[a] = s[b] => a = b)
  BY <1>3 DEF SetToSeq, IsInjective
<1>5. s \in Seq(S) /\ Len(s) = n
  BY <1>1, <1>4
<1>6. s \in Injection(1..n, S)
  BY <1>4 DEF Injection, IsInjective
<1>7. s \in Surjection(1..n, S)
  BY <1>1, <1>6, FS_CountingElements, FS_Interval, FS_Injection
<1> QED BY <1>4, <1>5, <1>7 DEF Surjection

\* FollowedNew: the requests that are started are those of new whose part is followed.
LEMMA FollowedNew ==
  ASSUME NEW new, IsFiniteSet(new)
  PROVE  /\ Followed(new) \in Seq(new)
         /\ \A r \in new : r.part \in follow =>
              \E n \in 1..Len(Followed(new)) : Followed(new)[n] = r
         /\ \A n \in 1..Len(Followed(new)) : Followed(new)[n].part \in follow
         /\ \A m, n \in 1..Len(Followed(new)) : Followed(new)[m] = Followed(new)[n] => m = n
<1> DEFINE S == {r \in new : r.part \in follow}
           s == Followed(new)
<1>1. IsFiniteSet(S)
  BY FS_Subset
<1>2. s = SetToSeq(S)
  BY DEF Followed
<1>3. /\ s \in Seq(S)
      /\ \A r \in S : \E n \in 1..Len(s) : s[n] = r
      /\ \A m, n \in 1..Len(s) : s[m] = s[n] => m = n
  <2> HIDE DEF S
  <2> QED BY <1>1, <1>2, SetToSeqOfSet
<1>4. \A n \in 1..Len(s) : s[n] \in S
  <2> HIDE DEF S, s
  <2> QED BY <1>3, ElementOfSeq
<1>5. s \in Seq(new)
  <2> HIDE DEF s
  <2> QED BY <1>3, S \subseteq new
<1> QED BY <1>3, <1>4, <1>5

\* RemoveAtKeeps: RemoveAt keeps all elements but the i-th, in order.
LEMMA RemoveAtKeeps ==
  ASSUME NEW R, NEW s \in Seq(R), NEW i \in 1..Len(s)
  PROVE  /\ RemoveAt(s, i) \in Seq(R)
         /\ Len(RemoveAt(s, i)) = Len(s) - 1
         /\ \A j \in 1..Len(s)-1 : RemoveAt(s, i)[j] = s[IF j < i THEN j ELSE j + 1]
<1> DEFINE n == Len(s)
           front == SubSeq(s, 1, i - 1)
           back  == SubSeq(s, i + 1, n)
           both  == front \o back
<1>1. n \in Nat /\ i \in 1..n /\ s \in [1..n -> R]
  BY LenProperties
<1>2. /\ front \in Seq(R)
      /\ Len(front) = i - 1
      /\ \A j \in 1..i-1 : front[j] = s[j]
  <2>1. \A j \in 1..(i - 1) : s[j] \in R
    BY <1>1
  <2>2. 1 \in Int /\ i - 1 \in Int
    BY <1>1
  <2>3. /\ SubSeq(s, 1, i - 1) \in Seq(R)
        /\ Len(SubSeq(s, 1, i - 1)) = IF 1 <= i - 1 THEN i - 1 - 1 + 1 ELSE 0
        /\ \A j \in 1..i-1-1+1 : SubSeq(s, 1, i - 1)[j] = s[1 + j - 1]
    BY <2>1, <2>2, SubSeqProperties
  <2> HIDE DEF n
  <2> QED BY <1>1, <2>3
<1>3. /\ back \in Seq(R)
      /\ Len(back) = n - i
      /\ \A j \in 1..n-i : back[j] = s[i + j]
  <2>1. \A j \in (i + 1)..n : s[j] \in R
    BY <1>1
  <2>2. i + 1 \in Int /\ n \in Int
    BY <1>1
  <2>3. /\ SubSeq(s, i + 1, n) \in Seq(R)
        /\ Len(SubSeq(s, i + 1, n)) = IF i + 1 <= n THEN n - (i + 1) + 1 ELSE 0
        /\ \A j \in 1..n-(i+1)+1 : SubSeq(s, i + 1, n)[j] = s[i + 1 + j - 1]
    BY <2>1, <2>2, SubSeqProperties
  <2> HIDE DEF n
  <2>4. \A j \in 1..n-i : j \in 1..n-(i+1)+1 /\ i + 1 + j - 1 = i + j
    BY <1>1
  <2>5. Len(back) = n - i
    BY <1>1, <2>3
  <2> QED BY <2>3, <2>4, <2>5
<1>4. /\ both \in Seq(R)
      /\ Len(both) = n - 1
      /\ \A j \in 1..n-1 : both[j] = IF j <= i - 1 THEN front[j] ELSE back[j - (i - 1)]
  <2> HIDE DEF front, back, n
  <2>1. /\ both \in Seq(R)
        /\ Len(both) = Len(front) + Len(back)
        /\ \A j \in 1..Len(front) + Len(back) :
             both[j] = IF j <= Len(front) THEN front[j] ELSE back[j - Len(front)]
    BY <1>2, <1>3, ConcatProperties
  <2>2. Len(front) + Len(back) = n - 1
    BY <1>1, <1>2, <1>3
  <2> QED BY <1>2, <2>1, <2>2
<1>5. \A j \in 1..n-1 : both[j] = s[IF j < i THEN j ELSE j + 1]
  <2> HIDE DEF front, back, n, both
  <2> TAKE j \in 1..n-1
  <2>1. CASE j < i
    <3>1. j \in 1..i-1 /\ j <= i - 1
      BY <1>1, <2>1
    <3> QED BY <1>2, <1>4, <2>1, <3>1
  <2>2. CASE ~(j < i)
    <3>1. j - (i - 1) \in 1..n-i /\ i + (j - (i - 1)) = j + 1 /\ ~(j <= i - 1)
      BY <1>1, <2>2
    <3> QED BY <1>3, <1>4, <2>2, <3>1
  <2> QED BY <2>1, <2>2
<1> QED BY <1>4, <1>5 DEF RemoveAt

\* SeqOfElements: a sequence is one of its own elements.
LEMMA SeqOfElements ==
  ASSUME NEW R, NEW s \in Seq(R)
  PROVE  s \in Seq(Range(s))
<1> DEFINE S == Range(s)
<1>1. Len(s) \in Nat /\ s \in [1..Len(s) -> R] /\ DOMAIN s = 1..Len(s)
  BY LenProperties
<1>2. s \in [1..Len(s) -> S]
  BY <1>1 DEF Range
<1> QED BY <1>1, <1>2, SeqDef

\* StartAdds: Start keeps all requests where they are and adds new ones behind.
LEMMA StartAdds ==
  ASSUME IsSequence, NEW new, IsFiniteSet(new), Start(new)
  PROVE  /\ IsSequence'
         /\ Added(new)
         /\ Len(requests) \in Nat /\ Len(requests') \in Nat
         /\ DOMAIN requests = 1..Len(requests) /\ DOMAIN requests' = 1..Len(requests')
         /\ Len(requests) <= Len(requests')
         /\ \A j \in DOMAIN requests : requests'[j] = requests[j]
         /\ \A j \in DOMAIN requests' \ DOMAIN requests :
              requests'[j] \in new /\ requests'[j].part \in follow
         /\ \A a, b \in DOMAIN requests' \ DOMAIN requests : requests'[a] = requests'[b] => a = b
<1> DEFINE R == Range(requests)
           T == R \union new
           s == Followed(new)
           n == Len(requests)
<1>1. /\ s \in Seq(new) /\ Len(s) \in Nat
      /\ \A j \in 1..Len(s) : s[j] \in new /\ s[j].part \in follow
      /\ \A r \in new : r.part \in follow => \E j \in 1..Len(s) : s[j] = r
      /\ \A a, b \in 1..Len(s) : s[a] = s[b] => a = b
  <2> HIDE DEF s
  <2>1. /\ s \in Seq(new)
        /\ \A j \in 1..Len(s) : s[j].part \in follow
        /\ \A r \in new : r.part \in follow => \E j \in 1..Len(s) : s[j] = r
        /\ \A a, b \in 1..Len(s) : s[a] = s[b] => a = b
    BY FollowedNew DEF s
  <2> QED BY <2>1, ElementOfSeq, LenProperties
<1>2. requests \in Seq(T) /\ s \in Seq(T) /\ requests \in Seq(R) /\ n \in Nat
      /\ DOMAIN requests = 1..n
  <2>1. requests \in Seq(R)
    BY DEF IsSequence
  <2> HIDE DEF R, s
  <2> QED BY <1>1, <2>1, LenProperties
<1>3. /\ requests' = requests \o s
      /\ requests' \in Seq(T)
      /\ Len(requests') = n + Len(s)
      /\ \A j \in 1..n + Len(s) : requests'[j] = IF j <= n THEN requests[j] ELSE s[j - n]
  <2>1. requests' = requests \o s
    BY DEF Start
  <2> HIDE DEF T, s
  <2> QED BY <1>2, <2>1, ConcatProperties
<1> HIDE DEF T, s, n, R
<1>4. DOMAIN requests' = 1..Len(requests') /\ Len(requests') \in Nat /\ n <= Len(requests')
  BY <1>1, <1>2, <1>3, LenProperties
<1>5. \A j \in 1..n : requests'[j] = requests[j] /\ j \in DOMAIN requests'
  BY <1>1, <1>2, <1>3, <1>4
<1>6. \A j \in DOMAIN requests' \ 1..n : j - n \in 1..Len(s) /\ requests'[j] = s[j - n]
  BY <1>1, <1>2, <1>3, <1>4
<1>7. \A k \in 1..Len(s) : n + k \in DOMAIN requests' /\ requests'[n + k] = s[k]
  <2> TAKE k \in 1..Len(s)
  <2>1. n + k \in 1..n + Len(s) /\ ~(n + k <= n) /\ (n + k) - n = k
    BY <1>1, <1>2
  <2> QED BY <1>2, <1>3, <1>4, <2>1
<1>8. \A a, b \in DOMAIN requests' \ 1..n : requests'[a] = requests'[b] => a = b
  <2> TAKE a, b \in DOMAIN requests' \ 1..n
  <2> HAVE requests'[a] = requests'[b]
  <2>1. a - n = b - n
    BY <1>1, <1>6
  <2> QED BY <1>2, <1>4, <2>1
<1>9. IsSequence'
  BY <1>3, SeqOfElements DEF IsSequence
<1>10. Added(new)
  <2>1. \A j \in DOMAIN requests : \E l \in DOMAIN requests' : requests'[l] = requests[j]
    BY <1>2, <1>5
  <2>2. \A r \in new : r.part \in follow => \E l \in DOMAIN requests' : requests'[l] = r
    BY <1>1, <1>7
  <2>3. ASSUME NEW l \in DOMAIN requests'
        PROVE  \/ \E j \in DOMAIN requests : requests'[l] = requests[j]
               \/ requests'[l] \in new /\ requests'[l].part \in follow
    <3>1. CASE l \in 1..n
      BY <1>2, <1>5, <3>1
    <3>2. CASE l \notin 1..n
      BY <1>1, <1>6, <2>3, <3>2
    <3> QED BY <3>1, <3>2
  <2> QED BY <2>1, <2>2, <2>3 DEF Added
<1>11. \A j \in DOMAIN requests' \ 1..n : requests'[j] \in new /\ requests'[j].part \in follow
  BY <1>1, <1>6
<1>12. n = Len(requests)
  BY DEF n
<1> QED BY <1>2, <1>4, <1>5, <1>8, <1>9, <1>10, <1>11, <1>12

\* HandledReplaces: Handled removes request i, and adds new ones behind.
LEMMA HandledReplaces ==
  ASSUME IsSequence, NEW i \in DOMAIN requests, NEW new, IsFiniteSet(new), Handled(i, new)
  PROVE  /\ IsSequence'
         /\ Replaced(i, new)
         /\ Len(requests) \in Nat /\ Len(requests') \in Nat
         /\ DOMAIN requests = 1..Len(requests) /\ DOMAIN requests' = 1..Len(requests')
         /\ \A j \in 1..Len(requests)-1 :
              j \in DOMAIN requests' /\ requests'[j] = requests[IF j < i THEN j ELSE j + 1]
         /\ \A j \in DOMAIN requests' \ 1..Len(requests)-1 :
              requests'[j] \in new /\ requests'[j].part \in follow
         /\ \A a, b \in DOMAIN requests' \ 1..Len(requests)-1 :
              requests'[a] = requests'[b] => a = b
<1> DEFINE R == Range(requests)
           T == R \union new
           s == Followed(new)
           t == RemoveAt(requests, i)
           n == Len(requests) - 1
<1>1. /\ s \in Seq(new) /\ Len(s) \in Nat
      /\ \A j \in 1..Len(s) : s[j] \in new /\ s[j].part \in follow
      /\ \A r \in new : r.part \in follow => \E j \in 1..Len(s) : s[j] = r
      /\ \A a, b \in 1..Len(s) : s[a] = s[b] => a = b
  <2> HIDE DEF s
  <2>1. /\ s \in Seq(new)
        /\ \A j \in 1..Len(s) : s[j].part \in follow
        /\ \A r \in new : r.part \in follow => \E j \in 1..Len(s) : s[j] = r
        /\ \A a, b \in 1..Len(s) : s[a] = s[b] => a = b
    BY FollowedNew DEF s
  <2> QED BY <2>1, ElementOfSeq, LenProperties
<1>2. requests \in Seq(R) /\ Len(requests) \in Nat /\ DOMAIN requests = 1..Len(requests)
  <2>1. requests \in Seq(R)
    BY DEF IsSequence
  <2> HIDE DEF R
  <2> QED BY <2>1, LenProperties
<1>3. /\ i \in 1..n+1 /\ n \in Nat
      /\ t \in Seq(R) /\ Len(t) = n
      /\ \A j \in 1..n : t[j] = requests[IF j < i THEN j ELSE j + 1]
  <2>1. i \in 1..Len(requests)
    BY <1>2
  <2>2. /\ t \in Seq(R)
        /\ Len(t) = Len(requests) - 1
        /\ \A j \in 1..Len(requests)-1 : t[j] = requests[IF j < i THEN j ELSE j + 1]
    <3> HIDE DEF R
    <3> QED BY <1>2, <2>1, RemoveAtKeeps
  <2> HIDE DEF R, t
  <2> QED BY <1>2, <2>1, <2>2
<1>4. /\ requests' = t \o s
      /\ requests' \in Seq(T)
      /\ Len(requests') = n + Len(s)
      /\ \A j \in 1..n + Len(s) : requests'[j] = IF j <= n THEN t[j] ELSE s[j - n]
  <2>1. requests' = t \o s
    BY DEF Handled
  <2>2. t \in Seq(T) /\ s \in Seq(T)
    <3> HIDE DEF R, s, t
    <3> QED BY <1>1, <1>3
  <2> HIDE DEF T, s, t, n
  <2> QED BY <1>3, <2>1, <2>2, ConcatProperties
<1>5. n = Len(requests) - 1
  OBVIOUS
<1> HIDE DEF T, s, n, R, t
<1>6. DOMAIN requests' = 1..Len(requests') /\ Len(requests') \in Nat /\ n <= Len(requests')
  BY <1>1, <1>3, <1>4, LenProperties
<1>7. \A j \in 1..n : j \in DOMAIN requests' /\ requests'[j] = requests[IF j < i THEN j ELSE j + 1]
  BY <1>1, <1>3, <1>4, <1>6
<1>8. \A j \in DOMAIN requests' \ 1..n : j - n \in 1..Len(s) /\ requests'[j] = s[j - n]
  BY <1>1, <1>3, <1>4, <1>6
<1>9. \A k \in 1..Len(s) : n + k \in DOMAIN requests' /\ requests'[n + k] = s[k]
  <2> TAKE k \in 1..Len(s)
  <2>1. n + k \in 1..n + Len(s) /\ ~(n + k <= n) /\ (n + k) - n = k
    BY <1>1, <1>3
  <2> QED BY <1>3, <1>4, <1>6, <2>1
<1>10. \A a, b \in DOMAIN requests' \ 1..n : requests'[a] = requests'[b] => a = b
  <2> TAKE a, b \in DOMAIN requests' \ 1..n
  <2> HAVE requests'[a] = requests'[b]
  <2>1. a - n = b - n
    BY <1>1, <1>8
  <2> QED BY <1>3, <1>6, <2>1
<1>11. \A j \in DOMAIN requests' \ 1..n : requests'[j] \in new /\ requests'[j].part \in follow
  BY <1>1, <1>8
<1>12. IsSequence'
  BY <1>4, SeqOfElements DEF IsSequence
<1>13. Replaced(i, new)
  <2>1. ASSUME NEW j \in DOMAIN requests \ {i}
        PROVE  \E l \in DOMAIN requests' : requests'[l] = requests[j]
    <3>1. CASE j < i
      <4>1. j \in 1..n
        BY <1>2, <1>3, <1>5, <2>1, <3>1
      <4> QED BY <1>7, <3>1, <4>1
    <3>2. CASE ~(j < i)
      <4>1. j - 1 \in 1..n /\ ~(j - 1 < i) /\ j - 1 + 1 = j
        BY <1>2, <1>3, <1>5, <2>1, <3>2
      <4> QED BY <1>7, <4>1
    <3> QED BY <3>1, <3>2
  <2>2. \A r \in new : r.part \in follow => \E l \in DOMAIN requests' : requests'[l] = r
    BY <1>1, <1>9
  <2>3. ASSUME NEW l \in DOMAIN requests'
        PROVE  \/ \E j \in DOMAIN requests \ {i} : requests'[l] = requests[j]
               \/ requests'[l] \in new /\ requests'[l].part \in follow
    <3>1. CASE l \in 1..n
      <4> DEFINE j == IF l < i THEN l ELSE l + 1
      <4>1. j \in DOMAIN requests \ {i}
        BY <1>2, <1>3, <1>5, <3>1
      <4> QED BY <1>7, <3>1, <4>1
    <3>2. CASE l \notin 1..n
      BY <1>11, <2>3, <3>2
    <3> QED BY <3>1, <3>2
  <2> QED BY <2>1, <2>2, <2>3 DEF Replaced
<1> QED BY <1>2, <1>5, <1>6, <1>7, <1>10, <1>11, <1>12, <1>13

\* ServedChanges: Served changes the state, the result and the value of request i.
LEMMA ServedChanges ==
  ASSUME IsSequence, NEW i \in DOMAIN requests, NEW ok, NEW value, Served(i, ok, value),
         {"at", "ok", "value"} \subseteq DOMAIN requests[i]
  PROVE  /\ IsSequence'
         /\ DOMAIN requests' = DOMAIN requests
         /\ \A j \in DOMAIN requests : j # i => requests'[j] = requests[j]
         /\ DOMAIN requests'[i] = DOMAIN requests[i]
         /\ requests'[i].at = "done" /\ requests'[i].ok = ok /\ requests'[i].value = value
         /\ \A f \in DOMAIN requests[i] \ {"at", "ok", "value"} :
              requests'[i][f] = requests[i][f]
<1> DEFINE r == [requests[i] EXCEPT !.at = "done", !.ok = ok, !.value = value]
           T == Range(requests) \union {r}
<1>1. requests \in Seq(T) /\ i \in 1..Len(requests) /\ Len(requests) \in Nat
  <2>1. requests \in Seq(Range(requests))
    BY DEF IsSequence
  <2> HIDE DEF r
  <2> QED BY <2>1, LenProperties, SeqMonotonic
<1>2. requests' = [requests EXCEPT ![i] = r]
  BY DEF Served
<1>3. /\ DOMAIN r = DOMAIN requests[i]
      /\ r.at = "done" /\ r.ok = ok /\ r.value = value
      /\ \A f \in DOMAIN requests[i] \ {"at", "ok", "value"} : r[f] = requests[i][f]
  OBVIOUS
<1>4. requests' \in Seq(T)
  <2> HIDE DEF r
  <2> QED BY <1>1, <1>2, ExceptSeq
<1>5. IsSequence'
  <2> HIDE DEF T
  <2> QED BY <1>4, SeqOfElements DEF IsSequence
<1>6. /\ DOMAIN requests' = DOMAIN requests
      /\ requests'[i] = r
      /\ \A j \in DOMAIN requests : j # i => requests'[j] = requests[j]
  <2> HIDE DEF r
  <2> QED BY <1>2
<1> HIDE DEF r
<1> QED BY <1>3, <1>5, <1>6

-----------------------------------------------------------------------------
(* Shapes *)

\* A request is about a subject of its part's kind.
RightSubject(r) ==
  /\ r.part \in ObjectParts \union {"object"} => r.of \in Objects
  /\ r.part \in BucketParts \union {"bucket"} => r.of \in Buckets \X {NoKey}
  /\ r.part \in {"objects", "find"} => r.of \in Buckets \X Folders

Formed(r) ==
  /\ DOMAIN r = {"part", "op", "of", "value", "at", "ok"}
  /\ r.at \in {"sent", "done"}
  /\ r.ok \in BOOLEAN
  /\ RightSubject(r)

RequestsInv ==
  /\ IsSequence
  /\ \A i \in DOMAIN requests : Formed(requests[i]) /\ requests[i].part \in follow

\* Only a bucket is created before one is selected.
Grounded == (\E i \in DOMAIN requests : requests[i].part # "bucket") => selected_bucket # NoBucket

SelectionInv ==
  /\ selection \in Selection
  /\ selected_bucket \in Buckets \union {NoBucket}
  /\ selection.bucket \in {NoBucket, selected_bucket}
  /\ Grounded
  /\ restless \in BOOLEAN /\ hasty \in BOOLEAN /\ unsure \in BOOLEAN

-----------------------------------------------------------------------------
(* The panel of an object *)

PaneShape ==
  /\ DOMAIN pane = DOMAIN NoPane
  /\ pane.heal_confirm_target \in Objects \union {NoObject}
  /\ pane.heal_confirm_target # NoObject => selected_bucket # NoBucket

\* What is shown was asked for.
ObjectFollowed ==
  /\ pane.detail # Empty => "detail" \in follow
  /\ pane.object_tags # Empty => "tags" \in follow
  /\ pane.object_versions # Empty => "versions" \in follow

ObjectWaits ==
  /\ pane.loading_detail => UnderWay("detail", "load")
  /\ pane.loading_tags => UnderWay("tags", "load") \/ UnderWay("tags", "save")
  /\ pane.loading_versions => \E op \in {"load", "delete", "restore"} : UnderWay("versions", op)
  /\ (pane.loading_object_inspect /\ selection.kind = "Object") =>
       \E i \in DOMAIN requests :
         requests[i].part = "inspect" /\ requests[i].of = SelectedObject
  /\ pane.healing # Nothing =>
       \E i \in DOMAIN requests : requests[i].part = "heal" /\ requests[i].of = pane.healing

\* The answers that do not name their object, and of whom they are.
Unnamed == {"detail", "tags", "versions", "preview", "share"}

OfSelected(answer) == answer.of \in {SelectedObject, Nothing}

ObjectShown ==
  /\ selection.kind = "Object" =>
       /\ OfSelected(pane.object_inspect)
       /\ {pane.heal_result, pane.heal_confirm_target} \subseteq {SelectedObject, Nothing}
  /\ ~restless =>
       /\ \A i \in DOMAIN requests : requests[i].part \in Unnamed => requests[i].of = SelectedObject
       /\ selection.kind = "Object" =>
            /\ pane.loading_detail \/ OfSelected(pane.detail)
            /\ OfSelected(pane.object_tags) /\ OfSelected(pane.object_versions)
            /\ OfSelected(pane.object_preview) /\ OfSelected(pane.share_url)

\* Rows are of the bucket their listing is of.
RowsOf(answer, bucket) == \A row \in answer.value : row.of = Of(bucket, row.of[2])

VersionsInv ==
  /\ \A i \in DOMAIN requests :
       (requests[i].part = "versions" /\ requests[i].op = "load" /\ requests[i].at = "done") =>
         RowsOf(requests[i], requests[i].of[1])
  /\ ~restless =>
       /\ (selection.kind = "Object" /\ pane.object_versions.is = "Ok") =>
            RowsOf(pane.object_versions, selection.bucket)
       /\ ~misdirected

\* A set of tags that is still to be put.
Unsaved(r) == r.part = "tags" /\ r.op = "save" /\ r.at = "sent"

\* One that has not been put: what is shown stays true if it never is.
Unapplied(r) == r.part = "tags" /\ r.op = "save" /\ (r.at = "sent" \/ ~r.ok)

\* The tags are loading or saved one request at a time, and the set that is put is the one
\* on the server with the user's changes.
TagsInv ==
  /\ tags = [o \in Objects |-> tags[o]]
  /\ wished = [o \in Objects |-> wished[o]]
  /\ ~restless =>
       /\ Lone("tags")
       /\ \A i \in DOMAIN requests : requests[i].part = "tags" => pane.loading_tags
  /\ (~restless /\ ~unsure) =>
       /\ \A i \in DOMAIN requests : Unsaved(requests[i]) =>
            wished = [tags EXCEPT ![requests[i].of] = requests[i].value]
       /\ (\A i \in DOMAIN requests : ~Unsaved(requests[i])) => wished = tags
       /\ \A i \in DOMAIN requests :
            (requests[i].part = "tags" /\ requests[i].op = "load" /\ requests[i].at = "done"
               /\ requests[i].ok) => requests[i].value = tags[requests[i].of]
       /\ (/\ selection.kind = "Object" /\ pane.object_tags.is = "Ok"
           /\ ~pane.loading_tags \/ \E i \in DOMAIN requests : Unapplied(requests[i])) =>
            pane.object_tags.value = tags[SelectedObject]

-----------------------------------------------------------------------------
(* The panel of a bucket *)

BucketShape ==
  /\ DOMAIN documents = Kinds
  /\ \A kind \in Kinds : DOMAIN documents[kind] = DOMAIN NoDocument
  /\ DOMAIN bucket_status = {"versioning", "ftt"}
  /\ DOMAIN opened = Kinds

BucketFollowed ==
  /\ \A kind \in Kinds : documents[kind].loaded.is # "None" => kind \in follow
  /\ bucket_tags.is # "None" => "bucket_tags" \in follow
  /\ bucket_status["versioning"].is # "None" => "versioning" \in follow

BucketWaits ==
  /\ \A kind \in Kinds : documents[kind].saving => UnderWay(kind, "save")
  /\ (BucketShown /\ ~created) =>
       /\ \A kind \in Kinds \intersect follow :
            documents[kind].loaded.is = "None" => UnderWay(kind, "load")
       /\ ("bucket_tags" \in follow /\ bucket_tags.is = "None") => UnderWay("bucket_tags", "load")
       /\ ("ftt" \in follow /\ bucket_status["ftt"].is = "None") => UnderWay("ftt", "load")

OfHere(answer) == answer.of \in {Here, Nothing}

ShownOfBucket ==
  /\ \A kind \in Kinds : documents[kind].editing => opened[kind] = selected_bucket
  /\ ~restless =>
       /\ \A i \in DOMAIN requests : requests[i].part \in BucketParts => requests[i].of = Here
       /\ BucketShown =>
            /\ \A kind \in Kinds : OfHere(documents[kind].loaded)
            /\ created \/ (OfHere(bucket_tags) /\ OfHere(bucket_status["ftt"]))

-----------------------------------------------------------------------------
(* The list *)

ListShape == DOMAIN list = DOMAIN NoList /\ list.current_prefix \in Folders

ListWaits ==
  /\ list.loading_objects => UnderWay("objects", "load")
  /\ list.finding => UnderWay("find", "load")

-----------------------------------------------------------------------------
(* What steps do to the requests *)

\* The requests about some parts are as before.
SameOf(parts) ==
  /\ \A j \in DOMAIN requests : requests[j].part \in parts =>
       \E l \in DOMAIN requests' : requests'[l] = requests[j]
  /\ \A l \in DOMAIN requests' : requests'[l].part \in parts =>
       \E j \in DOMAIN requests : requests'[l] = requests[j]
  /\ \A part \in parts : Lone(part) => Lone(part)'

\* NewRequest: what Request builds.
LEMMA NewRequest ==
  ASSUME NEW part, NEW op, NEW of, NEW value,
         part \in ObjectParts \union {"object"} => of \in Objects,
         part \in BucketParts \union {"bucket"} => of \in Buckets \X {NoKey},
         part \in {"objects", "find"} => of \in Buckets \X Folders
  PROVE  LET r == Request(part, op, of, value)
         IN  /\ Formed(r)
             /\ r.part = part /\ r.op = op /\ r.of = of /\ r.value = value /\ r.at = "sent"
  BY DEF Request, Formed, RightSubject

\* StartKeeps: requests started about other parts leave those of some parts as they are.
LEMMA StartKeeps ==
  ASSUME RequestsInv, NEW new, IsFiniteSet(new), Start(new), follow' = follow,
         \A r \in new : Formed(r),
         NEW parts, \A r \in new : r.part \notin parts
  PROVE  RequestsInv' /\ SameOf(parts) /\ Added(new)
<1>1. /\ IsSequence'
      /\ Added(new)
      /\ Len(requests) \in Nat /\ Len(requests') \in Nat
      /\ DOMAIN requests = 1..Len(requests) /\ DOMAIN requests' = 1..Len(requests')
      /\ Len(requests) <= Len(requests')
      /\ \A j \in DOMAIN requests : requests'[j] = requests[j]
      /\ \A j \in DOMAIN requests' \ DOMAIN requests :
           requests'[j] \in new /\ requests'[j].part \in follow
  BY StartAdds DEF RequestsInv
<1>2. RequestsInv'
  BY <1>1 DEF RequestsInv, Formed, RightSubject
<1>3. \A l \in DOMAIN requests' : requests'[l].part \in parts =>
        l \in DOMAIN requests /\ requests'[l] = requests[l]
  BY <1>1
<1>4. \A part \in parts : Lone(part) => Lone(part)'
  BY <1>3 DEF Lone
<1>5. \A j \in DOMAIN requests : \E l \in DOMAIN requests' : requests'[l] = requests[j]
  BY <1>1 DEF Added
<1> QED BY <1>1, <1>2, <1>3, <1>4, <1>5 DEF SameOf

\* HandledKeeps: so does an answer about another part.
LEMMA HandledKeeps ==
  ASSUME RequestsInv, NEW i \in DOMAIN requests, NEW new, IsFiniteSet(new), Handled(i, new),
         follow' = follow,
         \A r \in new : Formed(r),
         NEW parts, requests[i].part \notin parts, \A r \in new : r.part \notin parts
  PROVE  RequestsInv' /\ SameOf(parts) /\ Replaced(i, new)
<1> DEFINE n == Len(requests) - 1
           from(j) == IF j < i THEN j ELSE j + 1
<1>1. /\ IsSequence'
      /\ Replaced(i, new)
      /\ Len(requests) \in Nat /\ Len(requests') \in Nat
      /\ DOMAIN requests = 1..Len(requests) /\ DOMAIN requests' = 1..Len(requests')
      /\ \A j \in 1..n : j \in DOMAIN requests' /\ requests'[j] = requests[from(j)]
      /\ \A j \in DOMAIN requests' \ 1..n : requests'[j] \in new /\ requests'[j].part \in follow
  BY HandledReplaces DEF RequestsInv
<1>2. /\ \A j \in 1..n : from(j) \in DOMAIN requests
      /\ \A a, b \in 1..n : from(a) = from(b) => a = b
  BY <1>1
<1> HIDE DEF n, from
<1>3. RequestsInv'
  <2>1. ASSUME NEW l \in DOMAIN requests'
        PROVE  Formed(requests'[l]) /\ requests'[l].part \in follow
    <3>1. CASE l \in 1..n
      BY <1>1, <1>2, <3>1 DEF RequestsInv
    <3>2. CASE l \notin 1..n
      BY <1>1, <3>2
    <3> QED BY <3>1, <3>2
  <2> QED BY <1>1, <2>1 DEF RequestsInv, Formed, RightSubject
<1>4. \A l \in DOMAIN requests' : requests'[l].part \in parts =>
        l \in 1..n /\ from(l) \in DOMAIN requests /\ requests'[l] = requests[from(l)]
  BY <1>1, <1>2
<1>5. \A part \in parts : Lone(part) => Lone(part)'
  <2> TAKE part \in parts
  <2> HAVE Lone(part)
  <2> SUFFICES ASSUME NEW a \in DOMAIN requests', NEW b \in DOMAIN requests',
                      requests'[a].part = part, requests'[b].part = part
               PROVE  a = b
    BY DEF Lone
  <2>1. from(a) = from(b) /\ a \in 1..n /\ b \in 1..n
    BY <1>4 DEF Lone
  <2> QED BY <1>2, <2>1
<1>6. \A j \in DOMAIN requests : requests[j].part \in parts =>
        \E l \in DOMAIN requests' : requests'[l] = requests[j]
  BY <1>1 DEF Replaced
<1> QED BY <1>1, <1>3, <1>4, <1>5, <1>6 DEF SameOf

\* What serving request i does: it alone changes, but not its part, operation or subject.
ServedOnly(i) ==
  /\ DOMAIN requests' = DOMAIN requests
  /\ \A j \in DOMAIN requests : j # i => requests'[j] = requests[j]
  /\ requests'[i].part = requests[i].part
  /\ requests'[i].op = requests[i].op
  /\ requests'[i].of = requests[i].of
  /\ requests'[i].at = "done"

\* ServedKeeps: so does the service of a request about another part.
LEMMA ServedKeeps ==
  ASSUME RequestsInv, NEW i \in DOMAIN requests, NEW ok \in BOOLEAN, NEW value,
         Served(i, ok, value), follow' = follow
  PROVE  /\ RequestsInv'
         /\ ServedOnly(i) /\ requests'[i].ok = ok /\ requests'[i].value = value
         /\ \A part : Lone(part) => Lone(part)'
         /\ \A parts : requests[i].part \notin parts => SameOf(parts)
<1>1. Formed(requests[i]) /\ requests[i].part \in follow
  BY DEF RequestsInv
<1>2. {"at", "ok", "value"} \subseteq DOMAIN requests[i]
  BY <1>1 DEF Formed
<1>3. /\ IsSequence'
      /\ DOMAIN requests' = DOMAIN requests
      /\ \A j \in DOMAIN requests : j # i => requests'[j] = requests[j]
      /\ DOMAIN requests'[i] = DOMAIN requests[i]
      /\ requests'[i].at = "done" /\ requests'[i].ok = ok /\ requests'[i].value = value
      /\ \A f \in DOMAIN requests[i] \ {"at", "ok", "value"} : requests'[i][f] = requests[i][f]
  BY <1>2, ServedChanges DEF RequestsInv
<1>4. /\ requests'[i].part = requests[i].part
      /\ requests'[i].op = requests[i].op
      /\ requests'[i].of = requests[i].of
  BY <1>1, <1>3 DEF Formed
<1>5. RequestsInv'
  <2>1. Formed(requests'[i])
    BY <1>1, <1>3, <1>4 DEF Formed, RightSubject
  <2>2. ASSUME NEW l \in DOMAIN requests'
        PROVE  Formed(requests'[l]) /\ requests'[l].part \in follow
    <3>1. CASE l = i
      BY <1>1, <1>4, <2>1, <3>1
    <3>2. CASE l # i
      BY <1>3, <3>2 DEF RequestsInv
    <3> QED BY <3>1, <3>2
  <2> QED BY <1>3, <2>2 DEF RequestsInv, Formed, RightSubject
<1>6. \A part : Lone(part) => Lone(part)'
  BY <1>3, <1>4 DEF Lone
<1>7. ASSUME NEW parts, requests[i].part \notin parts
      PROVE  SameOf(parts)
  <2>1. \A j \in DOMAIN requests :
        requests'[j] = requests[j] \/ (j = i /\ requests'[j].part \notin parts)
    BY <1>3, <1>4, <1>7
  <2> QED BY <1>3, <1>6, <1>7, <2>1 DEF SameOf
<1>8. ServedOnly(i)
  BY <1>3, <1>4 DEF ServedOnly
<1> QED BY <1>3, <1>5, <1>6, <1>7, <1>8

\* UnchangedKeeps: and a step that leaves the requests alone.
LEMMA UnchangedKeeps ==
  ASSUME RequestsInv, UNCHANGED <<requests, follow>>, NEW parts
  PROVE  RequestsInv' /\ SameOf(parts)
  BY DEF RequestsInv, IsSequence, SameOf, Lone, Formed, RightSubject

\* A subject that goes with a part.
Suits(part, of) ==
  /\ part \in ObjectParts \union {"object"} => of \in Objects
  /\ part \in BucketParts \union {"bucket"} => of \in Buckets \X {NoKey}
  /\ part \in {"objects", "find"} => of \in Buckets \X Folders

\* StartOne: one request is started.
LEMMA StartOne ==
  ASSUME RequestsInv, follow' = follow, NEW part, NEW op, NEW of, NEW value, Suits(part, of),
         NEW new, new = {Request(part, op, of, value)}, Start(new),
         NEW parts, part \notin parts
  PROVE  RequestsInv' /\ SameOf(parts) /\ Added(new)
<1>1. \A r \in new : Formed(r) /\ r.part = part
  BY NewRequest DEF Suits
<1>2. IsFiniteSet(new)
  BY FS_Singleton
<1> QED BY <1>1, <1>2, StartKeeps

\* PairIsFinite: two requests are finitely many.
LEMMA PairIsFinite ==
  ASSUME NEW a, NEW b
  PROVE  IsFiniteSet({a, b})
<1>1. IsFiniteSet({a})
  BY FS_Singleton
<1>2. {a, b} = {a} \union {b}
  OBVIOUS
<1> QED BY <1>1, <1>2, FS_AddElement

\* LoadObjectPart, LoadBucketPart: what a load of a part is.
LEMMA LoadObjectPart ==
  ASSUME NEW part \in ObjectParts, NEW of \in Objects
  PROVE  Formed(Load(part, of)) /\ Load(part, of).part = part
<1>1. Suits(part, of)
  BY DEF Suits, ObjectParts, BucketParts, Kinds
<1> QED BY <1>1, NewRequest DEF Load, Suits

\* LoadBucketPart: a load of a part of a bucket is a well-formed request.
LEMMA LoadBucketPart ==
  ASSUME NEW part \in BucketParts, NEW of \in Buckets \X {NoKey}
  PROVE  Formed(Load(part, of)) /\ Load(part, of).part = part
<1>1. Suits(part, of)
  BY DEF Suits, ObjectParts, BucketParts, Kinds
<1> QED BY <1>1, NewRequest DEF Load, Suits

\* HandledNone, HandledOne: no request or one is started when an answer is handled.
LEMMA HandledNone ==
  ASSUME RequestsInv, NEW i \in DOMAIN requests, Handled(i, {}), follow' = follow,
         NEW parts, requests[i].part \notin parts
  PROVE  RequestsInv' /\ SameOf(parts) /\ Replaced(i, {})
  BY FS_EmptySet, HandledKeeps

\* HandledOne: an answer handled by loading one part again leaves the other parts alone.
LEMMA HandledOne ==
  ASSUME RequestsInv, NEW i \in DOMAIN requests, follow' = follow,
         NEW part, NEW of, Suits(part, of),
         NEW new, new = {Load(part, of)}, Handled(i, new),
         NEW parts, requests[i].part \notin parts, part \notin parts
  PROVE  RequestsInv' /\ SameOf(parts) /\ Replaced(i, new)
<1>1. \A r \in new : Formed(r) /\ r.part = part
  BY NewRequest DEF Load, Suits
<1>2. IsFiniteSet(new)
  BY FS_Singleton
<1> QED BY <1>1, <1>2, HandledKeeps

\* SelectedSuits: an object selected is one of a bucket selected.
LEMMA SelectedSuits ==
  ASSUME SelectionInv, selection.kind = "Object"
  PROVE  /\ SelectedObject \in Objects
         /\ selection.bucket = selected_bucket /\ selected_bucket \in Buckets
         /\ SelectedObject[1] = selected_bucket /\ SelectedObject[2] = selection.key
<1>1. PICK b \in Buckets, k \in Keys : selection = Object(b, k)
  BY DEF SelectionInv, Selection, None, Bucket, Object
<1>2. selection.bucket = b /\ selection.key = k
  BY <1>1 DEF Object
<1>3. b = selected_bucket
  BY <1>2, NamesAssumption DEF SelectionInv
<1> QED BY <1>2, <1>3 DEF SelectedObject, Of, Objects

\* BucketSuits: the subject of a bucket's requests is a bucket.
LEMMA BucketSuits ==
  ASSUME SelectionInv, selected_bucket # NoBucket
  PROVE  Here \in Buckets \X {NoKey} /\ selected_bucket \in Buckets
  BY DEF SelectionInv, Here, Of

\* BucketShownSuits: the bucket shown is the bucket selected.
LEMMA BucketShownSuits ==
  ASSUME SelectionInv, BucketShown
  PROVE  selection = Bucket(selected_bucket) /\ selected_bucket # NoBucket
<1>1. PICK b \in Buckets : selection = Bucket(b)
  BY DEF SelectionInv, Selection, None, Bucket, Object, BucketShown
<1> QED BY <1>1, NamesAssumption DEF SelectionInv, Bucket

NotOfObjects == BucketParts \union ListingParts
NotOfBuckets == ObjectParts \union ListingParts
NotOfLists   == ObjectParts \union BucketParts

\* Disjoint: no part belongs to two panels.
LEMMA Disjoint ==
  /\ \A part \in ObjectParts : part \notin NotOfObjects
  /\ \A part \in BucketParts : part \notin NotOfBuckets
  /\ \A part \in ListingParts : part \notin NotOfLists
  BY DEF ObjectParts, BucketParts, ListingParts, Kinds, NotOfObjects, NotOfBuckets, NotOfLists

\* ObjectEditRequests: an edit of an object's panel.
LEMMA ObjectEditRequests ==
  ASSUME RequestsInv, SelectionInv, PaneShape, ObjectEdit, UNCHANGED <<follow, selected_bucket>>
  PROVE  RequestsInv' /\ SameOf(NotOfObjects) /\ Grounded'
<1> DEFINE Goal == RequestsInv' /\ SameOf(NotOfObjects)
                     /\ (UNCHANGED requests \/ selected_bucket # NoBucket)
<1> SUFFICES Goal
  BY DEF SelectionInv, Grounded
<1>1. ASSUME NEW part \in ObjectParts, NEW op, NEW of \in Objects, NEW value,
             NEW new, new = {Request(part, op, of, value)}, Start(new)
      PROVE  RequestsInv' /\ SameOf(NotOfObjects)
  <2>1. Suits(part, of) /\ part \notin NotOfObjects
    BY Disjoint DEF Suits, ObjectParts, BucketParts, Kinds
  <2> QED BY <1>1, <2>1, StartOne
<1>2. ASSUME selection.kind = "Object"
      PROVE  SelectedObject \in Objects /\ selected_bucket # NoBucket
  BY <1>2, SelectedSuits, NamesAssumption
<1>3. ASSUME NEW t \in Tags, AddTag(t) \/ RemoveTag(t)
      PROVE  Goal
  <2>1. PICK new : SaveTags(new) /\ selection.kind = "Object"
    BY <1>3 DEF AddTag, RemoveTag, TagsShown, Shown
  <2> QED BY <1>1, <1>2, <2>1 DEF SaveTags, ObjectParts
<1>4. ASSUME NEW row \in Rows, DeleteVersion(row) \/ RestoreVersion(row)
      PROVE  Goal
  <2>1. PICK op : OnVersion(row, op) /\ selection.kind = "Object"
    BY <1>4 DEF DeleteVersion, RestoreVersion, Rows, Shown
  <2> QED BY <1>1, <1>2, <2>1 DEF OnVersion, ObjectParts
<1>5. CASE GenerateShareUrl
  BY <1>1, <1>2, <1>5 DEF GenerateShareUrl, Load, ObjectParts
<1>6. CASE RefreshObjectInspect
  BY <1>1, <1>2, <1>6 DEF RefreshObjectInspect, Shown, Load, ObjectParts
<1>7. CASE ConfirmHealObject
  <2>1. /\ pane.heal_confirm_target \in Objects /\ selected_bucket # NoBucket
        /\ Start({Request("heal", "heal", pane.heal_confirm_target, {})})
    BY <1>7 DEF ConfirmHealObject, PaneShape
  <2> QED BY <1>1, <2>1 DEF ObjectParts
<1>8. CASE OpenShareModal \/ CloseShareModal \/ OpenHealConfirm \/ CancelHealConfirm
  BY <1>8, UnchangedKeeps DEF OpenShareModal, CloseShareModal, OpenHealConfirm, CancelHealConfirm
<1> HIDE DEF Goal
<1> QED BY <1>3, <1>4, <1>5, <1>6, <1>7, <1>8 DEF ObjectEdit

\* ObjectMessageRequests: an answer for an object's panel.
LEMMA ObjectMessageRequests ==
  ASSUME RequestsInv, SelectionInv, NEW i \in DOMAIN requests, ObjectMessage(i),
         UNCHANGED <<follow, selected_bucket>>
  PROVE  RequestsInv' /\ SameOf(NotOfObjects) /\ Grounded' /\ requests[i].part \in ObjectParts
<1> DEFINE Goal == RequestsInv' /\ SameOf(NotOfObjects)
<1>1. requests[i].part \in ObjectParts
  BY DEF ObjectMessage, TagsSaved, VersionDeleted, VersionRestored, VersionDone,
         HealObjectFinished, ObjectInspectLoaded, ObjectPartLoaded, Delivered, ObjectParts
<1>2. requests[i].part \notin NotOfObjects /\ requests[i].part # "bucket"
  BY <1>1, Disjoint DEF NotOfObjects, ListingParts
<1> SUFFICES Goal
  BY <1>1, <1>2 DEF SelectionInv, Grounded
<1>3. ASSUME NEW part \in ObjectParts, NEW of \in Objects,
             NEW new, new = {Load(part, of)}, Handled(i, new)
      PROVE  Goal
  <2>1. Suits(part, of) /\ part \notin NotOfObjects
    BY Disjoint DEF Suits, ObjectParts, BucketParts, Kinds
  <2> QED BY <1>2, <1>3, <2>1, HandledOne
<1>4. ASSUME Handled(i, {})
      PROVE  Goal
  BY <1>2, <1>4, HandledNone
<1>5. ASSUME selection.kind = "Object"
      PROVE  SelectedObject \in Objects
  BY <1>5, SelectedSuits
<1> HIDE DEF Goal
<1>6. CASE TagsSaved(i)
  BY <1>3, <1>4, <1>5, <1>6 DEF TagsSaved, ObjectParts
<1>7. CASE VersionDeleted(i)
  BY <1>3, <1>4, <1>5, <1>7 DEF VersionDeleted, VersionDone, ObjectParts
<1>8. CASE VersionRestored(i)
  <2> DEFINE new == {Load("versions", SelectedObject), Load("detail", SelectedObject)}
  <2>1. CASE Handled(i, {})
    BY <1>4, <2>1
  <2>2. CASE Handled(i, new) /\ selection.kind = "Object"
    <3>1. \A r \in new : Formed(r) /\ r.part \in ObjectParts
      <4>1. \A part \in ObjectParts : /\ Formed(Load(part, SelectedObject))
                                      /\ Load(part, SelectedObject).part = part
        BY <1>5, <2>2, LoadObjectPart
      <4> QED BY <4>1 DEF ObjectParts
    <3>2. IsFiniteSet(new)
      BY PairIsFinite
    <3>3. Handled(i, new)
      BY <2>2
    <3> HIDE DEF new
    <3>4. \A r \in new : r.part \notin NotOfObjects
      BY <3>1, Disjoint
    <3> QED BY <1>2, <3>1, <3>2, <3>3, <3>4, HandledKeeps DEF Goal
  <2> QED BY <1>8, <2>1, <2>2 DEF VersionRestored, VersionDone
<1>9. CASE HealObjectFinished(i)
  <2>1. requests[i].of \in Objects
    BY <1>1 DEF RequestsInv, Formed, RightSubject
  <2>2. Handled(i, {Load("inspect", requests[i].of)}) \/ Handled(i, {})
    BY <1>9 DEF HealObjectFinished
  <2> QED BY <1>3, <1>4, <2>1, <2>2 DEF ObjectParts
<1>10. CASE ObjectInspectLoaded(i) \/ ObjectPartLoaded(i)
  BY <1>4, <1>10 DEF ObjectInspectLoaded, ObjectPartLoaded
<1> QED BY <1>6, <1>7, <1>8, <1>9, <1>10 DEF ObjectMessage

\* ServeObjectRequests: a request of an object's panel is served.
LEMMA ServeObjectRequests ==
  ASSUME RequestsInv, SelectionInv, NEW i \in DOMAIN requests, ServeObject(i),
         UNCHANGED <<follow, selected_bucket>>
  PROVE  /\ RequestsInv' /\ SameOf(NotOfObjects) /\ Grounded' /\ requests[i].part \in ObjectParts
         /\ ServedOnly(i) /\ (\A part : Lone(part) => Lone(part)')
<1>1. requests[i].part \in ObjectParts
  BY DEF ServeObject, ServeLoad, ServeTags, ServeVersion, ServeHeal, ObjectParts
<1>2. PICK ok \in BOOLEAN : \E value : Served(i, ok, value)
  <2>1. CASE ServeLoad(i)
    BY <2>1 DEF ServeLoad
  <2>2. CASE ServeTags(i)
    BY <2>2 DEF ServeTags
  <2>3. CASE ServeVersion(i)
    BY <2>3 DEF ServeVersion
  <2>4. CASE ServeHeal(i)
    BY <2>4 DEF ServeHeal
  <2> QED BY <2>1, <2>2, <2>3, <2>4 DEF ServeObject
<1>3. requests[i].part \notin NotOfObjects
  BY <1>1, Disjoint
<1> QED BY <1>1, <1>2, <1>3, ServedKeeps DEF SelectionInv, Grounded, ServedOnly

\* BucketEditRequests, BucketMessageRequests, ServeBucketRequests: the same of a bucket's panel.
LEMMA BucketEditRequests ==
  ASSUME RequestsInv, SelectionInv, BucketEdit, UNCHANGED <<follow, selected_bucket>>
  PROVE  RequestsInv' /\ SameOf(NotOfBuckets) /\ Grounded'
<1> DEFINE Goal == RequestsInv' /\ SameOf(NotOfBuckets)
                     /\ (UNCHANGED requests \/ selected_bucket # NoBucket)
<1> SUFFICES Goal
  BY DEF SelectionInv, Grounded
<1>1. ASSUME NEW part \in BucketParts, NEW op, NEW value, BucketShown,
             NEW new, new = {Request(part, op, Here, value)}, Start(new)
      PROVE  Goal
  <2>1. Here \in Buckets \X {NoKey} /\ selected_bucket # NoBucket
    BY <1>1, BucketShownSuits, BucketSuits
  <2>2. Suits(part, Here) /\ part \notin NotOfBuckets
    BY <2>1, Disjoint DEF Suits, ObjectParts, BucketParts, Kinds
  <2> QED BY <1>1, <2>1, <2>2, StartOne
<1>2. ASSUME UNCHANGED requests
      PROVE  Goal
  BY <1>2, UnchangedKeeps
<1> HIDE DEF Goal
<1>3. ASSUME NEW kind \in Kinds, SaveDocument(kind)
      PROVE  Goal
  BY <1>1, <1>2, <1>3 DEF SaveDocument, BucketParts
<1>4. ASSUME NEW kind \in Kinds, DeleteDocument(kind)
      PROVE  Goal
  BY <1>1, <1>4 DEF DeleteDocument, BucketParts
<1>5. ASSUME NEW t, AddBucketTag(t) \/ RemoveBucketTag(t)
      PROVE  Goal
  BY <1>1, <1>5 DEF AddBucketTag, RemoveBucketTag, SaveBucketTags, BucketParts
<1>6. ASSUME NEW s, ToggleVersioning(s)
      PROVE  Goal
  BY <1>1, <1>6 DEF ToggleVersioning, BucketParts
<1>7. ASSUME NEW kind, OpenDocumentEditor(kind) \/ CancelDocumentEditor(kind)
      PROVE  Goal
  BY <1>2, <1>7 DEF OpenDocumentEditor, CancelDocumentEditor
<1>8. ASSUME NEW kind, NEW text, DocumentEdited(kind, text)
      PROVE  Goal
  BY <1>2, <1>8 DEF DocumentEdited
<1> QED BY <1>3, <1>4, <1>5, <1>6, <1>7, <1>8 DEF BucketEdit

\* BucketMessageRequests: an answer about a bucket's panel.
LEMMA BucketMessageRequests ==
  ASSUME RequestsInv, SelectionInv, NEW i \in DOMAIN requests, BucketMessage(i),
         UNCHANGED <<follow, selected_bucket>>
  PROVE  RequestsInv' /\ SameOf(NotOfBuckets) /\ Grounded' /\ requests[i].part \in BucketParts
<1> DEFINE Goal == RequestsInv' /\ SameOf(NotOfBuckets)
<1>1. requests[i].part \in BucketParts
  BY DEF BucketMessage, DocumentLoaded, DocumentSaved, DocumentDeleted, BucketTagsSaved,
         BucketTagsLoaded, VersioningToggled, BucketStatusLoaded, Delivered, BucketParts
<1>2. requests[i].part \notin NotOfBuckets /\ requests[i].part # "bucket"
  BY <1>1, Disjoint DEF NotOfBuckets, ListingParts
<1>3. selected_bucket # NoBucket
  BY <1>2 DEF SelectionInv, Grounded
<1> SUFFICES Goal
  BY <1>1, <1>3 DEF Grounded
<1>4. ASSUME NEW part \in BucketParts, NEW new, new = {Load(part, Here)}, Handled(i, new)
      PROVE  Goal
  <2>1. Suits(part, Here) /\ part \notin NotOfBuckets
    BY <1>3, BucketSuits, Disjoint DEF Suits, ObjectParts, BucketParts, Kinds
  <2> QED BY <1>2, <1>4, <2>1, HandledOne
<1>5. ASSUME Handled(i, {})
      PROVE  Goal
  BY <1>2, <1>5, HandledNone
<1> HIDE DEF Goal
<1>6. ASSUME NEW kind \in Kinds, DocumentSaved(kind, i)
      PROVE  Goal
  BY <1>4, <1>5, <1>6 DEF DocumentSaved, BucketParts
<1>7. ASSUME NEW kind \in Kinds, DocumentLoaded(kind, i) \/ DocumentDeleted(kind, i)
      PROVE  Goal
  BY <1>5, <1>7 DEF DocumentLoaded, DocumentDeleted
<1>8. CASE BucketTagsSaved(i)
  BY <1>4, <1>5, <1>8 DEF BucketTagsSaved, BucketParts
<1>9. CASE VersioningToggled(i)
  BY <1>4, <1>5, <1>9 DEF VersioningToggled, BucketParts
<1>10. CASE BucketTagsLoaded(i) \/ BucketStatusLoaded(i)
  BY <1>5, <1>10 DEF BucketTagsLoaded, BucketStatusLoaded
<1> QED BY <1>6, <1>7, <1>8, <1>9, <1>10 DEF BucketMessage

\* ServeBucketRequests: the server's answer about a bucket's panel.
LEMMA ServeBucketRequests ==
  ASSUME RequestsInv, SelectionInv, NEW i \in DOMAIN requests, ServeBucket(i),
         UNCHANGED <<follow, selected_bucket>>
  PROVE  /\ RequestsInv' /\ SameOf(NotOfBuckets) /\ Grounded' /\ requests[i].part \in BucketParts
         /\ ServedOnly(i)
<1>1. requests[i].part \in BucketParts
  BY DEF ServeBucket, ServeBucketLoad, ServeDocument, ServeBucketTags, ServeVersioning, BucketParts
<1>2. PICK ok \in BOOLEAN : \E value : Served(i, ok, value)
  <2>1. CASE ServeBucketLoad(i)
    BY <2>1 DEF ServeBucketLoad
  <2>2. CASE ServeDocument(i)
    BY <2>2 DEF ServeDocument
  <2>3. CASE ServeBucketTags(i)
    BY <2>3 DEF ServeBucketTags
  <2>4. CASE ServeVersioning(i)
    BY <2>4 DEF ServeVersioning
  <2> QED BY <2>1, <2>2, <2>3, <2>4 DEF ServeBucket
<1>3. requests[i].part \notin NotOfBuckets
  BY <1>1, Disjoint
<1> QED BY <1>1, <1>2, <1>3, ServedKeeps DEF SelectionInv, Grounded, ServedOnly

\* ListEditRequests, ListMessageRequests, ServeListRequests: the same of the list.
LEMMA ListEditRequests ==
  ASSUME RequestsInv, SelectionInv, ListShape, ListEdit, UNCHANGED <<follow, selected_bucket>>
  PROVE  RequestsInv' /\ SameOf(NotOfLists) /\ Grounded'
<1> DEFINE Goal == RequestsInv' /\ SameOf(NotOfLists) /\ Grounded'
<1> SUFFICES Goal
  OBVIOUS
<1>1. ASSUME NEW part \in ListingParts, NEW op, NEW of, NEW value, Suits(part, of),
             NEW new, new = {Request(part, op, of, value)}, Start(new),
             selected_bucket # NoBucket \/ part = "bucket"
      PROVE  Goal
  <2>1. /\ RequestsInv' /\ SameOf(NotOfLists)
        /\ Added(new)
    BY <1>1, Disjoint, StartOne
  <2>2. Request(part, op, of, value).part = part
    BY DEF Request
  <2>3. Grounded'
    BY <1>1, <2>1, <2>2 DEF Added, Grounded, SelectionInv
  <2> QED BY <2>1, <2>3
<1>2. ASSUME UNCHANGED requests
      PROVE  Goal
  BY <1>2, UnchangedKeeps DEF SelectionInv, Grounded
<1>3. ASSUME selected_bucket # NoBucket, NEW part \in {"objects", "find"}
      PROVE  Suits(part, HereIn(list.current_prefix)) /\ part \in ListingParts
  BY <1>3 DEF SelectionInv, ListShape, Suits, HereIn, Of, ObjectParts, BucketParts, Kinds,
              ListingParts
<1> HIDE DEF Goal
<1>4. CASE Refresh
  BY <1>1, <1>3, <1>4 DEF Refresh, FetchObjects, Load
<1>5. CASE Find
  BY <1>1, <1>3, <1>5 DEF Find
<1>6. CASE DeleteObject
  <2>1. Suits("object", SelectedObject) /\ selected_bucket # NoBucket /\ "object" \in ListingParts
    BY <1>6, SelectedSuits, NamesAssumption
       DEF DeleteObject, Shown, Suits, ObjectParts, BucketParts, Kinds, ListingParts
  <2> QED BY <1>1, <1>6, <2>1 DEF DeleteObject
<1>7. ASSUME NEW k \in Keys, Upload(k)
      PROVE  Goal
  <2>1. Suits("object", Of(selected_bucket, k)) /\ selected_bucket # NoBucket
        /\ "object" \in ListingParts
    BY <1>7 DEF SelectionInv, Upload, Suits, ObjectParts, BucketParts, Kinds, ListingParts, Of,
                Objects
  <2> QED BY <1>1, <1>7, <2>1 DEF Upload
<1>8. ASSUME NEW b \in Buckets, CreateBucket(b)
      PROVE  Goal
  <2>1. Suits("bucket", Of(b, NoKey)) /\ "bucket" \in ListingParts
    BY DEF Suits, ObjectParts, BucketParts, Kinds, ListingParts, Of
  <2> QED BY <1>1, <1>8, <2>1 DEF CreateBucket
<1>9. ASSUME UNCHANGED requests
      PROVE  Goal
  BY <1>2, <1>9
<1> QED BY <1>4, <1>5, <1>6, <1>7, <1>8, <1>9
        DEF ListEdit, ClearFind, ObjectFilterChanged, SelectAllObjects, ClearObjectSelection,
            ToggleObjectSelected, Goal

\* ListMessageRequests: an answer about the list.
LEMMA ListMessageRequests ==
  ASSUME RequestsInv, SelectionInv, ListShape, NEW i \in DOMAIN requests, ListMessage(i),
         UNCHANGED <<follow, selected_bucket>>
  PROVE  RequestsInv' /\ SameOf(NotOfLists) /\ Grounded'
           /\ requests[i].part \in {"objects", "find", "object"}
<1> DEFINE Goal == RequestsInv' /\ SameOf(NotOfLists)
<1>1. requests[i].part \in {"objects", "find", "object"}
  BY DEF ListMessage, ObjectsLoaded, FindComplete, UploadDone, Delivered
<1>2. requests[i].part \notin NotOfLists /\ selected_bucket # NoBucket
  BY <1>1, Disjoint DEF NotOfLists, ListingParts, SelectionInv, Grounded
<1> SUFFICES Goal
  BY <1>1, <1>2 DEF Grounded
<1>3. ASSUME Handled(i, {FetchObjects})
      PROVE  Goal
  <2>1. Suits("objects", HereIn(list.current_prefix)) /\ "objects" \notin NotOfLists
    BY <1>2, Disjoint DEF SelectionInv, ListShape, Suits, HereIn, Of, ObjectParts, BucketParts,
                          Kinds, ListingParts
  <2> QED BY <1>2, <1>3, <2>1, HandledOne DEF FetchObjects
<1>4. ASSUME Handled(i, {})
      PROVE  Goal
  BY <1>2, <1>4, HandledNone
<1> HIDE DEF Goal
<1> QED BY <1>3, <1>4 DEF ListMessage, ObjectsLoaded, FindComplete, UploadDone

\* ServeListRequests: the server's answer about the list or to a command.
LEMMA ServeListRequests ==
  ASSUME RequestsInv, SelectionInv, NEW i \in DOMAIN requests,
         ServeListing(i) \/ ServeCommand(i), UNCHANGED <<follow, selected_bucket>>
  PROVE  /\ RequestsInv' /\ SameOf(NotOfLists) /\ Grounded' /\ requests[i].part \in ListingParts
         /\ ServedOnly(i)
<1>1. requests[i].part \in ListingParts
  BY DEF ServeListing, ServeCommand, ListingParts
<1>2. PICK ok \in BOOLEAN : \E value : Served(i, ok, value)
  <2>1. CASE ServeListing(i)
    BY <2>1 DEF ServeListing
  <2>2. CASE ServeCommand(i)
    BY <2>2 DEF ServeCommand
  <2> QED BY <2>1, <2>2
<1>3. requests[i].part \notin NotOfLists
  BY <1>1, Disjoint
<1> QED BY <1>1, <1>2, <1>3, ServedKeeps DEF SelectionInv, Grounded, ServedOnly

\* SameOfFewer: subsets of parts are as before, too.
LEMMA SameOfFewer ==
  ASSUME NEW P, NEW Q, SameOf(P), Q \subseteq P
  PROVE  SameOf(Q)
  BY DEF SameOf

\* StillUnderWay: so what was under way of them still is.
LEMMA StillUnderWay ==
  ASSUME NEW parts, SameOf(parts), NEW part \in parts, NEW op, UnderWay(part, op)
  PROVE  UnderWay(part, op)'
  BY DEF SameOf, UnderWay

-----------------------------------------------------------------------------
(* The panel of an object: steps that select something *)

ObjectInv == PaneShape /\ ObjectFollowed /\ ObjectWaits /\ ObjectShown /\ VersionsInv /\ TagsInv

\* ClearedFields: what clear_object_admin_state leaves.
LEMMA ClearedFields ==
  ASSUME NEW p
  PROVE  LET q == Cleared(p)
         IN  /\ DOMAIN q = DOMAIN NoPane
             /\ q.detail = p.detail /\ q.loading_detail = p.loading_detail
             /\ q.object_tags = Empty /\ q.loading_tags = FALSE
             /\ q.object_versions = Empty /\ q.loading_versions = FALSE
             /\ q.object_preview = Empty /\ q.share_url = Empty
             /\ q.object_inspect = Empty /\ q.loading_object_inspect = FALSE
             /\ q.heal_confirm_target = NoObject /\ q.healing = NoObject
             /\ q.heal_result = NoObject
<1> DEFINE d == p.detail
           l == p.loading_detail
<1>1. Cleared(p) = [NoPane EXCEPT !.detail = d, !.loading_detail = l]
  BY DEF Cleared
<1> HIDE DEF d, l
<1>2. /\ Cleared(p).detail = d /\ Cleared(p).loading_detail = l
      /\ DOMAIN Cleared(p) = DOMAIN NoPane
      /\ \A f \in DOMAIN NoPane \ {"detail", "loading_detail"} : Cleared(p)[f] = NoPane[f]
  BY <1>1 DEF NoPane
<1>3. /\ NoPane.object_tags = Empty /\ NoPane.loading_tags = FALSE
      /\ NoPane.object_versions = Empty /\ NoPane.loading_versions = FALSE
      /\ NoPane.object_preview = Empty /\ NoPane.share_url = Empty
      /\ NoPane.object_inspect = Empty /\ NoPane.loading_object_inspect = FALSE
      /\ NoPane.heal_confirm_target = NoObject /\ NoPane.healing = NoObject
      /\ NoPane.heal_result = NoObject
  BY DEF NoPane
<1>4. DOMAIN NoPane = {"detail", "loading_detail", "object_tags", "loading_tags",
        "object_versions", "loading_versions", "object_preview", "share_modal_open", "share_url",
        "object_inspect", "loading_object_inspect", "heal_confirm_target", "healing",
        "heal_result"}
  BY DEF NoPane
<1> QED BY <1>2, <1>3, <1>4 DEF d, l

\* VersionsFrame, TagsFrame: steps about other things leave the versions and the tags alone.
LEMMA VersionsFrame ==
  ASSUME VersionsInv, SameOf({"versions"}), restless => restless',
         UNCHANGED <<selection, misdirected, pane.object_versions>>
  PROVE  VersionsInv'
  BY DEF VersionsInv, SameOf, RowsOf

\* TagsFrame: what is known of an object's tags survives steps about other parts.
LEMMA TagsFrame ==
  ASSUME TagsInv, SameOf({"tags"}), restless => restless', unsure => unsure',
         UNCHANGED <<tags, wished, selection, pane.object_tags, pane.loading_tags>>
  PROVE  TagsInv'
<1>1. (tags = [o \in Objects |-> tags[o]] /\ wished = [o \in Objects |-> wished[o]])'
  BY DEF TagsInv
<1>2. Lone("tags") => Lone("tags")'
  BY DEF SameOf
<1>3. ASSUME NEW l \in DOMAIN requests', requests'[l].part = "tags"
      PROVE  \E j \in DOMAIN requests : requests'[l] = requests[j]
  BY <1>3 DEF SameOf
<1>4. (\A j \in DOMAIN requests' : ~Unsaved(requests'[j])) =>
         \A j \in DOMAIN requests : ~Unsaved(requests[j])
  BY DEF SameOf, Unsaved
<1>5. ASSUME NEW l \in DOMAIN requests', Unapplied(requests'[l])
      PROVE  \E j \in DOMAIN requests : Unapplied(requests[j])
  BY <1>3, <1>5 DEF Unapplied
<1> QED BY <1>1, <1>2, <1>3, <1>4, <1>5 DEF TagsInv, Unsaved, SelectedObject

\* ObjectFrame: steps of the other panel and the list leave the panel of an object alone.
LEMMA ObjectFrame ==
  ASSUME ObjectInv, RequestsInv, SameOf(ObjectParts),
         UNCHANGED <<objectVars, selection, selected_bucket, follow>>,
         restless => restless', unsure => unsure'
  PROVE  ObjectInv'
<1> USE DEF objectVars, ObjectInv
<1>1. PaneShape' /\ ObjectFollowed'
  BY DEF PaneShape, ObjectFollowed, NoPane
<1>2. ASSUME NEW part \in ObjectParts, NEW op, UnderWay(part, op)
      PROVE  UnderWay(part, op)'
  BY <1>2, StillUnderWay
<1>3. ObjectWaits'
  <2>1. (pane.loading_detail => UnderWay("detail", "load"))'
    BY <1>2 DEF ObjectWaits, ObjectParts
  <2>2. (pane.loading_tags => UnderWay("tags", "load") \/ UnderWay("tags", "save"))'
    BY <1>2 DEF ObjectWaits, ObjectParts
  <2>3. (pane.loading_versions =>
           \E op \in {"load", "delete", "restore"} : UnderWay("versions", op))'
    BY <1>2 DEF ObjectWaits, ObjectParts
  <2>4. ((pane.loading_object_inspect /\ selection.kind = "Object") =>
           \E i \in DOMAIN requests :
             requests[i].part = "inspect" /\ requests[i].of = SelectedObject)'
    BY DEF ObjectWaits, SameOf, ObjectParts, SelectedObject
  <2>5. (pane.healing # Nothing =>
           \E i \in DOMAIN requests :
             requests[i].part = "heal" /\ requests[i].of = pane.healing)'
    BY DEF ObjectWaits, SameOf, ObjectParts
  <2> QED BY <2>1, <2>2, <2>3, <2>4, <2>5 DEF ObjectWaits
<1>4. ObjectShown'
  BY DEF ObjectShown, SameOf, Unnamed, ObjectParts, OfSelected, SelectedObject
<1>5. SameOf({"tags"}) /\ SameOf({"versions"})
  BY SameOfFewer DEF ObjectParts
<1>6. VersionsInv' /\ TagsInv'
  BY <1>5, VersionsFrame, TagsFrame
<1> QED BY <1>1, <1>3, <1>4, <1>5, <1>6

\* NoneUnnamed: when something is selected, the answers under way that name no object are
\* of none but the one selected before, unless the selection is restless.
NoneUnnamed == ~restless' => \A i \in DOMAIN requests : requests[i].part \notin Unnamed

\* ObjectLeft: a step that leaves the object for a bucket, or for nothing.
LEMMA ObjectLeft ==
  ASSUME ObjectInv, RequestsInv, SameOf(ObjectParts), NoneUnnamed,
         selection'.kind # "Object", selected_bucket' # NoBucket \/ UNCHANGED selected_bucket,
         pane' = Cleared(pane) \/ pane' = [pane EXCEPT !.detail = Empty],
         UNCHANGED <<objectTruth, follow, unsure>>, restless => restless'
  PROVE  ObjectInv'
<1> USE DEF ObjectInv
<1>1. /\ DOMAIN pane' = DOMAIN NoPane
      /\ pane'.loading_detail = pane.loading_detail
      /\ pane'.heal_confirm_target \in {NoObject, pane.heal_confirm_target}
      /\ pane'.detail \in {pane.detail, Empty}
      /\ pane'.object_tags \in {pane.object_tags, Empty}
      /\ pane'.object_versions \in {pane.object_versions, Empty}
      /\ pane'.loading_tags = FALSE \/ pane'.loading_tags = pane.loading_tags
      /\ pane'.loading_versions = FALSE \/ pane'.loading_versions = pane.loading_versions
      /\ pane'.healing \in {NoObject, pane.healing}
  <2>1. CASE pane' = Cleared(pane)
    BY <2>1, ClearedFields
  <2>2. CASE pane' = [pane EXCEPT !.detail = Empty]
    <3>1. DOMAIN pane = DOMAIN NoPane
      BY DEF PaneShape
    <3>2. /\ DOMAIN pane' = DOMAIN pane
          /\ \A f \in DOMAIN pane : f # "detail" => pane'[f] = pane[f]
          /\ "detail" \in DOMAIN pane => pane'.detail = Empty
      BY <2>2
    <3>3. {"detail", "loading_detail", "heal_confirm_target", "object_tags", "object_versions",
           "loading_tags", "loading_versions", "healing"} \subseteq DOMAIN NoPane
      BY DEF NoPane
    <3> QED BY <3>1, <3>2, <3>3
  <2> QED BY <2>1, <2>2
<1>3. PaneShape'
  BY <1>1 DEF PaneShape, NoPane
<1>4. ObjectFollowed'
  BY <1>1 DEF ObjectFollowed
<1>5. ObjectWaits'
  <2> \A part \in ObjectParts : \A op : UnderWay(part, op) => UnderWay(part, op)'
    BY StillUnderWay
  <2>1. (pane.loading_detail => UnderWay("detail", "load"))'
    BY <1>1 DEF ObjectWaits, ObjectParts
  <2>2. (pane.loading_tags => UnderWay("tags", "load") \/ UnderWay("tags", "save"))'
    BY <1>1 DEF ObjectWaits, ObjectParts
  <2>3. (pane.loading_versions =>
           \E op \in {"load", "delete", "restore"} : UnderWay("versions", op))'
    BY <1>1 DEF ObjectWaits, ObjectParts
  <2>4. (pane.healing # Nothing =>
           \E i \in DOMAIN requests :
             requests[i].part = "heal" /\ requests[i].of = pane.healing)'
    BY <1>1 DEF ObjectWaits, SameOf, ObjectParts, Nothing
  <2> QED BY <2>1, <2>2, <2>3, <2>4 DEF ObjectWaits
<1>6. ~restless' => \A l \in DOMAIN requests' : requests'[l].part \notin Unnamed
  BY DEF NoneUnnamed, SameOf, Unnamed, ObjectParts
<1>7. ObjectShown'
  BY <1>6 DEF ObjectShown
<1>8. VersionsInv'
  BY <1>6 DEF VersionsInv, SameOf, ObjectParts, RowsOf, objectTruth
<1>9. TagsInv'
  <2>1. (tags = [o \in Objects |-> tags[o]] /\ wished = [o \in Objects |-> wished[o]])'
    BY DEF TagsInv, objectTruth
  <2>2. ~restless' => \A l \in DOMAIN requests' : requests'[l].part # "tags"
    BY <1>6 DEF Unnamed
  <2>3. ~restless' => \A l \in DOMAIN requests : requests[l].part # "tags"
    BY DEF NoneUnnamed, Unnamed
  <2>4. ~restless' /\ ~unsure => wished = tags
    BY <2>3 DEF TagsInv, Unsaved
  <2> QED BY <2>1, <2>2, <2>4 DEF TagsInv, Lone, Unsaved, objectTruth
<1> QED BY <1>3, <1>4, <1>5, <1>7, <1>8, <1>9

\* OpeningRequests: the requests that opening an object's panel starts.
LEMMA OpeningRequests ==
  ASSUME NEW o \in Objects
  PROVE  /\ IsFiniteSet(OpeningLoads(o))
         /\ \A r \in OpeningLoads(o) :
              /\ Formed(r) /\ r.op = "load" /\ r.of = o /\ r.at = "sent"
              /\ r.part \in {"detail", "inspect", "tags", "versions", "preview"}
         /\ \A part \in {"detail", "inspect", "tags", "versions", "preview"} :
              \E r \in OpeningLoads(o) : r.part = part
         /\ \A r, s \in OpeningLoads(o) : r.part = s.part => r = s
<1> DEFINE P == {"detail", "inspect", "tags", "versions", "preview"}
           all == {Load("detail", o), Load("inspect", o)}
                    \union {Load("tags", o), Load("versions", o)}
                    \union {Load("preview", o), Load("preview", o)}
<1>1. \A part \in P : /\ Formed(Load(part, o)) /\ Load(part, o).part = part
                      /\ Load(part, o).op = "load" /\ Load(part, o).of = o
                      /\ Load(part, o).at = "sent"
  <2>1. \A part \in P : Formed(Load(part, o))
    BY LoadObjectPart DEF ObjectParts
  <2> QED BY <2>1 DEF Load, Request
<1>2. OpeningLoads(o) = all
  BY DEF OpeningLoads
<1>3. IsFiniteSet(all)
  BY PairIsFinite, FS_Union
<1>4. OpeningLoads(o) = {Load(part, o) : part \in P}
  BY DEF OpeningLoads
<1> QED BY <1>1, <1>2, <1>3, <1>4

\* OpenedFields: the panel of an object just selected.
LEMMA OpenedFields ==
  ASSUME NEW p
  PROVE  LET q == Opened(p)
         IN  /\ DOMAIN q = DOMAIN NoPane
             /\ q.detail = p.detail /\ q.loading_detail = ("detail" \in follow)
             /\ q.object_tags = Empty /\ q.loading_tags = ("tags" \in follow)
             /\ q.object_versions = Empty /\ q.loading_versions = ("versions" \in follow)
             /\ q.object_preview = Empty /\ q.share_url = Empty
             /\ q.object_inspect = Empty
             /\ q.loading_object_inspect = ("inspect" \in follow)
             /\ q.heal_confirm_target = NoObject /\ q.healing = NoObject
             /\ q.heal_result = NoObject
<1> DEFINE q == Opened(p)
           c == Cleared(p)
           a == "detail" \in follow
           b == "tags" \in follow
           d == "versions" \in follow
           e == "inspect" \in follow
<1>1. q = [c EXCEPT !.loading_detail = a, !.loading_tags = b, !.loading_versions = d,
                    !.loading_object_inspect = e]
  BY DEF Opened
<1>2. /\ DOMAIN c = DOMAIN NoPane /\ c.detail = p.detail
      /\ c.object_tags = Empty /\ c.object_versions = Empty /\ c.object_preview = Empty
      /\ c.share_url = Empty /\ c.object_inspect = Empty /\ c.heal_confirm_target = NoObject
      /\ c.healing = NoObject /\ c.heal_result = NoObject
  BY ClearedFields
<1>3. DOMAIN NoPane = {"detail", "loading_detail", "object_tags", "loading_tags",
        "object_versions", "loading_versions", "object_preview", "share_modal_open", "share_url",
        "object_inspect", "loading_object_inspect", "heal_confirm_target", "healing",
        "heal_result"}
  BY DEF NoPane
<1>4. /\ q.loading_detail = a /\ q.loading_tags = b /\ q.loading_versions = d
      /\ q.loading_object_inspect = e
      /\ DOMAIN q = DOMAIN c
      /\ \A f \in DOMAIN c \ {"loading_detail", "loading_tags", "loading_versions",
                              "loading_object_inspect"} : q[f] = c[f]
  <2> HIDE DEF a, b, d, e, c, q
  <2> QED BY <1>1, <1>2, <1>3
<1>5. /\ q.detail = c.detail /\ q.object_tags = c.object_tags
      /\ q.object_versions = c.object_versions /\ q.object_preview = c.object_preview
      /\ q.share_url = c.share_url /\ q.object_inspect = c.object_inspect
      /\ q.heal_confirm_target = c.heal_confirm_target /\ q.healing = c.healing
      /\ q.heal_result = c.heal_result
  <2> HIDE DEF a, b, d, e, c, q
  <2> QED BY <1>2, <1>3, <1>4
<1> HIDE DEF q, c
<1>6. /\ q.loading_detail = ("detail" \in follow) /\ q.loading_tags = ("tags" \in follow)
      /\ q.loading_versions = ("versions" \in follow)
      /\ q.loading_object_inspect = ("inspect" \in follow)
  BY <1>4, Zenon
<1>7. q = Opened(p)
  BY DEF q
<1> QED BY <1>2, <1>4, <1>5, <1>6, <1>7

\* SelectObjectStep: an object is selected.
LEMMA SelectObjectStep ==
  ASSUME RequestsInv, SelectionInv, ObjectInv, NEW k \in Keys, SelectObject(k)
  PROVE  RequestsInv' /\ SelectionInv' /\ SameOf(NotOfObjects) /\ ObjectInv'
<1> DEFINE o == Of(selected_bucket, k)
           new == OpeningLoads(o)
<1>1. /\ selected_bucket \in Buckets /\ selected_bucket # NoBucket /\ o \in Objects
      /\ o # NoObject
  BY NamesAssumption DEF SelectObject, SelectionInv, Of, Objects, NoObject
<1>2. /\ selection' = Object(selected_bucket, k) /\ selection'.kind = "Object"
      /\ SelectedObject' = o
      /\ pane' = Opened(pane) /\ Start(new)
      /\ UNCHANGED <<selected_bucket, objectTruth, follow, unsure, hasty>>
      /\ restless' = (restless \/ requests # <<>>)
  BY DEF SelectObject, Selects, Object, SelectedObject
<1>3. /\ IsFiniteSet(new)
      /\ \A r \in new :
           /\ Formed(r) /\ r.op = "load" /\ r.of = o /\ r.at = "sent"
           /\ r.part \in {"detail", "inspect", "tags", "versions", "preview"}
      /\ \A part \in {"detail", "inspect", "tags", "versions", "preview"} :
           \E r \in new : r.part = part
      /\ \A r, s \in new : r.part = s.part => r = s
  BY <1>1, OpeningRequests
<1> HIDE DEF new, o
<1>4. \A r \in new : r.part \in ObjectParts /\ r.part \notin NotOfObjects
  BY <1>3, Disjoint DEF ObjectParts
<1>5. RequestsInv' /\ SameOf(NotOfObjects) /\ Added(new)
  BY <1>2, <1>3, <1>4, StartKeeps
<1>6. SelectionInv'
  BY <1>1, <1>2 DEF SelectionInv, Grounded, Selection, Object
<1>7. /\ DOMAIN pane' = DOMAIN NoPane
      /\ pane'.detail = pane.detail /\ (pane'.loading_detail <=> "detail" \in follow)
      /\ pane'.object_tags = Empty /\ (pane'.loading_tags <=> "tags" \in follow)
      /\ pane'.object_versions = Empty /\ (pane'.loading_versions <=> "versions" \in follow)
      /\ pane'.object_preview = Empty /\ pane'.share_url = Empty
      /\ pane'.object_inspect = Empty
      /\ (pane'.loading_object_inspect <=> "inspect" \in follow)
      /\ pane'.heal_confirm_target = NoObject /\ pane'.healing = NoObject
      /\ pane'.heal_result = NoObject
  BY <1>2, OpenedFields
<1>8. Empty.of = Nothing /\ Empty.is = "None"
  BY DEF Empty, Nothing, NoObject
<1>9. ~restless' => requests = <<>> /\ ~restless
  BY <1>2 DEF SelectionInv
<1>10. ~restless' =>
         /\ DOMAIN requests = {}
         /\ \A l \in DOMAIN requests' : requests'[l] \in new /\ requests'[l].part \in follow
  BY <1>5, <1>9 DEF Added
<1>11. \A part \in {"detail", "inspect", "tags", "versions", "preview"} : part \in follow =>
         \E l \in DOMAIN requests' : requests'[l].part = part /\ requests'[l].op = "load"
                                       /\ requests'[l].of = o
  BY <1>3, <1>5 DEF Added
<1>12. PaneShape' /\ ObjectFollowed'
  BY <1>2, <1>7 DEF PaneShape, ObjectFollowed, ObjectInv, NoPane
<1>13. ObjectWaits'
  BY <1>2, <1>7, <1>11 DEF ObjectWaits, UnderWay, Nothing
<1>14. ObjectShown'
  <2>1. pane.detail = Empty \/ "detail" \in follow
    BY DEF ObjectInv, ObjectFollowed
  <2>2. /\ OfSelected(pane.object_inspect)' /\ OfSelected(pane.object_tags)'
        /\ OfSelected(pane.object_versions)' /\ OfSelected(pane.object_preview)'
        /\ OfSelected(pane.share_url)'
        /\ (pane.loading_detail \/ OfSelected(pane.detail))'
    BY <1>7, <1>8, <2>1 DEF OfSelected, Nothing
  <2> QED BY <1>2, <1>3, <1>7, <1>10, <2>2 DEF ObjectShown, Nothing
<1>15. VersionsInv'
  <2>1. ASSUME NEW l \in DOMAIN requests', requests'[l].at = "done"
        PROVE  \E j \in DOMAIN requests : requests'[l] = requests[j]
    BY <1>3, <1>5, <2>1 DEF Added
  <2> QED BY <1>2, <1>7, <1>8, <1>9, <2>1 DEF VersionsInv, ObjectInv, RowsOf, objectTruth
<1>16. TagsInv'
  <2>1. (tags = [p \in Objects |-> tags[p]] /\ wished = [p \in Objects |-> wished[p]])'
    BY <1>2 DEF TagsInv, ObjectInv, objectTruth
  <2>2. ~restless' => Lone("tags")'
    <3>1. \A a, b \in DOMAIN requests' \ DOMAIN requests :
            requests'[a] = requests'[b] => a = b
      BY <1>2, <1>3, StartAdds DEF RequestsInv
    <3> QED BY <1>3, <1>10, <3>1 DEF Lone
  <2>3. ~restless' => \A l \in DOMAIN requests' : requests'[l].part = "tags" => pane'.loading_tags
    BY <1>3, <1>7, <1>10
  <2>4. ~restless' =>
          \A l \in DOMAIN requests' : requests'[l].op = "load" /\ requests'[l].at = "sent"
    BY <1>3, <1>10
  <2>5. ~restless' /\ ~unsure => wished = tags
    BY <1>9, <1>10 DEF TagsInv, ObjectInv
  <2> QED BY <1>2, <1>7, <1>8, <2>1, <2>2, <2>3, <2>4, <2>5 DEF TagsInv, Unsaved, objectTruth
<1> QED BY <1>5, <1>6, <1>12, <1>13, <1>14, <1>15, <1>16 DEF ObjectInv

-----------------------------------------------------------------------------
(* The panel of an object: edits *)

\* PaneEdited: what an edit may do to the panel and the requests of the object selected.
PaneEdited(new) ==
  /\ Added(new)
  /\ \A r \in new : /\ r.part \in ObjectParts /\ r.at = "sent"
                    /\ r.part \in Unnamed => r.of = SelectedObject
  /\ DOMAIN pane' = DOMAIN pane
  /\ UNCHANGED <<pane.detail, pane.object_tags, pane.object_versions, pane.object_preview,
                 pane.object_inspect, pane.loading_detail>>
  /\ pane'.share_url \in {pane.share_url, Empty}
  /\ pane'.heal_result \in {pane.heal_result, pane.heal_confirm_target}
  /\ \/ pane'.heal_confirm_target \in {pane.heal_confirm_target, NoObject}
     \/ pane'.heal_confirm_target = SelectedObject /\ selection.kind = "Object"
  /\ pane'.loading_tags => pane.loading_tags \/ UnderWay("tags", "save")'
  /\ pane'.loading_versions => \/ pane.loading_versions
                               \/ (\E op \in {"delete", "restore"} : UnderWay("versions", op)')
  /\ pane'.loading_object_inspect =>
       \/ pane.loading_object_inspect
       \/ \E r \in new : r.part = "inspect" /\ r.of = SelectedObject /\ r.part \in follow
  /\ pane'.healing # pane.healing =>
       \E r \in new : r.part = "heal" /\ r.of = pane'.healing /\ r.part \in follow

\* ObjectEdited: such an edit keeps the panel right, but for its versions and tags.
LEMMA ObjectEdited ==
  ASSUME RequestsInv, SelectionInv, ObjectInv, NEW new, PaneEdited(new),
         UNCHANGED <<selection, selected_bucket, follow, restless>>
  PROVE  PaneShape' /\ ObjectFollowed' /\ ObjectWaits' /\ ObjectShown'
<1> USE DEF ObjectInv
<1>1. SelectedObject' = SelectedObject
  BY DEF SelectedObject
<1>2. \A part, op : UnderWay(part, op) => UnderWay(part, op)'
  BY DEF UnderWay, PaneEdited, Added
<1>3. PaneShape'
  <2>1. selection.kind = "Object" => SelectedObject \in Objects /\ selected_bucket # NoBucket
    BY SelectedSuits, NamesAssumption
  <2>2. pane'.heal_confirm_target # NoObject => selected_bucket # NoBucket
    BY <2>1 DEF PaneShape, PaneEdited
  <2>3. pane'.heal_confirm_target \in Objects \union {NoObject}
    BY <2>1 DEF PaneShape, PaneEdited
  <2>4. DOMAIN pane' = DOMAIN NoPane
    BY DEF PaneShape, PaneEdited
  <2> QED BY <2>2, <2>3, <2>4 DEF PaneShape, NoPane
<1>4. ObjectFollowed'
  BY DEF ObjectFollowed, PaneEdited
<1>5. ObjectWaits'
  <2>1. (pane.loading_detail => UnderWay("detail", "load"))'
    BY <1>2 DEF ObjectWaits, PaneEdited
  <2>2. (pane.loading_tags => UnderWay("tags", "load") \/ UnderWay("tags", "save"))'
    BY <1>2 DEF ObjectWaits, PaneEdited
  <2>3. (pane.loading_versions =>
           \E op \in {"load", "delete", "restore"} : UnderWay("versions", op))'
    BY <1>2 DEF ObjectWaits, PaneEdited
  <2>4. ((pane.loading_object_inspect /\ selection.kind = "Object") =>
           \E i \in DOMAIN requests :
             requests[i].part = "inspect" /\ requests[i].of = SelectedObject)'
    BY <1>1 DEF ObjectWaits, PaneEdited, Added
  <2>5. (pane.healing # Nothing =>
           \E i \in DOMAIN requests :
             requests[i].part = "heal" /\ requests[i].of = pane.healing)'
    BY DEF ObjectWaits, PaneEdited, Added, Nothing
  <2> QED BY <2>1, <2>2, <2>3, <2>4, <2>5 DEF ObjectWaits
<1>6. ObjectShown'
  <2>1. ~restless => \A l \in DOMAIN requests' :
          requests'[l].part \in Unnamed => requests'[l].of = SelectedObject
    BY DEF ObjectShown, PaneEdited, Added
  <2>2. Empty.of = Nothing
    BY DEF Empty, Nothing, NoObject
  <2>3. selection.kind = "Object" =>
          {pane'.heal_result, pane'.heal_confirm_target} \subseteq {SelectedObject, Nothing}
    BY DEF ObjectShown, PaneEdited, Nothing
  <2> QED BY <1>1, <2>1, <2>2, <2>3 DEF ObjectShown, PaneEdited, OfSelected
<1> QED BY <1>3, <1>4, <1>5, <1>6

\* NewObjectRequest: a request about the object selected, as an edit starts it.
LEMMA NewObjectRequest ==
  ASSUME RequestsInv, follow' = follow, NEW part \in ObjectParts, NEW op, NEW of \in Objects,
         NEW value, NEW new, new = {Request(part, op, of, value)}, Start(new)
  PROVE  /\ \A r \in new : /\ r.part = part /\ r.op = op /\ r.of = of /\ r.at = "sent"
                           /\ r.value = value
         /\ new # {}
         /\ Added(new)
         /\ part \in follow => UnderWay(part, op)'
         /\ \A parts : part \notin parts => SameOf(parts)
         /\ (\A j \in DOMAIN requests : requests[j].part # part) => Lone(part)'
<1>1. \A r \in new : /\ r.part = part /\ r.op = op /\ r.of = of /\ r.at = "sent"
                     /\ r.value = value
  BY DEF Request
<1>2. Suits(part, of)
  BY DEF Suits, ObjectParts, BucketParts, Kinds
<1>3. \A parts : part \notin parts => SameOf(parts)
  BY <1>2, StartOne
<1>4. Added(new)
  BY <1>2, StartOne, part \notin {}
<1>5. part \in follow => UnderWay(part, op)'
  BY <1>1, <1>4 DEF Added, UnderWay
<1>6. ASSUME \A j \in DOMAIN requests : requests[j].part # part
      PROVE  Lone(part)'
  <2>1. IsFiniteSet(new)
    BY FS_Singleton
  <2>2. /\ \A a, b \in DOMAIN requests' \ DOMAIN requests : requests'[a] = requests'[b] => a = b
        /\ \A j \in DOMAIN requests : requests'[j] = requests[j]
        /\ \A j \in DOMAIN requests' \ DOMAIN requests : requests'[j] \in new
    BY <2>1, StartAdds DEF RequestsInv
  <2> QED BY <1>6, <2>2 DEF Lone
<1> QED BY <1>1, <1>3, <1>4, <1>5, <1>6

\* PaneKept: the fields of the panel that a step does not name are kept.
LEMMA PaneKept ==
  ASSUME DOMAIN pane = DOMAIN NoPane, NEW S,
         \A f \in DOMAIN pane : f \notin S => pane'[f] = pane[f]
  PROVE  /\ "detail" \in S \/ pane'.detail = pane.detail
         /\ "loading_detail" \in S \/ pane'.loading_detail = pane.loading_detail
         /\ "object_tags" \in S \/ pane'.object_tags = pane.object_tags
         /\ "loading_tags" \in S \/ pane'.loading_tags = pane.loading_tags
         /\ "object_versions" \in S \/ pane'.object_versions = pane.object_versions
         /\ "loading_versions" \in S \/ pane'.loading_versions = pane.loading_versions
         /\ "object_preview" \in S \/ pane'.object_preview = pane.object_preview
         /\ "share_url" \in S \/ pane'.share_url = pane.share_url
         /\ "object_inspect" \in S \/ pane'.object_inspect = pane.object_inspect
         /\ \/ "loading_object_inspect" \in S
            \/ pane'.loading_object_inspect = pane.loading_object_inspect
         /\ \/ "heal_confirm_target" \in S
            \/ pane'.heal_confirm_target = pane.heal_confirm_target
         /\ "healing" \in S \/ pane'.healing = pane.healing
         /\ "heal_result" \in S \/ pane'.heal_result = pane.heal_result
<1>1. {"detail", "loading_detail", "object_tags", "loading_tags", "object_versions",
       "loading_versions", "object_preview", "share_modal_open", "share_url", "object_inspect",
       "loading_object_inspect", "heal_confirm_target", "healing", "heal_result"} = DOMAIN NoPane
  BY DEF NoPane
<1> QED BY <1>1

\* SaveTagsStep: the tags shown are put with a change, which is the user's wish, too.
LEMMA SaveTagsStep ==
  ASSUME RequestsInv, SelectionInv, ObjectInv, TagsShown, NEW set, SaveTags(set),
         wished' = [wished EXCEPT ![SelectedObject] = wished'[SelectedObject]],
         pane.object_tags.value = wished[SelectedObject] => wished'[SelectedObject] = set,
         UNCHANGED <<selection, selected_bucket, follow, restless, unsure, tags, misdirected>>
  PROVE  ObjectInv'
<1>1. PICK new : new = {Request("tags", "save", SelectedObject, set)}
  OBVIOUS
<1>2. /\ selection.kind = "Object" /\ pane.object_tags # Empty /\ ~pane.loading_tags
      /\ pane.object_tags.is = "Ok"
  BY DEF TagsShown, Shown, Empty
<1>3. pane' = [pane EXCEPT !.loading_tags = TRUE]
  BY DEF SaveTags
<1>4. Start(new)
  BY <1>1 DEF SaveTags
<1>5. "tags" \in follow /\ SelectedObject \in Objects /\ "tags" \in ObjectParts
  BY <1>2, SelectedSuits DEF ObjectInv, ObjectFollowed, ObjectParts
<1>6. /\ \A r \in new : /\ r.part = "tags" /\ r.op = "save" /\ r.of = SelectedObject
                        /\ r.at = "sent" /\ r.value = set
      /\ new # {}
      /\ Added(new)
      /\ UnderWay("tags", "save")'
      /\ SameOf({"versions"})
      /\ (\A j \in DOMAIN requests : requests[j].part # "tags") => Lone("tags")'
  <2>1. /\ \A r \in new : /\ r.part = "tags" /\ r.op = "save" /\ r.of = SelectedObject
                          /\ r.at = "sent" /\ r.value = set
        /\ new # {}
    BY <1>1 DEF Request
  <2>2. /\ Added(new)
        /\ "tags" \in follow => UnderWay("tags", "save")'
        /\ \A parts : "tags" \notin parts => SameOf(parts)
        /\ (\A j \in DOMAIN requests : requests[j].part # "tags") => Lone("tags")'
    BY <1>1, <1>4, <1>5, NewObjectRequest
  <2>3. SameOf({"versions"})
    BY <2>2, "tags" \notin {"versions"}
  <2> QED BY <1>5, <2>1, <2>2, <2>3
<1>7. /\ DOMAIN pane' = DOMAIN pane /\ pane'.loading_tags = TRUE
      /\ \A f \in DOMAIN pane : f \notin {"loading_tags"} => pane'[f] = pane[f]
      /\ DOMAIN pane = DOMAIN NoPane
  <2>1. DOMAIN pane = DOMAIN NoPane /\ "loading_tags" \in DOMAIN NoPane
    BY DEF ObjectInv, PaneShape, NoPane
  <2> QED BY <1>3, <2>1
<1>8. PaneEdited(new)
  BY <1>5, <1>6, <1>7, PaneKept DEF PaneEdited
<1>9. PaneShape' /\ ObjectFollowed' /\ ObjectWaits' /\ ObjectShown'
  BY <1>8, ObjectEdited
<1>10. VersionsInv'
  <2>1. pane'.object_versions = pane.object_versions
    BY <1>7, PaneKept
  <2> QED BY <1>6, <2>1, VersionsFrame DEF ObjectInv
<1>11. TagsInv'
  <2>1. ~restless => \A j \in DOMAIN requests : requests[j].part # "tags"
    BY <1>2 DEF ObjectInv, TagsInv
  <2>2. ~restless => \A l \in DOMAIN requests' : requests'[l].part = "tags" => requests'[l] \in new
    BY <1>6, <2>1 DEF Added
  <2>3. ~restless /\ ~unsure => wished = tags /\ pane.object_tags.value = tags[SelectedObject]
    BY <1>2, <2>1 DEF ObjectInv, TagsInv, Unsaved
  <2>8. (~restless /\ ~unsure => pane.object_tags.value = tags[SelectedObject])'
    BY <1>7, <2>3, PaneKept DEF SelectedObject
  <2>4. ~restless /\ ~unsure => wished' = [tags EXCEPT ![SelectedObject] = set]
    BY <2>3
  <2>5. \E l \in DOMAIN requests' : Unsaved(requests'[l])
    <3>1. \E l \in DOMAIN requests' : requests'[l] \in new
      BY <1>5, <1>6 DEF Added
    <3> QED BY <1>6, <3>1 DEF Unsaved
  <2>6. (tags = [o \in Objects |-> tags[o]] /\ wished = [o \in Objects |-> wished[o]])'
    BY DEF ObjectInv, TagsInv
  <2>7. ~restless => Lone("tags")'
    BY <1>6, <2>1
  <2> QED BY <1>6, <1>7, <2>2, <2>4, <2>5, <2>6, <2>7, <2>8 DEF TagsInv, Unsaved
<1> QED BY <1>9, <1>10, <1>11 DEF ObjectInv

\* OnVersionStep: a version of the object selected, as the view offers it, is chosen.
LEMMA OnVersionStep ==
  ASSUME RequestsInv, SelectionInv, ObjectInv, NEW row \in Rows, NEW op \in {"delete", "restore"},
         OnVersion(row, op),
         UNCHANGED <<selection, selected_bucket, follow, restless, unsure>>
  PROVE  ObjectInv'
<1>1. PICK new : new = {Request("versions", op, SelectedObject, row.id)}
  OBVIOUS
<1>2. /\ selection.kind = "Object" /\ pane.object_versions # Empty
      /\ pane.object_versions.is = "Ok"
      /\ row \in pane.object_versions.value /\ row.of[2] = selection.key
  BY DEF Rows, Shown, Empty
<1>3. pane' = [pane EXCEPT !.loading_versions = TRUE]
  BY DEF OnVersion
<1>4. Start(new)
  BY <1>1 DEF OnVersion
<1>5. "versions" \in follow /\ SelectedObject \in Objects /\ "versions" \in ObjectParts
  BY <1>2, SelectedSuits DEF ObjectInv, ObjectFollowed, ObjectParts
<1>6. /\ \A r \in new : r.part = "versions" /\ r.op = op /\ r.of = SelectedObject /\ r.at = "sent"
      /\ Added(new)
      /\ UnderWay("versions", op)'
      /\ SameOf({"tags"})
  <2>1. \A r \in new : /\ r.part = "versions" /\ r.op = op /\ r.of = SelectedObject
                       /\ r.at = "sent"
    BY <1>1 DEF Request
  <2>2. /\ Added(new)
        /\ "versions" \in follow => UnderWay("versions", op)'
        /\ \A parts : "versions" \notin parts => SameOf(parts)
    BY <1>1, <1>4, <1>5, NewObjectRequest
  <2>3. SameOf({"tags"})
    BY <2>2, "versions" \notin {"tags"}
  <2> QED BY <1>5, <2>1, <2>2, <2>3
<1>7. /\ DOMAIN pane' = DOMAIN pane /\ pane'.loading_versions = TRUE
      /\ \A f \in DOMAIN pane : f \notin {"loading_versions"} => pane'[f] = pane[f]
      /\ DOMAIN pane = DOMAIN NoPane
  <2>1. DOMAIN pane = DOMAIN NoPane /\ "loading_versions" \in DOMAIN NoPane
    BY DEF ObjectInv, PaneShape, NoPane
  <2> QED BY <1>3, <2>1
<1>8. PaneEdited(new)
  BY <1>5, <1>6, <1>7, PaneKept DEF PaneEdited
<1>9. PaneShape' /\ ObjectFollowed' /\ ObjectWaits' /\ ObjectShown'
  BY <1>8, ObjectEdited
<1>10. VersionsInv'
  <2>1. ~restless => row.of = SelectedObject
    BY <1>2 DEF ObjectInv, VersionsInv, RowsOf, SelectedObject, Of
  <2>2. ASSUME NEW l \in DOMAIN requests', requests'[l].at = "done"
        PROVE  \E j \in DOMAIN requests : requests'[l] = requests[j]
    BY <1>6, <2>2 DEF Added
  <2>3. pane'.object_versions = pane.object_versions
    BY <1>7, PaneKept
  <2>4. ~restless => ~misdirected'
    BY <2>1 DEF ObjectInv, VersionsInv, OnVersion
  <2> QED BY <2>2, <2>3, <2>4 DEF ObjectInv, VersionsInv, RowsOf
<1>11. TagsInv'
  <2>1. pane'.object_tags = pane.object_tags /\ pane'.loading_tags = pane.loading_tags
    BY <1>7, PaneKept
  <2> QED BY <1>6, <2>1, TagsFrame DEF ObjectInv, OnVersion
<1> QED BY <1>9, <1>10, <1>11 DEF ObjectInv

\* OtherEdit: an edit that leaves the tags and the versions alone.
LEMMA OtherEdit ==
  ASSUME RequestsInv, SelectionInv, ObjectInv, NEW new, PaneEdited(new),
         UNCHANGED <<selection, selected_bucket, follow, restless, unsure, objectTruth>>,
         SameOf({"tags"}), SameOf({"versions"}),
         UNCHANGED <<pane.object_versions, pane.object_tags, pane.loading_tags>>
  PROVE  ObjectInv'
<1>1. PaneShape' /\ ObjectFollowed' /\ ObjectWaits' /\ ObjectShown'
  BY ObjectEdited
<1>2. VersionsInv' /\ TagsInv'
  BY VersionsFrame, TagsFrame DEF ObjectInv, objectTruth
<1> QED BY <1>1, <1>2 DEF ObjectInv

\* ObjectEditStep: an edit of an object's panel.
LEMMA ObjectEditStep ==
  ASSUME RequestsInv, SelectionInv, ObjectInv, ObjectEdit,
         UNCHANGED <<selection, selected_bucket, follow, restless, unsure>>
  PROVE  ObjectInv'
<1>1. /\ DOMAIN pane = DOMAIN NoPane
      /\ {"loading_object_inspect", "share_modal_open", "share_url", "heal_confirm_target",
          "healing", "heal_result"} \subseteq DOMAIN NoPane
  BY DEF ObjectInv, PaneShape, NoPane
<1>2. ASSUME UNCHANGED requests
      PROVE  Added({}) /\ SameOf({"tags"}) /\ SameOf({"versions"})
  BY <1>2, UnchangedKeeps DEF Added
<1>3. ASSUME NEW t \in Tags, AddTag(t)
      PROVE  ObjectInv'
  <2>1. /\ TagsShown /\ SaveTags(pane.object_tags.value \union {t})
        /\ UNCHANGED <<tags, misdirected>>
    BY <1>3 DEF AddTag
  <2>2. SelectedObject \in DOMAIN wished
    BY <2>1, SelectedSuits DEF TagsShown, Shown, ObjectInv, TagsInv
  <2>3. wished' = [wished EXCEPT ![SelectedObject] = wished[SelectedObject] \union {t}]
    BY <1>3 DEF AddTag
  <2>4. wished'[SelectedObject] = wished[SelectedObject] \union {t}
    BY <2>2, <2>3
  <2>5. wished' = [wished EXCEPT ![SelectedObject] = wished'[SelectedObject]]
    BY <2>3, <2>4
  <2>6. pane.object_tags.value = wished[SelectedObject] =>
          wished'[SelectedObject] = pane.object_tags.value \union {t}
    BY <2>4
  <2> QED BY <2>1, <2>5, <2>6, SaveTagsStep
<1>4. ASSUME NEW t \in Tags, RemoveTag(t)
      PROVE  ObjectInv'
  <2>1. /\ TagsShown /\ SaveTags(pane.object_tags.value \ {t})
        /\ UNCHANGED <<tags, misdirected>>
    BY <1>4 DEF RemoveTag
  <2>2. SelectedObject \in DOMAIN wished
    BY <2>1, SelectedSuits DEF TagsShown, Shown, ObjectInv, TagsInv
  <2>3. wished' = [wished EXCEPT ![SelectedObject] = wished[SelectedObject] \ {t}]
    BY <1>4 DEF RemoveTag
  <2>4. wished'[SelectedObject] = wished[SelectedObject] \ {t}
    BY <2>2, <2>3
  <2>5. wished' = [wished EXCEPT ![SelectedObject] = wished'[SelectedObject]]
    BY <2>3, <2>4
  <2>6. pane.object_tags.value = wished[SelectedObject] =>
          wished'[SelectedObject] = pane.object_tags.value \ {t}
    BY <2>4
  <2> QED BY <2>1, <2>5, <2>6, SaveTagsStep
<1>5. ASSUME NEW row \in Rows, DeleteVersion(row) \/ RestoreVersion(row)
      PROVE  ObjectInv'
  <2>1. OnVersion(row, "delete") \/ OnVersion(row, "restore")
    BY <1>5 DEF DeleteVersion, RestoreVersion
  <2> QED BY <2>1, OnVersionStep
<1>6. CASE OpenShareModal \/ CloseShareModal
  <2>1. /\ DOMAIN pane' = DOMAIN pane /\ pane'.share_url = Empty
        /\ \A f \in DOMAIN pane : f \notin {"share_modal_open", "share_url"} => pane'[f] = pane[f]
    BY <1>1, <1>6 DEF OpenShareModal, CloseShareModal
  <2>2. Added({}) /\ SameOf({"tags"}) /\ SameOf({"versions"}) /\ UNCHANGED objectTruth
    BY <1>2, <1>6 DEF OpenShareModal, CloseShareModal
  <2>3. PaneEdited({})
    BY <1>1, <2>1, <2>2, PaneKept DEF PaneEdited
  <2> QED BY <1>1, <2>1, <2>2, <2>3, PaneKept, OtherEdit
<1>7. CASE GenerateShareUrl
  <2>1. PICK new : new = {Load("share", SelectedObject)}
    OBVIOUS
  <2>2. Start(new) /\ UNCHANGED <<pane, objectTruth>> /\ selection.kind = "Object"
    BY <1>7, <2>1 DEF GenerateShareUrl
  <2>3. SelectedObject \in Objects /\ "share" \in ObjectParts
    BY <2>2, SelectedSuits DEF ObjectParts
  <2>4. /\ \A r \in new : r.part = "share" /\ r.of = SelectedObject /\ r.at = "sent"
        /\ Added(new) /\ SameOf({"tags"}) /\ SameOf({"versions"})
    <3>1. \A r \in new : r.part = "share" /\ r.of = SelectedObject /\ r.at = "sent"
      BY <2>1 DEF Load, Request
    <3>2. Added(new) /\ \A parts : "share" \notin parts => SameOf(parts)
      BY <2>1, <2>2, <2>3, NewObjectRequest DEF Load
    <3> QED BY <3>1, <3>2
  <2>5. PaneEdited(new)
    BY <2>2, <2>3, <2>4 DEF PaneEdited
  <2> QED BY <2>2, <2>4, <2>5, OtherEdit
<1>8. CASE "inspect" \in follow /\ RefreshObjectInspect
  <2>1. PICK new : new = {Load("inspect", SelectedObject)}
    OBVIOUS
  <2>2. Start(new) /\ UNCHANGED objectTruth /\ selection.kind = "Object"
    BY <1>8, <2>1 DEF RefreshObjectInspect, Shown
  <2>3. SelectedObject \in Objects /\ "inspect" \in ObjectParts
    BY <2>2, SelectedSuits DEF ObjectParts
  <2>4. /\ \A r \in new : r.part = "inspect" /\ r.of = SelectedObject /\ r.at = "sent"
        /\ new # {}
        /\ Added(new) /\ SameOf({"tags"}) /\ SameOf({"versions"})
    <3>1. /\ \A r \in new : r.part = "inspect" /\ r.of = SelectedObject /\ r.at = "sent"
          /\ new # {}
      BY <2>1 DEF Load, Request
    <3>2. \A r \in new : Formed(r)
      BY <2>1, <2>3, LoadObjectPart
    <3>3. IsFiniteSet(new)
      BY <2>1, FS_Singleton
    <3>4. \A parts : "inspect" \notin parts => Added(new) /\ SameOf(parts)
      BY <2>2, <3>1, <3>2, <3>3, StartKeeps
    <3> QED BY <3>1, <3>4
  <2>5. /\ DOMAIN pane' = DOMAIN pane /\ pane'.loading_object_inspect = TRUE
        /\ \A f \in DOMAIN pane : f \notin {"loading_object_inspect"} => pane'[f] = pane[f]
    BY <1>1, <1>8 DEF RefreshObjectInspect
  <2>6. PaneEdited(new)
    BY <1>1, <1>8, <2>3, <2>4, <2>5, PaneKept DEF PaneEdited, Unnamed
  <2> QED BY <1>1, <2>2, <2>4, <2>5, <2>6, PaneKept, OtherEdit
<1>9. CASE OpenHealConfirm \/ CancelHealConfirm
  <2>1. /\ DOMAIN pane' = DOMAIN pane
        /\ \/ pane'.heal_confirm_target = NoObject
           \/ pane'.heal_confirm_target = SelectedObject /\ selection.kind = "Object"
        /\ \A f \in DOMAIN pane : f \notin {"heal_confirm_target"} => pane'[f] = pane[f]
    BY <1>1, <1>9 DEF OpenHealConfirm, CancelHealConfirm, Shown
  <2>2. Added({}) /\ SameOf({"tags"}) /\ SameOf({"versions"}) /\ UNCHANGED objectTruth
    BY <1>2, <1>9 DEF OpenHealConfirm, CancelHealConfirm
  <2>3. PaneEdited({})
    BY <1>1, <2>1, <2>2, PaneKept DEF PaneEdited
  <2> QED BY <1>1, <2>1, <2>2, <2>3, PaneKept, OtherEdit
<1>10. CASE "heal" \in follow /\ ConfirmHealObject
  <2>1. PICK target, new : /\ target = pane.heal_confirm_target
                           /\ new = {Request("heal", "heal", target, {})}
    OBVIOUS
  <2>2. /\ Start(new) /\ UNCHANGED objectTruth
        /\ target \in Objects /\ "heal" \in ObjectParts
    BY <1>10, <2>1 DEF ConfirmHealObject, ObjectInv, PaneShape, ObjectParts
  <2>3. /\ \A r \in new : r.part = "heal" /\ r.of = target /\ r.at = "sent"
        /\ new # {}
        /\ Added(new) /\ SameOf({"tags"}) /\ SameOf({"versions"})
    <3>1. /\ \A r \in new : r.part = "heal" /\ r.of = target /\ r.at = "sent"
          /\ new # {}
      BY <2>1 DEF Request
    <3>2. \A r \in new : Formed(r)
      <4>1. Formed(Request("heal", "heal", target, {}))
        BY <2>2, NewRequest DEF BucketParts, Kinds
      <4> QED BY <2>1, <4>1
    <3>3. IsFiniteSet(new)
      BY <2>1, FS_Singleton
    <3>4. \A parts : "heal" \notin parts => Added(new) /\ SameOf(parts)
      BY <2>2, <3>1, <3>2, <3>3, StartKeeps
    <3> QED BY <3>1, <3>4
  <2>4. /\ DOMAIN pane' = DOMAIN pane
        /\ pane'.heal_confirm_target = NoObject /\ pane'.healing = target
        /\ pane'.heal_result = target
        /\ \A f \in DOMAIN pane : f \notin {"heal_confirm_target", "healing", "heal_result"} =>
             pane'[f] = pane[f]
    BY <1>1, <1>10, <2>1 DEF ConfirmHealObject
  <2>5. PaneEdited(new)
    BY <1>1, <1>10, <2>1, <2>2, <2>3, <2>4, PaneKept DEF PaneEdited, Unnamed
  <2> QED BY <1>1, <2>2, <2>3, <2>4, <2>5, PaneKept, OtherEdit
<1> QED BY <1>3, <1>4, <1>5, <1>6, <1>7, <1>8, <1>9, <1>10 DEF ObjectEdit

-----------------------------------------------------------------------------
(* The panel of an object: answers *)

\* StillAwaited: another answer is still under way.
LEMMA StillAwaited ==
  ASSUME NEW i \in DOMAIN requests, NEW new, Replaced(i, new), NEW part, NEW op,
         UnderWay(part, op), requests[i].part # part \/ requests[i].op # op
  PROVE  UnderWay(part, op)'
  BY DEF Replaced, UnderWay

\* PaneAnswered: what an answer may do to the panel and the requests.
PaneAnswered(i, new) ==
  /\ Replaced(i, new)
  /\ \A r \in new : /\ r.part \in ObjectParts /\ r.at = "sent"
                    /\ r.part \in Unnamed => r.of = SelectedObject
  /\ DOMAIN pane' = DOMAIN pane
  /\ pane'.heal_confirm_target = pane.heal_confirm_target
  /\ pane'.heal_result \in {pane.heal_result, SelectedObject}
  /\ \/ pane'.detail = pane.detail /\ pane'.loading_detail = pane.loading_detail
          /\ requests[i].part # "detail"
     \/ pane'.detail.of = requests[i].of /\ ~pane'.loading_detail /\ requests[i].part = "detail"
  /\ \/ pane'.object_tags = pane.object_tags
     \/ pane'.object_tags.of = requests[i].of /\ requests[i].part = "tags"
  /\ \/ pane'.object_versions = pane.object_versions
     \/ pane'.object_versions.of = requests[i].of /\ requests[i].part = "versions"
  /\ \/ pane'.object_preview = pane.object_preview
     \/ pane'.object_preview.of = requests[i].of /\ requests[i].part = "preview"
  /\ \/ pane'.share_url = pane.share_url
     \/ pane'.share_url.of = requests[i].of /\ requests[i].part = "share"
  /\ \/ pane'.object_inspect = pane.object_inspect
     \/ pane'.object_inspect.of = SelectedObject
  /\ pane'.loading_tags =>
       (pane.loading_tags /\ requests[i].part # "tags") \/ UnderWay("tags", "load")'
  /\ pane'.loading_versions =>
       (pane.loading_versions /\ requests[i].part # "versions") \/ UnderWay("versions", "load")'
  /\ pane'.loading_object_inspect =>
       \/ /\ pane.loading_object_inspect
          /\ requests[i].part # "inspect" \/ requests[i].of # SelectedObject
       \/ \E r \in new : r.part = "inspect" /\ r.of = SelectedObject /\ r.part \in follow
  /\ \/ pane'.healing = NoObject
     \/ /\ pane'.healing = pane.healing
        /\ requests[i].part # "heal" \/ requests[i].of # pane.healing

\* ObjectAnswered: such an answer keeps the panel right, but for its versions and tags.
LEMMA ObjectAnswered ==
  ASSUME RequestsInv, SelectionInv, ObjectInv, NEW i \in DOMAIN requests, NEW new,
         PaneAnswered(i, new),
         UNCHANGED <<selection, selected_bucket, follow, restless>>
  PROVE  PaneShape' /\ ObjectFollowed' /\ ObjectWaits' /\ ObjectShown'
<1> USE DEF ObjectInv
<1>1. SelectedObject' = SelectedObject
  BY DEF SelectedObject
<1>2. /\ \A j \in DOMAIN requests : j # i => \E l \in DOMAIN requests' : requests'[l] = requests[j]
      /\ \A r \in new : r.part \in follow => \E l \in DOMAIN requests' : requests'[l] = r
      /\ \A l \in DOMAIN requests' :
           (\E j \in DOMAIN requests : requests'[l] = requests[j]) \/ requests'[l] \in new
  BY DEF PaneAnswered, Replaced
<1>3. requests[i].part \in follow
  BY DEF RequestsInv
<1>4. PaneShape'
  <2>1. DOMAIN pane' = DOMAIN NoPane
    BY DEF PaneShape, PaneAnswered
  <2> QED BY <2>1 DEF PaneShape, PaneAnswered, NoPane
<1>5. ObjectFollowed'
  BY <1>3 DEF ObjectFollowed, PaneAnswered
<1>6. \A part, op : UnderWay(part, op) /\ requests[i].part # part => UnderWay(part, op)'
  BY StillAwaited DEF PaneAnswered
<1>7. ObjectWaits'
  <2>1. (pane.loading_detail => UnderWay("detail", "load"))'
    BY <1>6 DEF ObjectWaits, PaneAnswered
  <2>2. (pane.loading_tags => UnderWay("tags", "load") \/ UnderWay("tags", "save"))'
    BY <1>6 DEF ObjectWaits, PaneAnswered
  <2>3. (pane.loading_versions =>
           \E op \in {"load", "delete", "restore"} : UnderWay("versions", op))'
    BY <1>6 DEF ObjectWaits, PaneAnswered
  <2>4. ((pane.loading_object_inspect /\ selection.kind = "Object") =>
           \E l \in DOMAIN requests :
             requests[l].part = "inspect" /\ requests[l].of = SelectedObject)'
    BY <1>1, <1>2 DEF ObjectWaits, PaneAnswered
  <2>5. (pane.healing # Nothing =>
           \E l \in DOMAIN requests :
             requests[l].part = "heal" /\ requests[l].of = pane.healing)'
    BY <1>2 DEF ObjectWaits, PaneAnswered, Nothing
  <2> QED BY <2>1, <2>2, <2>3, <2>4, <2>5 DEF ObjectWaits
<1>8. ObjectShown'
  <2>1. ~restless => \A l \in DOMAIN requests' :
          requests'[l].part \in Unnamed => requests'[l].of = SelectedObject
    BY <1>2 DEF ObjectShown, PaneAnswered
  <2>2. ~restless /\ requests[i].part \in Unnamed => requests[i].of = SelectedObject
    BY DEF ObjectShown
  <2>3. selection.kind = "Object" =>
          /\ OfSelected(pane'.object_inspect)
          /\ {pane'.heal_result, pane'.heal_confirm_target} \subseteq {SelectedObject, Nothing}
    BY DEF ObjectShown, PaneAnswered, OfSelected
  <2>4. ~restless /\ selection.kind = "Object" =>
          /\ pane'.loading_detail \/ OfSelected(pane'.detail)
          /\ OfSelected(pane'.object_tags) /\ OfSelected(pane'.object_versions)
          /\ OfSelected(pane'.object_preview) /\ OfSelected(pane'.share_url)
    BY <2>2 DEF ObjectShown, PaneAnswered, OfSelected, Unnamed
  <2> QED BY <1>1, <2>1, <2>3, <2>4 DEF ObjectShown, OfSelected
<1> QED BY <1>4, <1>5, <1>7, <1>8

\* OtherAnswer: an answer that leaves the tags and the versions alone.
LEMMA OtherAnswer ==
  ASSUME RequestsInv, SelectionInv, ObjectInv, NEW i \in DOMAIN requests, NEW new,
         PaneAnswered(i, new),
         UNCHANGED <<selection, selected_bucket, follow, restless, unsure, objectTruth>>,
         SameOf({"tags"}), SameOf({"versions"}),
         UNCHANGED <<pane.object_versions, pane.object_tags, pane.loading_tags>>
  PROVE  ObjectInv'
<1>1. PaneShape' /\ ObjectFollowed' /\ ObjectWaits' /\ ObjectShown'
  BY ObjectAnswered
<1>2. VersionsInv' /\ TagsInv'
  BY VersionsFrame, TagsFrame DEF ObjectInv, objectTruth
<1> QED BY <1>1, <1>2 DEF ObjectInv

\* LoneAfter: a request started in the place of the only one of its part is the only one.
LEMMA LoneAfter ==
  ASSUME RequestsInv, NEW i \in DOMAIN requests, NEW new, IsFiniteSet(new), Handled(i, new),
         NEW part, \A j \in DOMAIN requests : j # i => requests[j].part # part,
         \A r, s \in new : r.part = part /\ s.part = part => r = s
  PROVE  Lone(part)'
<1> DEFINE n == Len(requests) - 1
           from(j) == IF j < i THEN j ELSE j + 1
<1>1. /\ Len(requests) \in Nat /\ DOMAIN requests = 1..Len(requests)
      /\ \A j \in 1..n : j \in DOMAIN requests' /\ requests'[j] = requests[from(j)]
      /\ \A j \in DOMAIN requests' \ 1..n : requests'[j] \in new /\ requests'[j].part \in follow
      /\ \A a, b \in DOMAIN requests' \ 1..n : requests'[a] = requests'[b] => a = b
  BY HandledReplaces DEF RequestsInv
<1>2. \A j \in 1..n : from(j) \in DOMAIN requests /\ from(j) # i
  BY <1>1
<1> HIDE DEF n, from
<1>3. \A l \in DOMAIN requests' : requests'[l].part = part => l \notin 1..n
  BY <1>1, <1>2
<1> QED BY <1>1, <1>3 DEF Lone

\* TagsSavedStep: the tags of an object have been put, or not.
LEMMA TagsSavedStep ==
  ASSUME RequestsInv, SelectionInv, ObjectInv, NEW i \in DOMAIN requests, TagsSaved(i),
         UNCHANGED <<selection, selected_bucket, follow, restless, unsure>>
  PROVE  ObjectInv'
<1>1. /\ requests[i].part = "tags" /\ requests[i].op = "save" /\ requests[i].at = "done"
      /\ "tags" \in follow
      /\ UNCHANGED objectTruth
  BY DEF TagsSaved, Delivered, RequestsInv
<1>2. /\ DOMAIN pane = DOMAIN NoPane
      /\ "loading_tags" \in DOMAIN NoPane
  BY DEF ObjectInv, PaneShape, NoPane
<1>3. ~restless => /\ pane.loading_tags
                   /\ \A j \in DOMAIN requests : j # i => requests[j].part # "tags"
  BY <1>1 DEF ObjectInv, TagsInv, Lone
<1>4. ~restless /\ ~unsure => wished = tags
  BY <1>1, <1>3 DEF ObjectInv, TagsInv, Unsaved
<1>5. (tags = [o \in Objects |-> tags[o]] /\ wished = [o \in Objects |-> wished[o]])'
  BY <1>1 DEF ObjectInv, TagsInv, objectTruth
<1>6. CASE requests[i].ok /\ selection.kind = "Object"
  <2>1. PICK new : new = {Load("tags", SelectedObject)}
    OBVIOUS
  <2>2. Handled(i, new) /\ UNCHANGED pane
    BY <1>6, <2>1 DEF TagsSaved
  <2>3. SelectedObject \in Objects
    BY <1>6, SelectedSuits
  <2>4. /\ \A r \in new : /\ r.part = "tags" /\ r.op = "load" /\ r.at = "sent"
                          /\ r.of = SelectedObject
        /\ new # {}
        /\ \A r, s \in new : r = s
    BY <2>1 DEF Load, Request
  <2>5. IsFiniteSet(new) /\ \A r \in new : Formed(r)
    BY <2>1, <2>3, FS_Singleton, LoadObjectPart DEF ObjectParts
  <2>6. Replaced(i, new) /\ SameOf({"versions"})
    BY <1>1, <2>2, <2>4, <2>5, HandledKeeps
  <2>7. UnderWay("tags", "load")'
    BY <1>1, <2>4, <2>6 DEF Replaced, UnderWay
  <2>8. PaneAnswered(i, new)
    BY <1>1, <2>2, <2>4, <2>6, <2>7 DEF PaneAnswered, ObjectParts
  <2>9. PaneShape' /\ ObjectFollowed' /\ ObjectWaits' /\ ObjectShown'
    BY <2>8, ObjectAnswered
  <2>10. VersionsInv'
    BY <1>1, <2>2, <2>6, VersionsFrame DEF ObjectInv, objectTruth
  <2>11. TagsInv'
    <3>1. ~restless => Lone("tags")'
      BY <1>3, <2>2, <2>4, <2>5, LoneAfter
    <3>2. ~restless => \A l \in DOMAIN requests' : requests'[l].part = "tags" =>
                         requests'[l].op = "load" /\ requests'[l].at = "sent"
      BY <1>3, <2>4, <2>6 DEF Replaced
    <3> QED BY <1>1, <1>3, <1>4, <1>5, <2>2, <3>1, <3>2
            DEF TagsInv, Unsaved, Unapplied, objectTruth
  <2> QED BY <2>9, <2>10, <2>11 DEF ObjectInv
<1>7. CASE ~(requests[i].ok /\ selection.kind = "Object")
  <2>1. Handled(i, {}) /\ pane' = [pane EXCEPT !.loading_tags = FALSE]
    BY <1>7 DEF TagsSaved
  <2>2. /\ DOMAIN pane' = DOMAIN pane /\ pane'.loading_tags = FALSE
        /\ \A f \in DOMAIN pane : f \notin {"loading_tags"} => pane'[f] = pane[f]
    BY <1>2, <2>1
  <2>3. Replaced(i, {}) /\ SameOf({"versions"})
    BY <1>1, <2>1, HandledNone
  <2>4. PaneAnswered(i, {})
    BY <1>1, <1>2, <2>2, <2>3, PaneKept DEF PaneAnswered
  <2>5. PaneShape' /\ ObjectFollowed' /\ ObjectWaits' /\ ObjectShown'
    BY <2>4, ObjectAnswered
  <2>6. VersionsInv'
    BY <1>1, <1>2, <2>2, <2>3, PaneKept, VersionsFrame DEF ObjectInv, objectTruth
  <2>7. TagsInv'
    <3>1. ~restless => \A l \in DOMAIN requests' : requests'[l].part # "tags"
      BY <1>3, <2>3 DEF Replaced
    <3>2. (~restless /\ ~unsure /\ selection.kind = "Object" /\ pane.object_tags.is = "Ok") =>
            pane.object_tags.value = tags[SelectedObject]
      BY <1>1, <1>7 DEF ObjectInv, TagsInv, Unapplied
    <3>3. pane'.object_tags = pane.object_tags /\ SelectedObject' = SelectedObject
      BY <1>2, <2>2, PaneKept DEF SelectedObject
    <3> QED BY <1>1, <1>4, <1>5, <3>1, <3>2, <3>3
            DEF TagsInv, Lone, Unsaved, Unapplied, objectTruth
  <2> QED BY <2>5, <2>6, <2>7 DEF ObjectInv
<1> QED BY <1>6, <1>7

\* VersionDoneStep: a version of an object has been deleted or restored, or not.
LEMMA VersionDoneStep ==
  ASSUME RequestsInv, SelectionInv, ObjectInv, NEW i \in DOMAIN requests,
         NEW op, NEW loads, VersionDone(i, op, loads),
         IsFiniteSet(loads),
         selection.kind = "Object" =>
           /\ \A r \in loads : /\ Formed(r) /\ r.part \in {"versions", "detail"}
                               /\ r.op = "load" /\ r.of = SelectedObject /\ r.at = "sent"
           /\ \E r \in loads : r.part = "versions",
         UNCHANGED <<selection, selected_bucket, follow, restless, unsure>>
  PROVE  ObjectInv'
<1>1. /\ requests[i].part = "versions" /\ requests[i].at = "done" /\ "versions" \in follow
      /\ UNCHANGED objectTruth
  BY DEF VersionDone, Delivered, RequestsInv
<1>2. /\ DOMAIN pane = DOMAIN NoPane
      /\ "loading_versions" \in DOMAIN NoPane
  BY DEF ObjectInv, PaneShape, NoPane
<1>3. PICK new : /\ Handled(i, new) /\ IsFiniteSet(new)
                 /\ \A r \in new : /\ Formed(r) /\ r.part \in {"versions", "detail"}
                                   /\ r.op = "load" /\ r.of = SelectedObject /\ r.at = "sent"
                 /\ \/ UNCHANGED pane /\ \E r \in new : r.part = "versions"
                    \/ pane' = [pane EXCEPT !.loading_versions = FALSE]
  <2>1. CASE requests[i].ok /\ selection.kind = "Object"
    BY <2>1 DEF VersionDone
  <2>2. CASE ~(requests[i].ok /\ selection.kind = "Object")
    BY <2>2, FS_EmptySet DEF VersionDone
  <2> QED BY <2>1, <2>2
<1>4. Replaced(i, new) /\ SameOf({"tags"})
  BY <1>1, <1>3, HandledKeeps
<1>5. /\ DOMAIN pane' = DOMAIN pane
      /\ \A f \in DOMAIN pane : f \notin {"loading_versions"} => pane'[f] = pane[f]
      /\ pane'.loading_versions => \E r \in new : r.part = "versions"
  BY <1>2, <1>3
<1>6. pane'.loading_versions => UnderWay("versions", "load")'
  BY <1>1, <1>3, <1>4, <1>5 DEF Replaced, UnderWay
<1>7. PaneAnswered(i, new)
  BY <1>1, <1>2, <1>3, <1>4, <1>5, <1>6, PaneKept DEF PaneAnswered, ObjectParts
<1>8. PaneShape' /\ ObjectFollowed' /\ ObjectWaits' /\ ObjectShown'
  BY <1>7, ObjectAnswered
<1>9. VersionsInv'
  <2>1. ASSUME NEW l \in DOMAIN requests', requests'[l].at = "done"
        PROVE  \E j \in DOMAIN requests : requests'[l] = requests[j]
    BY <1>3, <1>4, <2>1 DEF Replaced
  <2>2. pane'.object_versions = pane.object_versions
    BY <1>2, <1>5, PaneKept
  <2> QED BY <1>1, <2>1, <2>2 DEF ObjectInv, VersionsInv, RowsOf, objectTruth
<1>10. TagsInv'
  BY <1>1, <1>2, <1>4, <1>5, PaneKept, TagsFrame DEF ObjectInv, objectTruth
<1> QED BY <1>8, <1>9, <1>10 DEF ObjectInv

\* HealStep: the healing of an object has finished.
LEMMA HealStep ==
  ASSUME RequestsInv, SelectionInv, ObjectInv, NEW i \in DOMAIN requests, HealObjectFinished(i),
         UNCHANGED <<selection, selected_bucket, follow, restless, unsure>>
  PROVE  ObjectInv'
<1> DEFINE o == requests[i].of
           healed == requests[i].ok /\ o = SelectedObject
<1>1. o = requests[i].of /\ (healed <=> requests[i].ok /\ o = SelectedObject)
  OBVIOUS
<1>2. PICK new : new = IF healed THEN {Load("inspect", o)} ELSE {}
  OBVIOUS
<1>10. pane' = [pane EXCEPT !.healing = IF pane.healing = o THEN NoObject ELSE pane.healing,
                 !.heal_result = IF o = SelectedObject THEN o ELSE pane.heal_result,
                 !.loading_object_inspect =
                   (healed /\ "inspect" \in follow) \/ pane.loading_object_inspect]
  BY DEF HealObjectFinished
<1>11. Handled(i, new) /\ UNCHANGED objectTruth
  BY <1>2 DEF HealObjectFinished
<1> HIDE DEF o, healed
<1>3. /\ requests[i].part = "heal" /\ "heal" \in ObjectParts /\ o \in Objects
      /\ Handled(i, new) /\ UNCHANGED objectTruth
  <2>1. requests[i].part = "heal" /\ "heal" \in ObjectParts
    BY DEF HealObjectFinished, Delivered, ObjectParts
  <2> QED BY <1>1, <1>11, <2>1 DEF RequestsInv, Formed, RightSubject
<1>4. /\ \A r \in new : /\ healed /\ Formed(r) /\ r.part = "inspect" /\ r.at = "sent"
                        /\ r.of = SelectedObject
      /\ healed => new # {}
      /\ IsFiniteSet(new)
  <2>1. CASE healed
    <3>1. new = {Load("inspect", o)} /\ "inspect" \in ObjectParts
      BY <1>2, <2>1 DEF ObjectParts
    <3>2. Formed(Load("inspect", o))
      BY <1>3, <3>1, LoadObjectPart
    <3>3. IsFiniteSet(new)
      BY <3>1, FS_Singleton
    <3> QED BY <1>1, <2>1, <3>1, <3>2, <3>3 DEF Load, Request
  <2>2. CASE ~healed
    BY <1>2, <2>2, FS_EmptySet
  <2> QED BY <2>1, <2>2
<1>5. Replaced(i, new) /\ SameOf({"tags"}) /\ SameOf({"versions"})
  BY <1>3, <1>4, HandledKeeps
<1>6. /\ DOMAIN pane = DOMAIN NoPane
      /\ {"healing", "heal_result", "loading_object_inspect"} \subseteq DOMAIN NoPane
  BY DEF ObjectInv, PaneShape, NoPane
<1>7. /\ DOMAIN pane' = DOMAIN pane
      /\ \A f \in DOMAIN pane : f \notin {"healing", "heal_result", "loading_object_inspect"} =>
           pane'[f] = pane[f]
      /\ pane'.healing = NoObject \/ (pane'.healing = pane.healing /\ o # pane.healing)
      /\ pane'.heal_result \in {pane.heal_result, SelectedObject}
      /\ pane'.loading_object_inspect =>
           pane.loading_object_inspect \/ (healed /\ "inspect" \in follow)
  <2> DEFINE a == IF pane.healing = o THEN NoObject ELSE pane.healing
             b == IF o = SelectedObject THEN o ELSE pane.heal_result
             c == (healed /\ "inspect" \in follow) \/ pane.loading_object_inspect
  <2>1. pane' = [pane EXCEPT !.healing = a, !.heal_result = b, !.loading_object_inspect = c]
    BY <1>10
  <2>2. a = NoObject \/ (a = pane.healing /\ o # pane.healing)
    OBVIOUS
  <2>3. b \in {pane.heal_result, SelectedObject}
    OBVIOUS
  <2>4. c <=> pane.loading_object_inspect \/ (healed /\ "inspect" \in follow)
    OBVIOUS
  <2> HIDE DEF a, b, c
  <2>5. /\ DOMAIN pane' = DOMAIN pane
        /\ pane'.healing = a /\ pane'.heal_result = b /\ pane'.loading_object_inspect = c
        /\ \A f \in DOMAIN pane : f \notin {"healing", "heal_result", "loading_object_inspect"} =>
             pane'[f] = pane[f]
    BY <1>6, <2>1
  <2> QED BY <2>2, <2>3, <2>4, <2>5
<1>8. PaneAnswered(i, new)
  <2>1. \/ pane'.healing = NoObject
        \/ /\ pane'.healing = pane.healing
           /\ requests[i].part # "heal" \/ requests[i].of # pane.healing
    BY <1>1, <1>7
  <2>2. pane'.loading_object_inspect =>
          \/ /\ pane.loading_object_inspect
             /\ requests[i].part # "inspect" \/ requests[i].of # SelectedObject
          \/ \E r \in new : r.part = "inspect" /\ r.of = SelectedObject /\ r.part \in follow
    BY <1>3, <1>4, <1>7
  <2> QED BY <1>3, <1>4, <1>5, <1>6, <1>7, <2>1, <2>2, PaneKept
          DEF PaneAnswered, ObjectParts, Unnamed
<1> QED BY <1>3, <1>5, <1>6, <1>7, <1>8, PaneKept, OtherAnswer

\* AnswerFields: what an answer says.
LEMMA AnswerFields ==
  ASSUME NEW r
  PROVE  /\ Answer(r).of = r.of /\ Answer(r).value = r.value
         /\ r.ok => Answer(r).is = "Ok"
         /\ ~r.ok => Answer(r).is = "Err"
  BY DEF Answer

\* InspectStep: the inspection of an object is there.
LEMMA InspectStep ==
  ASSUME RequestsInv, SelectionInv, ObjectInv, NEW i \in DOMAIN requests, ObjectInspectLoaded(i),
         UNCHANGED <<selection, selected_bucket, follow, restless, unsure>>
  PROVE  ObjectInv'
<1>1. PICK answer : answer = Answer(requests[i])
  OBVIOUS
<1>2. /\ requests[i].part = "inspect" /\ answer.of = requests[i].of
      /\ Handled(i, {}) /\ UNCHANGED objectTruth
  BY <1>1, AnswerFields DEF ObjectInspectLoaded, Delivered
<1>3. Replaced(i, {}) /\ SameOf({"tags"}) /\ SameOf({"versions"})
  BY <1>2, HandledNone
<1>4. /\ DOMAIN pane = DOMAIN NoPane
      /\ {"object_inspect", "loading_object_inspect"} \subseteq DOMAIN NoPane
  BY DEF ObjectInv, PaneShape, NoPane
<1>5. /\ DOMAIN pane' = DOMAIN pane
      /\ \A f \in DOMAIN pane : f \notin {"object_inspect", "loading_object_inspect"} =>
           pane'[f] = pane[f]
      /\ \/ /\ requests[i].of # SelectedObject
            /\ pane'.object_inspect = pane.object_inspect
            /\ pane'.loading_object_inspect = pane.loading_object_inspect
         \/ /\ requests[i].of = SelectedObject
            /\ pane'.object_inspect = answer /\ pane'.loading_object_inspect = FALSE
  <2>1. CASE requests[i].of # SelectedObject
    BY <2>1 DEF ObjectInspectLoaded
  <2>2. CASE requests[i].of = SelectedObject
    <3>1. pane' = [pane EXCEPT !.loading_object_inspect = FALSE, !.object_inspect = answer]
      BY <1>1, <2>2 DEF ObjectInspectLoaded
    <3> QED BY <1>4, <2>2, <3>1
  <2> QED BY <2>1, <2>2
<1>6. PaneAnswered(i, {})
  BY <1>2, <1>3, <1>4, <1>5, PaneKept DEF PaneAnswered
<1> QED BY <1>2, <1>3, <1>4, <1>5, <1>6, PaneKept, OtherAnswer

\* PartLoadedStep: an answer that does not name its object.
LEMMA PartLoadedStep ==
  ASSUME RequestsInv, SelectionInv, ObjectInv, NEW i \in DOMAIN requests, ObjectPartLoaded(i),
         UNCHANGED <<selection, selected_bucket, follow, restless, unsure>>
  PROVE  ObjectInv'
<1>1. PICK answer : answer = Answer(requests[i])
  OBVIOUS
<1>2. PICK part \in {"detail", "tags", "versions", "preview", "share"} :
        /\ requests[i].part = part /\ requests[i].op = "load" /\ requests[i].at = "done"
        /\ pane' = LoadedInto(pane, part, answer)
        /\ Handled(i, {}) /\ UNCHANGED objectTruth
  BY <1>1 DEF ObjectPartLoaded, Delivered
<1>3. /\ answer.of = requests[i].of /\ answer.value = requests[i].value
      /\ answer.is = "Ok" => requests[i].ok
  BY <1>1, AnswerFields DEF RequestsInv, Formed
<1>4. /\ Replaced(i, {})
      /\ part # "tags" => SameOf({"tags"})
      /\ part # "versions" => SameOf({"versions"})
  BY <1>2, HandledNone
<1>5. /\ DOMAIN pane = DOMAIN NoPane
      /\ {"detail", "loading_detail", "object_tags", "loading_tags", "object_versions",
          "loading_versions", "object_preview", "share_url"} \subseteq DOMAIN NoPane
  BY DEF ObjectInv, PaneShape, NoPane
<1>6. CASE part = "detail"
  <2>1. pane' = [pane EXCEPT !.detail = answer, !.loading_detail = FALSE]
    BY <1>2, <1>6 DEF LoadedInto
  <2>2. /\ DOMAIN pane' = DOMAIN pane /\ pane'.detail = answer /\ pane'.loading_detail = FALSE
        /\ \A f \in DOMAIN pane : f \notin {"detail", "loading_detail"} => pane'[f] = pane[f]
    BY <1>5, <2>1
  <2>3. PaneAnswered(i, {})
    BY <1>2, <1>3, <1>4, <1>5, <1>6, <2>2, PaneKept DEF PaneAnswered
  <2> QED BY <1>2, <1>4, <1>5, <1>6, <2>2, <2>3, PaneKept, OtherAnswer
<1>7. CASE part = "preview"
  <2>1. pane' = [pane EXCEPT !.object_preview = answer]
    BY <1>2, <1>7 DEF LoadedInto
  <2>2. /\ DOMAIN pane' = DOMAIN pane /\ pane'.object_preview = answer
        /\ \A f \in DOMAIN pane : f \notin {"object_preview"} => pane'[f] = pane[f]
    BY <1>5, <2>1
  <2>3. PaneAnswered(i, {})
    BY <1>2, <1>3, <1>4, <1>5, <1>7, <2>2, PaneKept DEF PaneAnswered
  <2> QED BY <1>2, <1>4, <1>5, <1>7, <2>2, <2>3, PaneKept, OtherAnswer
<1>8. CASE part = "share"
  <2>1. pane' = IF answer.is = "Ok" THEN [pane EXCEPT !.share_url = answer] ELSE pane
    BY <1>2, <1>8 DEF LoadedInto
  <2>2. /\ DOMAIN pane' = DOMAIN pane /\ pane'.share_url \in {pane.share_url, answer}
        /\ \A f \in DOMAIN pane : f \notin {"share_url"} => pane'[f] = pane[f]
    BY <1>5, <2>1
  <2>3. PaneAnswered(i, {})
    BY <1>2, <1>3, <1>4, <1>5, <1>8, <2>2, PaneKept DEF PaneAnswered
  <2> QED BY <1>2, <1>4, <1>5, <1>8, <2>2, <2>3, PaneKept, OtherAnswer
<1>9. CASE part = "versions"
  <2>1. pane' = [pane EXCEPT !.object_versions = answer, !.loading_versions = FALSE]
    BY <1>2, <1>9 DEF LoadedInto
  <2>2. /\ DOMAIN pane' = DOMAIN pane
        /\ pane'.object_versions = answer /\ pane'.loading_versions = FALSE
        /\ \A f \in DOMAIN pane : f \notin {"object_versions", "loading_versions"} =>
             pane'[f] = pane[f]
    BY <1>5, <2>1
  <2>3. PaneAnswered(i, {})
    BY <1>2, <1>3, <1>4, <1>5, <1>9, <2>2, PaneKept DEF PaneAnswered
  <2>4. PaneShape' /\ ObjectFollowed' /\ ObjectWaits' /\ ObjectShown'
    BY <2>3, ObjectAnswered
  <2>5. TagsInv'
    BY <1>2, <1>4, <1>5, <1>9, <2>2, PaneKept, TagsFrame DEF ObjectInv, objectTruth
  <2>6. VersionsInv'
    <3>1. RowsOf(answer, requests[i].of[1])
      BY <1>2, <1>3, <1>9 DEF ObjectInv, VersionsInv, RowsOf
    <3>2. ~restless => requests[i].of = SelectedObject
      BY <1>2, <1>9 DEF ObjectInv, ObjectShown, Unnamed
    <3>3. ~restless => RowsOf(answer, selection.bucket)
      BY <3>1, <3>2 DEF SelectedObject, Of
    <3>4. \A l \in DOMAIN requests' : \E j \in DOMAIN requests : requests'[l] = requests[j]
      BY <1>4 DEF Replaced
    <3> QED BY <1>2, <2>2, <3>3, <3>4 DEF ObjectInv, VersionsInv, RowsOf, objectTruth
  <2> QED BY <2>4, <2>5, <2>6 DEF ObjectInv
<1>10. CASE part = "tags"
  <2>1. pane' = [pane EXCEPT !.object_tags = answer, !.loading_tags = FALSE]
    BY <1>2, <1>10 DEF LoadedInto
  <2>2. /\ DOMAIN pane' = DOMAIN pane
        /\ pane'.object_tags = answer /\ pane'.loading_tags = FALSE
        /\ \A f \in DOMAIN pane : f \notin {"object_tags", "loading_tags"} => pane'[f] = pane[f]
    BY <1>5, <2>1
  <2>3. PaneAnswered(i, {})
    BY <1>2, <1>3, <1>4, <1>5, <1>10, <2>2, PaneKept DEF PaneAnswered
  <2>4. PaneShape' /\ ObjectFollowed' /\ ObjectWaits' /\ ObjectShown'
    BY <2>3, ObjectAnswered
  <2>5. VersionsInv'
    BY <1>2, <1>4, <1>5, <1>10, <2>2, PaneKept, VersionsFrame DEF ObjectInv, objectTruth
  <2>6. TagsInv'
    <3>1. ~restless => \A j \in DOMAIN requests : j # i => requests[j].part # "tags"
      BY <1>2, <1>10 DEF ObjectInv, TagsInv, Lone
    <3>2. ~restless => \A l \in DOMAIN requests' : requests'[l].part # "tags"
      BY <1>4, <3>1 DEF Replaced
    <3>3. ~restless /\ ~unsure => wished = tags
      BY <1>2, <1>10, <3>1 DEF ObjectInv, TagsInv, Unsaved
    <3>4. ~restless /\ ~unsure /\ answer.is = "Ok" => answer.value = tags[SelectedObject]
      BY <1>2, <1>3, <1>10 DEF ObjectInv, TagsInv, ObjectShown, Unnamed
    <3>5. (tags = [o \in Objects |-> tags[o]] /\ wished = [o \in Objects |-> wished[o]])'
      BY <1>2 DEF ObjectInv, TagsInv, objectTruth
    <3>6. SelectedObject' = SelectedObject
      BY DEF SelectedObject
    <3> QED BY <1>2, <2>2, <3>2, <3>3, <3>4, <3>5, <3>6
            DEF TagsInv, Lone, Unsaved, Unapplied, objectTruth
  <2> QED BY <2>4, <2>5, <2>6 DEF ObjectInv
<1> QED BY <1>2, <1>6, <1>7, <1>8, <1>9, <1>10

\* ObjectMessageStep: an answer for an object's panel.
LEMMA ObjectMessageStep ==
  ASSUME RequestsInv, SelectionInv, ObjectInv, NEW i \in DOMAIN requests, ObjectMessage(i),
         UNCHANGED <<selection, selected_bucket, follow, restless, unsure>>
  PROVE  ObjectInv'
<1>1. CASE TagsSaved(i)
  BY <1>1, TagsSavedStep
<1>2. CASE VersionDeleted(i)
  <2>1. PICK loads : loads = {Load("versions", SelectedObject)}
    OBVIOUS
  <2>2. VersionDone(i, "delete", loads) /\ IsFiniteSet(loads)
    BY <1>2, <2>1, FS_Singleton DEF VersionDeleted
  <2>3. selection.kind = "Object" => Formed(Load("versions", SelectedObject))
    BY SelectedSuits, LoadObjectPart DEF ObjectParts
  <2>4. selection.kind = "Object" =>
          /\ \A r \in loads : /\ Formed(r) /\ r.part \in {"versions", "detail"}
                              /\ r.op = "load" /\ r.of = SelectedObject /\ r.at = "sent"
          /\ \E r \in loads : r.part = "versions"
    BY <2>1, <2>3 DEF Load, Request
  <2> QED BY <2>2, <2>4, VersionDoneStep
<1>3. CASE VersionRestored(i)
  <2>1. PICK loads : loads = {Load("versions", SelectedObject), Load("detail", SelectedObject)}
    OBVIOUS
  <2>2. VersionDone(i, "restore", loads) /\ IsFiniteSet(loads)
    BY <1>3, <2>1, PairIsFinite DEF VersionRestored
  <2>3. selection.kind = "Object" => /\ Formed(Load("versions", SelectedObject))
                                     /\ Formed(Load("detail", SelectedObject))
    BY SelectedSuits, LoadObjectPart DEF ObjectParts
  <2>4. selection.kind = "Object" =>
          /\ \A r \in loads : /\ Formed(r) /\ r.part \in {"versions", "detail"}
                              /\ r.op = "load" /\ r.of = SelectedObject /\ r.at = "sent"
          /\ \E r \in loads : r.part = "versions"
    BY <2>1, <2>3 DEF Load, Request
  <2> QED BY <2>2, <2>4, VersionDoneStep
<1>4. CASE HealObjectFinished(i)
  BY <1>4, HealStep
<1>5. CASE ObjectInspectLoaded(i)
  BY <1>5, InspectStep
<1>6. CASE ObjectPartLoaded(i)
  BY <1>6, PartLoadedStep
<1> QED BY <1>1, <1>2, <1>3, <1>4, <1>5, <1>6 DEF ObjectMessage

-----------------------------------------------------------------------------
(* The panel of an object: the server *)

\* ServedShown: a request that has been served is still under way.
LEMMA ServedShown ==
  ASSUME RequestsInv, ObjectInv, NEW i \in DOMAIN requests, ServedOnly(i),
         UNCHANGED <<pane, selection, selected_bucket, follow, restless>>
  PROVE  PaneShape' /\ ObjectFollowed' /\ ObjectWaits' /\ ObjectShown'
<1> USE DEF ObjectInv
<1>1. /\ DOMAIN requests' = DOMAIN requests
      /\ \A j \in DOMAIN requests : /\ requests'[j].part = requests[j].part
                                    /\ requests'[j].op = requests[j].op
                                    /\ requests'[j].of = requests[j].of
  BY DEF ServedOnly
<1>2. PaneShape' /\ ObjectFollowed'
  BY DEF PaneShape, ObjectFollowed, NoPane
<1>3. SelectedObject' = SelectedObject
  BY DEF SelectedObject
<1>4. \A part, op : UnderWay(part, op) => UnderWay(part, op)'
  BY <1>1 DEF UnderWay
<1>5. ObjectWaits'
  <2>1. (pane.loading_detail => UnderWay("detail", "load"))'
    BY <1>4 DEF ObjectWaits
  <2>2. (pane.loading_tags => UnderWay("tags", "load") \/ UnderWay("tags", "save"))'
    BY <1>4 DEF ObjectWaits
  <2>3. (pane.loading_versions =>
           \E op \in {"load", "delete", "restore"} : UnderWay("versions", op))'
    BY <1>4 DEF ObjectWaits
  <2>4. ((pane.loading_object_inspect /\ selection.kind = "Object") =>
           \E l \in DOMAIN requests :
             requests[l].part = "inspect" /\ requests[l].of = SelectedObject)'
    BY <1>1, <1>3 DEF ObjectWaits
  <2>5. (pane.healing # Nothing =>
           \E l \in DOMAIN requests :
             requests[l].part = "heal" /\ requests[l].of = pane.healing)'
    BY <1>1 DEF ObjectWaits
  <2> QED BY <2>1, <2>2, <2>3, <2>4, <2>5 DEF ObjectWaits
<1>6. ObjectShown'
  BY <1>1, <1>3 DEF ObjectShown, OfSelected
<1> QED BY <1>2, <1>5, <1>6

\* ServedVersions: a listing of versions that is served has the rows of its bucket.
LEMMA ServedVersions ==
  ASSUME VersionsInv, NEW i \in DOMAIN requests, ServedOnly(i),
         UNCHANGED <<pane, selection, restless, misdirected>>,
         (requests[i].part = "versions" /\ requests[i].op = "load") =>
           RowsOf(requests'[i], requests[i].of[1])
  PROVE  VersionsInv'
<1>1. ASSUME NEW j \in DOMAIN requests', requests'[j].part = "versions", requests'[j].op = "load",
             requests'[j].at = "done"
      PROVE  RowsOf(requests'[j], requests'[j].of[1])
  BY <1>1 DEF VersionsInv, ServedOnly
<1> QED BY <1>1 DEF VersionsInv, RowsOf

\* RowsListed: a listing has rows of its bucket.
LEMMA RowsListed ==
  ASSUME NEW o, NEW row \in VersionRows(o)
  PROVE  row.of = Of(o[1], row.of[2])
<1> DEFINE Row(k, n) == [of |-> Of(o[1], k), id |-> versions[Of(o[1], k)][n],
                        is_latest |-> n = Len(versions[Of(o[1], k)])]
           OfKey(k) == {Row(k, n) : n \in DOMAIN versions[Of(o[1], k)]}
<1>1. VersionRows(o) = UNION {OfKey(k) : k \in Below[o[2]]}
  BY DEF VersionRows
<1>2. \A k, n : Row(k, n).of = Of(o[1], k)
  OBVIOUS
<1> HIDE DEF Row
<1>3. PICK k : row \in OfKey(k)
  BY <1>1
<1>4. PICK n : row = Row(k, n)
  BY <1>3
<1>5. row.of = Of(o[1], k)
  BY <1>2, <1>4
<1> QED BY <1>5 DEF Of

\* ServeLoadStep: something of an object is read.
LEMMA ServeLoadStep ==
  ASSUME RequestsInv, SelectionInv, ObjectInv, NEW i \in DOMAIN requests, ServeLoad(i),
         requests[i].at = "sent",
         UNCHANGED <<selection, selected_bucket, follow, restless>>
  PROVE  ObjectInv'
<1>1. /\ requests[i].op = "load"
      /\ UNCHANGED <<pane, tags, versions, wished, misdirected, unsure>>
  BY DEF ServeLoad, objectVars
<1>1a. PICK ok \in BOOLEAN : \E value :
        /\ Served(i, ok, value)
        /\ requests[i].part = "tags" /\ ok => value = tags[requests[i].of]
        /\ requests[i].part = "versions" => value \in {{}, VersionRows(requests[i].of)}
  BY DEF ServeLoad
<1>2. PICK value :
        /\ Served(i, ok, value)
        /\ requests[i].part = "tags" /\ ok => value = tags[requests[i].of]
        /\ requests[i].part = "versions" => value \in {{}, VersionRows(requests[i].of)}
  BY <1>1a
<1>3. /\ ServedOnly(i) /\ requests'[i].ok = ok /\ requests'[i].value = value
      /\ \A part : Lone(part) => Lone(part)'
      /\ requests[i].part # "tags" => SameOf({"tags"})
  BY <1>2, ServedKeeps
<1>4. PaneShape' /\ ObjectFollowed' /\ ObjectWaits' /\ ObjectShown'
  BY <1>1, <1>3, ServedShown
<1>5. VersionsInv'
  <2>1. \A row \in VersionRows(requests[i].of) : row.of = Of(requests[i].of[1], row.of[2])
    BY RowsListed
  <2>2. requests[i].part = "versions" => RowsOf(requests'[i], requests[i].of[1])
    BY <1>2, <1>3, <2>1 DEF RowsOf
  <2> QED BY <1>1, <1>3, <2>2, ServedVersions DEF ObjectInv
<1>6. TagsInv'
  <2>1. CASE requests[i].part # "tags"
    BY <1>1, <1>3, <2>1, TagsFrame DEF ObjectInv
  <2>2. CASE requests[i].part = "tags"
    <3>1. /\ DOMAIN requests' = DOMAIN requests
          /\ \A j \in DOMAIN requests :
               /\ j # i => requests'[j] = requests[j]
               /\ requests'[j].part = requests[j].part
          /\ ~Unsaved(requests[i]) /\ ~Unsaved(requests'[i])
          /\ ~Unapplied(requests[i]) /\ ~Unapplied(requests'[i])
          /\ requests'[i].ok => requests'[i].value = tags[requests'[i].of]
      BY <1>1, <1>2, <1>3, <2>2 DEF ServedOnly, Unsaved, Unapplied
    <3>2. /\ \A j \in DOMAIN requests : Unsaved(requests'[j]) <=> Unsaved(requests[j])
          /\ \A j \in DOMAIN requests : Unsaved(requests'[j]) => requests'[j] = requests[j]
          /\ \A j \in DOMAIN requests : Unapplied(requests'[j]) <=> Unapplied(requests[j])
      BY <3>1
    <3>3. (tags = [o \in Objects |-> tags[o]] /\ wished = [o \in Objects |-> wished[o]])'
      BY <1>1 DEF ObjectInv, TagsInv
    <3>4. (~restless =>
             /\ Lone("tags")
             /\ \A l \in DOMAIN requests : requests[l].part = "tags" => pane.loading_tags)'
      BY <1>1, <1>3, <3>1 DEF ObjectInv, TagsInv
    <3>5. SelectedObject' = SelectedObject
      BY DEF SelectedObject
    <3>6. ((~restless /\ ~unsure) =>
             /\ \A l \in DOMAIN requests : Unsaved(requests[l]) =>
                  wished = [tags EXCEPT ![requests[l].of] = requests[l].value]
             /\ (\A l \in DOMAIN requests : ~Unsaved(requests[l])) => wished = tags)'
      BY <1>1, <3>1, <3>2 DEF ObjectInv, TagsInv
    <3>7. ((~restless /\ ~unsure) =>
             \A l \in DOMAIN requests :
               (requests[l].part = "tags" /\ requests[l].op = "load" /\ requests[l].at = "done"
                  /\ requests[l].ok) => requests[l].value = tags[requests[l].of])'
      BY <1>1, <3>1 DEF ObjectInv, TagsInv
    <3>8. ((~restless /\ ~unsure) =>
             ((/\ selection.kind = "Object" /\ pane.object_tags.is = "Ok"
               /\ ~pane.loading_tags \/ \E l \in DOMAIN requests : Unapplied(requests[l])) =>
                pane.object_tags.value = tags[SelectedObject]))'
      BY <1>1, <3>1, <3>2, <3>5 DEF ObjectInv, TagsInv
    <3> QED BY <3>3, <3>4, <3>6, <3>7, <3>8 DEF TagsInv
  <2> QED BY <2>1, <2>2
<1> QED BY <1>4, <1>5, <1>6 DEF ObjectInv

\* ServeTagsStep: a set of tags is put, or not.
LEMMA ServeTagsStep ==
  ASSUME RequestsInv, SelectionInv, ObjectInv, NEW i \in DOMAIN requests, ServeTags(i),
         requests[i].at = "sent",
         UNCHANGED <<selection, selected_bucket, follow, restless>>
  PROVE  ObjectInv'
<1>1. /\ requests[i].part = "tags" /\ requests[i].op = "save"
      /\ UNCHANGED <<pane, misdirected>>
  BY DEF ServeTags
<1>2. PICK ok \in BOOLEAN : Served(i, ok, {})
  BY DEF ServeTags
<1>3. /\ ServedOnly(i) /\ requests'[i].ok = ok
      /\ Lone("tags") => Lone("tags")'
  BY <1>2, ServedKeeps
<1>4. \/ /\ tags' = [tags EXCEPT ![requests[i].of] = requests[i].value]
         /\ unsure' = (unsure \/ ~ok) /\ wished' = wished
      \/ /\ wished' = [wished EXCEPT ![requests[i].of] = tags[requests[i].of]]
         /\ tags' = tags /\ unsure' = unsure /\ ok = FALSE
  <2>1. CASE /\ tags' = [tags EXCEPT ![requests[i].of] = requests[i].value]
             /\ \E b \in BOOLEAN : Served(i, b, {}) /\ unsure' = (unsure \/ ~b)
             /\ UNCHANGED wished
    <3>1. PICK b \in BOOLEAN : Served(i, b, {}) /\ unsure' = (unsure \/ ~b)
      BY <2>1
    <3>2. requests'[i].ok = b
      BY <3>1, ServedKeeps
    <3>3. ok <=> b
      BY <1>3, <3>2
    <3>4. unsure' = (unsure \/ ~ok)
      BY <3>1, <3>3, Zenon
    <3> QED BY <2>1, <3>4
  <2>2. CASE /\ Served(i, FALSE, {})
             /\ wished' = [wished EXCEPT ![requests[i].of] = tags[requests[i].of]]
             /\ UNCHANGED <<tags, unsure>>
    <3>1. requests'[i].ok = FALSE
      BY <2>2, ServedKeeps
    <3> QED BY <1>3, <2>2, <3>1
  <2> QED BY <2>1, <2>2 DEF ServeTags
<1>5. PaneShape' /\ ObjectFollowed' /\ ObjectWaits' /\ ObjectShown'
  BY <1>1, <1>3, ServedShown
<1>6. VersionsInv'
  BY <1>1, <1>3, ServedVersions DEF ObjectInv
<1>7. TagsInv'
  <2>1. /\ tags = [o \in Objects |-> tags[o]] /\ wished = [o \in Objects |-> wished[o]]
        /\ requests[i].of \in Objects
    BY <1>1 DEF ObjectInv, TagsInv, RequestsInv, Formed, RightSubject, ObjectParts
  <2>2. (tags = [o \in Objects |-> tags[o]] /\ wished = [o \in Objects |-> wished[o]])'
    <3>1. (tags = [o \in Objects |-> tags[o]])'
      BY <1>4, <2>1
    <3>2. (wished = [o \in Objects |-> wished[o]])'
      BY <1>4, <2>1
    <3> QED BY <3>1, <3>2
  <2>3. /\ DOMAIN requests' = DOMAIN requests
        /\ \A j \in DOMAIN requests :
             /\ j # i => requests'[j] = requests[j]
             /\ requests'[j].part = requests[j].part
        /\ Unsaved(requests[i]) /\ ~Unsaved(requests'[i]) /\ Unapplied(requests[i])
        /\ Unapplied(requests'[i]) => ~ok
        /\ requests'[i].op # "load"
    BY <1>1, <1>3 DEF ServedOnly, Unsaved, Unapplied
  <2>4. (~restless => /\ Lone("tags")
                      /\ \A l \in DOMAIN requests : requests[l].part = "tags" => pane.loading_tags)'
    BY <1>1, <1>3, <2>3 DEF ObjectInv, TagsInv
  <2>5. ~restless => \A j \in DOMAIN requests : j # i => requests[j].part # "tags"
    BY <1>1 DEF ObjectInv, TagsInv, Lone
  <2>6. ~restless => \A l \in DOMAIN requests' : ~Unsaved(requests'[l])
    BY <2>3, <2>5 DEF Unsaved
  <2>7. ~restless /\ ~unsure' => ~unsure
    BY <1>4 DEF SelectionInv
  <2>8. ~restless /\ ~unsure => wished = [tags EXCEPT ![requests[i].of] = requests[i].value]
    BY <2>3 DEF ObjectInv, TagsInv
  <2>9. ~restless /\ ~unsure' => wished' = tags'
    BY <1>4, <2>1, <2>7, <2>8
  <2>10. ((~restless /\ ~unsure) =>
            \A l \in DOMAIN requests :
              (requests[l].part = "tags" /\ requests[l].op = "load" /\ requests[l].at = "done"
                 /\ requests[l].ok) => requests[l].value = tags[requests[l].of])'
    BY <2>3, <2>5
  <2>11. ((~restless /\ ~unsure) =>
            ((/\ selection.kind = "Object" /\ pane.object_tags.is = "Ok"
              /\ ~pane.loading_tags \/ \E l \in DOMAIN requests : Unapplied(requests[l])) =>
               pane.object_tags.value = tags[SelectedObject]))'
    <3>1. ~restless => pane.loading_tags
      BY <1>1 DEF ObjectInv, TagsInv
    <3>2. ~restless => \A l \in DOMAIN requests' : Unapplied(requests'[l]) => l = i
      BY <2>3, <2>5 DEF Unapplied
    <3>3. ~restless /\ (\E l \in DOMAIN requests' : Unapplied(requests'[l])) => ~ok
      BY <2>3, <3>2
    <3>4. ~restless /\ ~unsure' /\ ~ok => tags' = tags
      BY <1>4
    <3>5. ~restless /\ ~unsure /\ selection.kind = "Object" /\ pane.object_tags.is = "Ok" =>
            pane.object_tags.value = tags[SelectedObject]
      BY <2>3 DEF ObjectInv, TagsInv
    <3>6. SelectedObject' = SelectedObject
      BY DEF SelectedObject
    <3> QED BY <1>1, <2>7, <3>1, <3>3, <3>4, <3>5, <3>6
  <2> QED BY <2>2, <2>4, <2>6, <2>9, <2>10, <2>11 DEF TagsInv
<1> QED BY <1>5, <1>6, <1>7 DEF ObjectInv

\* ServeObjectStep: a request of an object's panel is served.
LEMMA ServeObjectStep ==
  ASSUME RequestsInv, SelectionInv, ObjectInv, NEW i \in DOMAIN requests, ServeObject(i),
         requests[i].at = "sent",
         UNCHANGED <<selection, selected_bucket, follow, restless>>
  PROVE  ObjectInv'
<1>1. CASE ServeLoad(i)
  BY <1>1, ServeLoadStep
<1>2. CASE ServeTags(i)
  BY <1>2, ServeTagsStep
<1>3. CASE ServeVersion(i) \/ ServeHeal(i)
  <2>1. PICK ok \in BOOLEAN : Served(i, ok, {})
    BY <1>3 DEF ServeVersion, ServeHeal
  <2>2. /\ requests[i].part # "tags" /\ ~(requests[i].part = "versions" /\ requests[i].op = "load")
        /\ UNCHANGED <<pane, tags, wished, misdirected>>
    BY <1>3 DEF ServeVersion, ServeHeal, objectVars
  <2>3. unsure => unsure'
    BY <1>3 DEF ServeVersion, ServeHeal
  <2>4. ServedOnly(i) /\ SameOf({"tags"})
    BY <2>1, <2>2, ServedKeeps
  <2>5. PaneShape' /\ ObjectFollowed' /\ ObjectWaits' /\ ObjectShown'
    BY <2>2, <2>4, ServedShown
  <2>6. VersionsInv' /\ TagsInv'
    BY <2>2, <2>3, <2>4, ServedVersions, TagsFrame DEF ObjectInv
  <2> QED BY <2>5, <2>6 DEF ObjectInv
<1> QED BY <1>1, <1>2, <1>3 DEF ServeObject

-----------------------------------------------------------------------------
(* The panel of a bucket *)

BucketInv == BucketShape /\ BucketFollowed /\ BucketWaits /\ ShownOfBucket

\* EmptyFields: what is shown before anything is.
LEMMA EmptyFields == Empty.of = Nothing /\ Empty.is = "None"
  BY DEF Empty, Nothing, NoObject

\* BucketFrame: steps of the other panel and the list leave the panel of a bucket alone.
LEMMA BucketFrame ==
  ASSUME BucketInv, SameOf(BucketParts),
         UNCHANGED <<bucketVars, selection, selected_bucket, follow>>, restless => restless'
  PROVE  BucketInv'
<1> USE DEF bucketVars, bucketTruth, BucketInv
<1>1. Here' = Here /\ BucketShown' = BucketShown
  BY DEF Here, BucketShown
<1>2. BucketShape'
  <2>1. DOMAIN NoDocument' = DOMAIN NoDocument
    BY DEF NoDocument
  <2> QED BY <2>1 DEF BucketShape
<1>3. BucketFollowed'
  BY DEF BucketFollowed
<1>4. \A part \in BucketParts : \A op : UnderWay(part, op) => UnderWay(part, op)'
  BY StillUnderWay
<1>5. BucketWaits'
  BY <1>1, <1>4 DEF BucketWaits, BucketParts
<1>6. ShownOfBucket'
  BY <1>1 DEF ShownOfBucket, SameOf, OfHere
<1> QED BY <1>2, <1>3, <1>5, <1>6

\* BucketLeft: a step that leaves the bucket for an object of it, or for nothing.
LEMMA BucketLeft ==
  ASSUME BucketInv, SameOf(BucketParts), selection'.kind # "Bucket",
         DOMAIN documents' = Kinds,
         \A kind \in Kinds :
           /\ DOMAIN documents'[kind] = DOMAIN NoDocument
           /\ documents'[kind].loaded \in {documents[kind].loaded, Empty}
           /\ documents'[kind].editing => documents[kind].editing
           /\ documents'[kind].saving => documents[kind].saving,
         UNCHANGED <<selected_bucket, bucket_tags, bucket_status, bucketTruth, follow>>,
         restless => restless'
  PROVE  BucketInv'
<1> USE DEF bucketTruth, BucketInv
<1>1. Here' = Here /\ ~BucketShown'
  BY DEF Here, BucketShown
<1>2. BucketShape'
  <2>1. DOMAIN NoDocument' = DOMAIN NoDocument
    BY DEF NoDocument
  <2> QED BY <2>1 DEF BucketShape
<1>3. BucketFollowed'
  BY EmptyFields DEF BucketFollowed
<1>4. \A part \in BucketParts : \A op : UnderWay(part, op) => UnderWay(part, op)'
  BY StillUnderWay
<1>5. BucketWaits'
  BY <1>1, <1>4 DEF BucketWaits, BucketParts
<1>6. ShownOfBucket'
  BY <1>1 DEF ShownOfBucket, SameOf
<1> QED BY <1>2, <1>3, <1>5, <1>6

\* DocumentsReset, DocumentsCancelled: what becomes of the documents when the bucket is left.
LEMMA DocumentsReset ==
  ASSUME ResetDocuments
  PROVE  /\ DOMAIN documents' = Kinds
         /\ \A kind \in Kinds : /\ DOMAIN documents'[kind] = DOMAIN NoDocument
                                /\ documents'[kind].loaded = Empty
                                /\ ~documents'[kind].editing /\ ~documents'[kind].saving
<1>1. \A kind \in Kinds : documents'[kind] = NoDocument
  BY DEF ResetDocuments
<1>2. NoDocument.loaded = Empty /\ NoDocument.editing = FALSE /\ NoDocument.saving = FALSE
  BY DEF NoDocument
<1> QED BY <1>1, <1>2 DEF ResetDocuments

\* ResetFields: an editor that is reset keeps what was loaded.
LEMMA ResetFields ==
  ASSUME NEW d, DOMAIN d = DOMAIN NoDocument, NEW text
  PROVE  LET e == ResetEditor(d, text)
         IN  /\ DOMAIN e = DOMAIN NoDocument
             /\ e.loaded = d.loaded /\ e.editing = FALSE /\ e.saving = FALSE /\ e.editor = text
<1>1. DOMAIN NoDocument = {"loaded", "editor", "editing", "saving", "error"}
  BY DEF NoDocument
<1> QED BY <1>1 DEF ResetEditor

\* CancelFields: so does one whose editing is cancelled.
LEMMA CancelFields ==
  ASSUME NEW d, DOMAIN d = DOMAIN NoDocument
  PROVE  LET e == CancelEditing(d)
         IN  /\ DOMAIN e = DOMAIN NoDocument
             /\ e.loaded = d.loaded /\ e.editing = FALSE /\ e.saving = FALSE
<1>1. PICK text : CancelEditing(d) = ResetEditor(d, text)
  BY DEF CancelEditing
<1>2. /\ DOMAIN ResetEditor(d, text) = DOMAIN NoDocument
      /\ ResetEditor(d, text).loaded = d.loaded
      /\ ResetEditor(d, text).editing = FALSE /\ ResetEditor(d, text).saving = FALSE
  BY ResetFields
<1> QED BY <1>1, <1>2

-----------------------------------------------------------------------------
(* The list *)

ListInv == ListShape /\ ListWaits

\* ListFrame: steps of the panels leave the list alone.
LEMMA ListFrame ==
  ASSUME ListInv, SameOf(ListingParts), UNCHANGED list
  PROVE  ListInv'
<1>1. UnderWay("objects", "load") => UnderWay("objects", "load")'
  BY StillUnderWay DEF ListingParts
<1>2. UnderWay("find", "load") => UnderWay("find", "load")'
  BY StillUnderWay DEF ListingParts
<1>3. DOMAIN NoList' = DOMAIN NoList
  BY DEF NoList
<1> QED BY <1>1, <1>2, <1>3 DEF ListInv, ListShape, ListWaits

\* AtFields: a list that starts anew.
LEMMA AtFields ==
  ASSUME NEW l, DOMAIN l = DOMAIN NoList, NEW prefix
  PROVE  LET m == At(l, prefix)
         IN  /\ DOMAIN m = DOMAIN NoList
             /\ m.current_prefix = prefix /\ (m.loading_objects <=> "objects" \in follow)
             /\ m.finding = l.finding /\ m.objects = l.objects
             /\ m.find_results = Empty /\ m.selected_keys = {}
<1>1. DOMAIN NoList = {"objects", "loading_objects", "find_results", "finding", "selected_keys",
                       "current_prefix", "object_filter"}
  BY DEF NoList
<1> DEFINE b == "objects" \in follow
<1>2. At(l, prefix) = [l EXCEPT !.current_prefix = prefix, !.object_filter = NoFilter,
                         !.selected_keys = {}, !.find_results = Empty, !.loading_objects = b]
  BY DEF At, Loading
<1> HIDE DEF b
<1>3. /\ DOMAIN At(l, prefix) = DOMAIN NoList
      /\ At(l, prefix).current_prefix = prefix /\ At(l, prefix).loading_objects = b
      /\ At(l, prefix).finding = l.finding /\ At(l, prefix).objects = l.objects
      /\ At(l, prefix).find_results = Empty /\ At(l, prefix).selected_keys = {}
  BY <1>1, <1>2
<1>4. At(l, prefix).loading_objects <=> b
  BY <1>3
<1> QED BY <1>3, <1>4 DEF b

\* LoadingFields: a list that is loaded again keeps its prefix and its search.
LEMMA LoadingFields ==
  ASSUME NEW l, DOMAIN l = DOMAIN NoList
  PROVE  LET m == Loading(l)
         IN  /\ DOMAIN m = DOMAIN NoList
             /\ m.current_prefix = l.current_prefix /\ (m.loading_objects <=> "objects" \in follow)
             /\ m.finding = l.finding /\ m.objects = l.objects
<1>1. DOMAIN NoList = {"objects", "loading_objects", "find_results", "finding", "selected_keys",
                       "current_prefix", "object_filter"}
  BY DEF NoList
<1> DEFINE b == "objects" \in follow
<1>2. Loading(l) = [l EXCEPT !.loading_objects = b]
  BY DEF Loading
<1> HIDE DEF b
<1>3. /\ DOMAIN Loading(l) = DOMAIN NoList
      /\ Loading(l).current_prefix = l.current_prefix /\ Loading(l).loading_objects = b
      /\ Loading(l).finding = l.finding /\ Loading(l).objects = l.objects
  BY <1>1, <1>2
<1>4. Loading(l).loading_objects <=> b
  BY <1>3
<1> QED BY <1>3, <1>4 DEF b

-----------------------------------------------------------------------------
(* Steps that select something *)

DetailsInv == RequestsInv /\ SelectionInv /\ ObjectInv /\ BucketInv /\ ListInv

\* BucketLoads: the requests that selecting a bucket starts.
LEMMA BucketLoads ==
  ASSUME NEW b \in Buckets, NEW new,
         new = {Load("objects", Of(b, Root)), Load("versioning", Of(b, NoKey)),
                Load("policy", Of(b, NoKey)), Load("lifecycle", Of(b, NoKey)),
                Load("bucket_tags", Of(b, NoKey)), Load("ftt", Of(b, NoKey))}
  PROVE  /\ IsFiniteSet(new)
         /\ \A r \in new :
              /\ Formed(r) /\ r.op = "load"
              /\ r.part = "objects" \/ (r.part \in BucketParts /\ r.of = Of(b, NoKey))
         /\ \A part \in BucketParts \union {"objects"} : \E r \in new : r.part = part
<1> DEFINE all == {Load("objects", Of(b, Root)), Load("versioning", Of(b, NoKey))}
                    \union {Load("policy", Of(b, NoKey)), Load("lifecycle", Of(b, NoKey))}
                    \union {Load("bucket_tags", Of(b, NoKey)), Load("ftt", Of(b, NoKey))}
<1>1. new = all
  OBVIOUS
<1>2. IsFiniteSet(all)
  BY PairIsFinite, FS_Union
<1>3. \A part \in BucketParts : Formed(Load(part, Of(b, NoKey)))
  BY LoadBucketPart DEF Of
<1>4. Formed(Load("objects", Of(b, Root)))
  <2>1. Suits("objects", Of(b, Root))
    BY FoldersAssumption DEF Suits, Of, ObjectParts, BucketParts, Kinds
  <2> QED BY <2>1, NewRequest DEF Load, Suits
<1>5. BucketParts = {"policy", "lifecycle", "bucket_tags", "versioning", "ftt"}
  BY DEF BucketParts, Kinds
<1>6. \A part, of : Load(part, of).part = part /\ Load(part, of).op = "load"
                      /\ Load(part, of).of = of
  BY DEF Load, Request
<1>7. \A r \in new : /\ Formed(r) /\ r.op = "load"
                     /\ r.part = "objects" \/ (r.part \in BucketParts /\ r.of = Of(b, NoKey))
  BY <1>3, <1>4, <1>5, <1>6
<1>8. \A part \in BucketParts \union {"objects"} : \E r \in new : r.part = part
  BY <1>5, <1>6
<1> QED BY <1>1, <1>2, <1>7, <1>8

\* SelectBucketStep: a bucket is selected.
LEMMA SelectBucketStep ==
  ASSUME DetailsInv, NEW b \in Buckets, SelectBucket(b)
  PROVE  DetailsInv'
<1> USE DEF DetailsInv
<1>1. PICK new : new = {Load("objects", Of(b, Root)), Load("versioning", Of(b, NoKey)),
                        Load("policy", Of(b, NoKey)), Load("lifecycle", Of(b, NoKey)),
                        Load("bucket_tags", Of(b, NoKey)), Load("ftt", Of(b, NoKey))}
  OBVIOUS
<1>2. /\ IsFiniteSet(new)
      /\ \A r \in new :
           /\ Formed(r) /\ r.op = "load"
           /\ r.part = "objects" \/ (r.part \in BucketParts /\ r.of = Of(b, NoKey))
      /\ \A part \in BucketParts \union {"objects"} : \E r \in new : r.part = part
  BY <1>1, BucketLoads
<1>3. Start(new)
  BY <1>1 DEF SelectBucket
<1>4. /\ selected_bucket' = b /\ selection' = Bucket(b) /\ selection'.kind = "Bucket"
      /\ list' = At(list, Root) /\ pane' = Cleared(pane) /\ ResetDocuments
      /\ bucket_tags' = Empty
      /\ UNCHANGED <<objectTruth, bucketTruth, created, follow, hasty, unsure>>
      /\ restless' = (restless \/ requests # <<>>)
  BY DEF SelectBucket, Selects, Bucket
<1>5. /\ DOMAIN bucket_status' = DOMAIN bucket_status
      /\ bucket_status'["versioning"] = bucket_status["versioning"]
      /\ bucket_status'["ftt"] = Empty
  <2>1. bucket_status' = [bucket_status EXCEPT !["ftt"] = Empty]
    BY DEF SelectBucket
  <2>2. DOMAIN bucket_status = {"versioning", "ftt"}
    BY DEF BucketInv, BucketShape
  <2> QED BY <2>1, <2>2
<1>6. \A r \in new : r.part \notin ObjectParts
  BY <1>2 DEF ObjectParts, BucketParts, Kinds
<1>7. RequestsInv' /\ SameOf(ObjectParts) /\ Added(new)
  BY <1>2, <1>3, <1>4, <1>6, StartKeeps
<1>8. SelectionInv'
  BY <1>4, NamesAssumption DEF SelectionInv, Grounded, Selection, Bucket
<1>9. ~restless' => /\ ~restless /\ DOMAIN requests = {}
                    /\ \A l \in DOMAIN requests' : requests'[l] \in new
  <2>1. ~restless' => ~restless /\ requests = <<>>
    BY <1>4 DEF SelectionInv
  <2> QED BY <1>7, <2>1 DEF Added
<1>10. ObjectInv'
  <2>1. NoneUnnamed
    BY <1>9 DEF NoneUnnamed
  <2>2. restless => restless'
    BY <1>4
  <2>3. selected_bucket' # NoBucket
    BY <1>4, NamesAssumption
  <2> QED BY <1>4, <1>7, <2>1, <2>2, <2>3, ObjectLeft
<1>11. \A part \in BucketParts \union {"objects"} : part \in follow => UnderWay(part, "load")'
  BY <1>2, <1>7 DEF Added, UnderWay
<1>12. Here' = Of(b, NoKey)
  BY <1>4 DEF Here
<1>13. /\ DOMAIN documents' = Kinds
       /\ \A kind \in Kinds : /\ DOMAIN documents'[kind] = DOMAIN NoDocument
                              /\ documents'[kind].loaded = Empty
                              /\ ~documents'[kind].editing /\ ~documents'[kind].saving
  BY <1>4, DocumentsReset
<1>14. BucketShape'
  <2>1. DOMAIN NoDocument' = DOMAIN NoDocument
    BY DEF NoDocument
  <2> QED BY <1>4, <1>5, <1>13, <2>1 DEF BucketShape, BucketInv, bucketTruth
<1>15. BucketFollowed'
  BY <1>4, <1>5, <1>13, EmptyFields DEF BucketFollowed, BucketInv
<1>16. BucketWaits'
  BY <1>4, <1>11, <1>13 DEF BucketWaits, BucketParts
<1>17. ShownOfBucket'
  <2>1. ~restless' => \A l \in DOMAIN requests' :
          requests'[l].part \in BucketParts => requests'[l].of = Here'
    BY <1>2, <1>9, <1>12 DEF BucketParts, Kinds
  <2> QED BY <1>4, <1>5, <1>13, <2>1, EmptyFields DEF ShownOfBucket, OfHere
<1>18. ListInv'
  <2>1. /\ DOMAIN list' = DOMAIN NoList /\ list'.current_prefix = Root
        /\ (list'.loading_objects <=> "objects" \in follow)
        /\ list'.finding = list.finding
    BY <1>4, AtFields DEF ListInv, ListShape
  <2>2. DOMAIN NoList' = DOMAIN NoList
    BY DEF NoList
  <2>3. list.finding => UnderWay("find", "load")'
    BY <1>7 DEF ListInv, ListWaits, UnderWay, Added
  <2> QED BY <1>11, <2>1, <2>2, <2>3, FoldersAssumption DEF ListInv, ListShape, ListWaits
<1> QED BY <1>7, <1>8, <1>10, <1>14, <1>15, <1>16, <1>17, <1>18 DEF BucketInv

\* NavigatePrefixStep: a folder is opened.
LEMMA NavigatePrefixStep ==
  ASSUME DetailsInv, NEW prefix \in Folders, NavigatePrefix(prefix)
  PROVE  DetailsInv'
<1> USE DEF DetailsInv
<1>1. PICK new : new = {Request("objects", "load", HereIn(prefix), {})}
  OBVIOUS
<1>2. /\ selected_bucket # NoBucket /\ Start(new)
      /\ list' = At(list, prefix) /\ selection' = None /\ pane' = Cleared(pane)
      /\ "objects" \in follow
      /\ UNCHANGED <<selected_bucket, objectTruth, follow, hasty, unsure>>
      /\ restless' = (restless \/ requests # <<>>)
  BY <1>1 DEF NavigatePrefix, Selects, Load
<1>3. UNCHANGED bucketVars
  BY DEF NavigatePrefix
<1>4. Suits("objects", HereIn(prefix)) /\ "objects" \notin NotOfLists
  BY <1>2, Disjoint DEF Suits, HereIn, Of, SelectionInv, ObjectParts, BucketParts, Kinds,
                        ListingParts
<1>5. RequestsInv' /\ SameOf(NotOfLists) /\ Added(new)
  BY <1>1, <1>2, <1>4, StartOne
<1>6. SelectionInv'
  BY <1>2 DEF SelectionInv, Grounded, Selection, None
<1>7. restless => restless'
  BY <1>2
<1>8. SameOf(ObjectParts) /\ SameOf(BucketParts)
  BY <1>5, SameOfFewer DEF NotOfLists
<1>9. ObjectInv'
  <2>1. NoneUnnamed
    <3>1. ~restless' => requests = <<>>
      BY <1>2 DEF SelectionInv
    <3> QED BY <3>1 DEF NoneUnnamed
  <2> QED BY <1>2, <1>7, <1>8, <2>1, ObjectLeft DEF None
<1>10. BucketInv'
  <2>1. /\ DOMAIN documents' = Kinds
        /\ \A kind \in Kinds : DOMAIN documents'[kind] = DOMAIN NoDocument
        /\ UNCHANGED <<documents, bucket_tags, bucket_status, bucketTruth>>
    BY <1>3 DEF BucketInv, BucketShape, bucketVars
  <2>2. selection'.kind # "Bucket"
    BY <1>2 DEF None
  <2> QED BY <1>2, <1>7, <1>8, <2>1, <2>2, BucketLeft
<1>11. ListInv'
  <2>1. /\ DOMAIN list' = DOMAIN NoList /\ list'.current_prefix = prefix
        /\ list'.finding = list.finding
    BY <1>2, AtFields DEF ListInv, ListShape
  <2>2. DOMAIN NoList' = DOMAIN NoList
    BY DEF NoList
  <2>3. list.finding => UnderWay("find", "load")'
    BY <1>5 DEF ListInv, ListWaits, UnderWay, Added
  <2>4. UnderWay("objects", "load")'
    BY <1>1, <1>2, <1>5 DEF Added, UnderWay, Request
  <2> QED BY <2>1, <2>2, <2>3, <2>4 DEF ListInv, ListShape, ListWaits
<1> QED BY <1>5, <1>6, <1>9, <1>10, <1>11

\* ClearSelectionStep: nothing is selected any more.
LEMMA ClearSelectionStep ==
  ASSUME DetailsInv, ClearSelection
  PROVE  DetailsInv'
<1> USE DEF DetailsInv
<1>1. /\ selection' = None /\ pane' = Cleared(pane)
      /\ UNCHANGED <<selected_bucket, requests, objectTruth, bucket_tags, bucket_status,
                     bucketTruth, list, follow, hasty, unsure>>
      /\ restless' = (restless \/ requests # <<>>)
  BY DEF ClearSelection, Selects, listVars
<1>2. \A parts : RequestsInv' /\ SameOf(parts)
  BY <1>1, UnchangedKeeps
<1>3. SelectionInv'
  BY <1>1 DEF SelectionInv, Grounded, Selection, None
<1>4. restless => restless'
  BY <1>1
<1>5. ObjectInv'
  <2>1. NoneUnnamed
    <3>1. ~restless' => requests = <<>>
      BY <1>1 DEF SelectionInv
    <3> QED BY <3>1 DEF NoneUnnamed
  <2> QED BY <1>1, <1>2, <1>4, <2>1, ObjectLeft DEF None
<1>6. BucketInv'
  <2>1. documents' = [kind \in Kinds |-> CancelEditing(documents[kind])]
    BY DEF ClearSelection
  <2>2. \A kind \in Kinds : /\ DOMAIN documents'[kind] = DOMAIN NoDocument
                            /\ documents'[kind].loaded = documents[kind].loaded
                            /\ ~documents'[kind].editing /\ ~documents'[kind].saving
    <3>1. ASSUME NEW kind \in Kinds
          PROVE  /\ DOMAIN documents'[kind] = DOMAIN NoDocument
                 /\ documents'[kind].loaded = documents[kind].loaded
                 /\ documents'[kind].editing = FALSE /\ documents'[kind].saving = FALSE
      <4>1. DOMAIN documents[kind] = DOMAIN NoDocument
        BY DEF BucketInv, BucketShape
      <4>2. documents'[kind] = CancelEditing(documents[kind])
        BY <2>1
      <4> QED BY <4>1, <4>2, CancelFields
    <3> QED BY <3>1
  <2>3. DOMAIN documents' = Kinds /\ selection'.kind # "Bucket" /\ SameOf(BucketParts)
    BY <1>1, <1>2, <2>1 DEF None
  <2>4. \A kind \in Kinds : /\ DOMAIN documents'[kind] = DOMAIN NoDocument
                            /\ documents'[kind].loaded \in {documents[kind].loaded, Empty}
                            /\ documents'[kind].editing => documents[kind].editing
                            /\ documents'[kind].saving => documents[kind].saving
    BY <2>2
  <2> QED BY <1>1, <1>4, <2>3, <2>4, BucketLeft
<1>7. ListInv'
  BY <1>1, <1>2, ListFrame
<1> QED BY <1>2, <1>3, <1>5, <1>6, <1>7

\* SelectStep: something is selected.
LEMMA SelectStep ==
  ASSUME DetailsInv, Select
  PROVE  DetailsInv'
<1> USE DEF DetailsInv
<1>1. ASSUME NEW k \in Keys, SelectObject(k)
      PROVE  DetailsInv'
  <2>1. RequestsInv' /\ SelectionInv' /\ SameOf(NotOfObjects) /\ ObjectInv'
    BY <1>1, SelectObjectStep
  <2>2. SameOf(BucketParts) /\ SameOf(ListingParts)
    BY <2>1, SameOfFewer DEF NotOfObjects
  <2>3. /\ selection'.kind # "Bucket" /\ (restless => restless')
        /\ UNCHANGED <<selected_bucket, documents, bucket_tags, bucket_status, bucketTruth, list,
                       follow>>
    BY <1>1 DEF SelectObject, Selects, Object, bucketVars, listVars
  <2>4. BucketInv'
    <3>1. /\ DOMAIN documents' = Kinds
          /\ \A kind \in Kinds : DOMAIN documents'[kind] = DOMAIN NoDocument
      BY <2>3 DEF BucketInv, BucketShape
    <3> QED BY <2>2, <2>3, <3>1, BucketLeft
  <2>5. ListInv'
    BY <2>2, <2>3, ListFrame
  <2> QED BY <2>1, <2>4, <2>5
<1> QED BY <1>1, SelectBucketStep, NavigatePrefixStep, ClearSelectionStep DEF Select

-----------------------------------------------------------------------------
(* The panel of a bucket: edits *)

\* UpdateFields: one document changes.
LEMMA UpdateFields ==
  ASSUME DOMAIN documents = Kinds, NEW kind \in Kinds, NEW d, Update(kind, d)
  PROVE  /\ DOMAIN documents' = Kinds /\ documents'[kind] = d
         /\ \A k \in Kinds \ {kind} : documents'[k] = documents[k]
  BY DEF Update

\* BucketEdited: what an edit may do to the panel and the requests of the bucket selected.
BucketEdited(new) ==
  /\ Added(new)
  /\ \A r \in new : r.of = Here
  /\ DOMAIN documents' = Kinds
  /\ \A kind \in Kinds :
       /\ DOMAIN documents'[kind] = DOMAIN NoDocument
       /\ documents'[kind].loaded = documents[kind].loaded
       /\ documents'[kind].editing => opened'[kind] = selected_bucket
       /\ documents'[kind].saving => documents[kind].saving \/ UnderWay(kind, "save")'
  /\ DOMAIN opened' = Kinds
  /\ UNCHANGED <<bucket_tags, bucket_status, created>>

\* BucketEditedKeeps: such an edit keeps the panel right.
LEMMA BucketEditedKeeps ==
  ASSUME BucketInv, NEW new, BucketEdited(new),
         UNCHANGED <<selection, selected_bucket, follow, restless>>
  PROVE  BucketInv'
<1> USE DEF BucketInv
<1>1. Here' = Here /\ BucketShown' = BucketShown
  BY DEF Here, BucketShown
<1>2. BucketShape'
  <2>1. DOMAIN NoDocument' = DOMAIN NoDocument
    BY DEF NoDocument
  <2> QED BY <2>1 DEF BucketShape, BucketEdited
<1>3. BucketFollowed'
  BY DEF BucketFollowed, BucketEdited
<1>4. \A part, op : UnderWay(part, op) => UnderWay(part, op)'
  BY DEF UnderWay, BucketEdited, Added
<1>5. BucketWaits'
  BY <1>1, <1>4 DEF BucketWaits, BucketEdited
<1>6. ShownOfBucket'
  <2>1. ~restless => \A l \in DOMAIN requests' :
          requests'[l].part \in BucketParts => requests'[l].of = Here
    BY DEF ShownOfBucket, BucketEdited, Added
  <2> QED BY <1>1, <2>1 DEF ShownOfBucket, BucketEdited, OfHere
<1> QED BY <1>2, <1>3, <1>5, <1>6

\* BucketRequest: a request about the bucket selected, as an edit starts it.
LEMMA BucketRequest ==
  ASSUME RequestsInv, SelectionInv, BucketShown, follow' = follow,
         NEW part \in BucketParts, NEW op, NEW value,
         NEW new, new = {Request(part, op, Here, value)}, Start(new)
  PROVE  /\ \A r \in new : r.part = part /\ r.op = op /\ r.of = Here
         /\ Added(new)
         /\ part \in follow => UnderWay(part, op)'
<1>1. \A r \in new : r.part = part /\ r.op = op /\ r.of = Here
  BY DEF Request
<1>2. Suits(part, Here)
  BY BucketShownSuits, BucketSuits DEF Suits, ObjectParts, BucketParts, Kinds
<1>3. Added(new)
  BY <1>2, StartOne, part \notin {}
<1>4. part \in follow => UnderWay(part, op)'
  BY <1>1, <1>3 DEF Added, UnderWay
<1> QED BY <1>1, <1>3, <1>4

\* EditedDocument, SavingDocument, RefusedDocument: a document whose text is edited, saved,
\* or refused.
LEMMA EditedDocument ==
  ASSUME NEW d, DOMAIN d = DOMAIN NoDocument, NEW text
  PROVE  LET e == [d EXCEPT !.editor = text]
         IN  /\ DOMAIN e = DOMAIN NoDocument
             /\ e.loaded = d.loaded /\ e.editing = d.editing /\ e.saving = d.saving
<1>1. DOMAIN NoDocument = {"loaded", "editor", "editing", "saving", "error"}
  BY DEF NoDocument
<1> QED BY <1>1

\* SavingDocument: saving keeps what was loaded and the editor open.
LEMMA SavingDocument ==
  ASSUME NEW d, DOMAIN d = DOMAIN NoDocument, NEW text
  PROVE  LET e == [d EXCEPT !.error = FALSE, !.saving = TRUE, !.editor = text]
         IN  /\ DOMAIN e = DOMAIN NoDocument
             /\ e.loaded = d.loaded /\ e.editing = d.editing
<1>1. DOMAIN NoDocument = {"loaded", "editor", "editing", "saving", "error"}
  BY DEF NoDocument
<1> QED BY <1>1

\* RefusedDocument: a refused text changes nothing but the error.
LEMMA RefusedDocument ==
  ASSUME NEW d, DOMAIN d = DOMAIN NoDocument
  PROVE  LET e == [d EXCEPT !.error = TRUE]
         IN  /\ DOMAIN e = DOMAIN NoDocument
             /\ e.loaded = d.loaded /\ e.editing = d.editing /\ e.saving = d.saving
<1>1. DOMAIN NoDocument = {"loaded", "editor", "editing", "saving", "error"}
  BY DEF NoDocument
<1> QED BY <1>1

\* StartedDocument: an editor that is opened keeps what was loaded.
LEMMA StartedDocument ==
  ASSUME NEW d, DOMAIN d = DOMAIN NoDocument
  PROVE  LET e == StartEditing(d)
         IN  /\ DOMAIN e = DOMAIN NoDocument
             /\ e.loaded = d.loaded /\ e.saving = FALSE
<1>1. PICK text : StartEditing(d) = [ResetEditor(d, text) EXCEPT !.editing = TRUE]
  BY DEF StartEditing
<1>2. PICK c : c = ResetEditor(d, text)
  OBVIOUS
<1>3. DOMAIN c = DOMAIN NoDocument /\ c.loaded = d.loaded /\ c.saving = FALSE
  BY <1>2, ResetFields
<1>4. DOMAIN NoDocument = {"loaded", "editor", "editing", "saving", "error"}
  BY DEF NoDocument
<1>5. StartEditing(d) = [c EXCEPT !.editing = TRUE]
  BY <1>1, <1>2
<1> QED BY <1>3, <1>4, <1>5

\* NoneAdded: nothing is started.
LEMMA NoneAdded ==
  ASSUME UNCHANGED requests
  PROVE  Added({})
  BY DEF Added

\* BucketEditForm: every edit of a bucket's panel is such an edit.
LEMMA BucketEditForm ==
  ASSUME RequestsInv, SelectionInv, BucketInv, BucketEdit, UNCHANGED <<selected_bucket, follow>>
  PROVE  \E new : BucketEdited(new)
<1> DEFINE Goal == \E new : BucketEdited(new)
<1> SUFFICES Goal
  OBVIOUS
<1>1. /\ DOMAIN documents = Kinds /\ DOMAIN opened = Kinds
      /\ \A kind \in Kinds : /\ DOMAIN documents[kind] = DOMAIN NoDocument
                             /\ documents[kind].editing => opened[kind] = selected_bucket
  BY DEF BucketInv, BucketShape, ShownOfBucket
<1>2. ASSUME NEW new, Added(new), \A r \in new : r.of = Here,
             UNCHANGED <<documents, opened, bucket_tags, bucket_status, created>>
      PROVE  Goal
  <2>1. BucketEdited(new)
    BY <1>1, <1>2 DEF BucketEdited
  <2> QED BY <2>1
<1>3. ASSUME NEW kind \in Kinds, NEW d, Update(kind, d), NEW new, Added(new),
             \A r \in new : r.of = Here,
             DOMAIN d = DOMAIN NoDocument, d.loaded = documents[kind].loaded,
             d.editing => documents[kind].editing,
             d.saving => documents[kind].saving \/ UnderWay(kind, "save")',
             UNCHANGED <<opened, bucket_tags, bucket_status, created>>
      PROVE  Goal
  <2>1. /\ DOMAIN documents' = Kinds /\ documents'[kind] = d
        /\ \A k \in Kinds \ {kind} : documents'[k] = documents[k]
    BY <1>1, <1>3, UpdateFields
  <2>2. BucketEdited(new)
    BY <1>1, <1>3, <2>1 DEF BucketEdited
  <2> QED BY <2>2
<1> HIDE DEF Goal
<1>4. ASSUME NEW kind \in Kinds, OpenDocumentEditor(kind)
      PROVE  Goal
  <2>1. /\ DOMAIN documents' = Kinds
        /\ \A k \in Kinds : documents'[k] = IF k = kind THEN StartEditing(documents[k])
                                             ELSE CancelEditing(documents[k])
        /\ opened' = [opened EXCEPT ![kind] = selected_bucket]
        /\ UNCHANGED <<requests, bucket_tags, bucket_status, created>>
    BY <1>4 DEF OpenDocumentEditor
  <2>2. ASSUME NEW k \in Kinds
        PROVE  /\ DOMAIN documents'[k] = DOMAIN NoDocument
               /\ documents'[k].loaded = documents[k].loaded
               /\ documents'[k].editing => k = kind
               /\ documents'[k].saving = FALSE
    <3>1. CASE k = kind
      <4>1. PICK d : d = StartEditing(documents[k])
        OBVIOUS
      <4>2. DOMAIN d = DOMAIN NoDocument /\ d.loaded = documents[k].loaded /\ d.saving = FALSE
        BY <1>1, <4>1, StartedDocument
      <4>3. documents'[k] = d
        BY <2>1, <3>1, <4>1
      <4> QED BY <3>1, <4>2, <4>3
    <3>2. CASE k # kind
      <4>1. PICK d : d = CancelEditing(documents[k])
        OBVIOUS
      <4>2. /\ DOMAIN d = DOMAIN NoDocument /\ d.loaded = documents[k].loaded
            /\ d.saving = FALSE /\ d.editing = FALSE
        BY <1>1, <4>1, CancelFields
      <4>3. documents'[k] = d
        BY <2>1, <3>2, <4>1
      <4> QED BY <4>2, <4>3
    <3> QED BY <3>1, <3>2
  <2>3. opened'[kind] = selected_bucket /\ DOMAIN opened' = Kinds
    BY <1>1, <2>1
  <2>4. Added({})
    BY <2>1, NoneAdded
  <2>5. BucketEdited({})
    BY <2>1, <2>2, <2>3, <2>4 DEF BucketEdited
  <2> QED BY <2>5 DEF Goal
<1>5. ASSUME NEW kind \in Kinds, CancelDocumentEditor(kind)
      PROVE  Goal
  <2>1. PICK d : d = CancelEditing(documents[kind])
    OBVIOUS
  <2>2. /\ DOMAIN d = DOMAIN NoDocument /\ d.loaded = documents[kind].loaded
        /\ d.editing = FALSE /\ d.saving = FALSE
    BY <1>1, <2>1, CancelFields
  <2>3. /\ Update(kind, d) /\ Added({})
        /\ UNCHANGED <<opened, bucket_tags, bucket_status, created>>
    BY <1>5, <2>1, NoneAdded DEF CancelDocumentEditor, bucketTruth
  <2> QED BY <1>3, <2>2, <2>3
<1>6. ASSUME NEW kind \in Kinds, NEW text, DocumentEdited(kind, text)
      PROVE  Goal
  <2>1. PICK d : d = [documents[kind] EXCEPT !.editor = text]
    OBVIOUS
  <2>2. /\ DOMAIN d = DOMAIN NoDocument /\ d.loaded = documents[kind].loaded
        /\ d.editing = documents[kind].editing /\ d.saving = documents[kind].saving
    BY <1>1, <2>1, EditedDocument
  <2>3. /\ Update(kind, d) /\ Added({})
        /\ UNCHANGED <<opened, bucket_tags, bucket_status, created>>
    BY <1>6, <2>1, NoneAdded DEF DocumentEdited, bucketTruth
  <2> QED BY <1>3, <2>2, <2>3
<1>7. ASSUME NEW kind \in Kinds \intersect follow, SaveDocument(kind)
      PROVE  Goal
  <2> /\ BucketShown
      /\ UNCHANGED <<opened, bucket_tags, bucket_status, created>>
    BY <1>7 DEF SaveDocument
  <2>1. CASE documents[kind].editor \in DOMAIN Normal
    <3>1. PICK text : text = Normal[documents[kind].editor]
      OBVIOUS
    <3>2. PICK d : d = [documents[kind] EXCEPT !.error = FALSE, !.saving = TRUE, !.editor = text]
      OBVIOUS
    <3>3. PICK new : new = {Request(kind, "save", Here, text)}
      OBVIOUS
    <3>4. /\ DOMAIN d = DOMAIN NoDocument /\ d.loaded = documents[kind].loaded
          /\ d.editing = documents[kind].editing
      BY <1>1, <3>2, SavingDocument
    <3>5. Update(kind, d)
      BY <1>7, <2>1, <3>1, <3>2, Zenon DEF SaveDocument
    <3>6. Start(new)
      BY <1>7, <2>1, <3>1, <3>3 DEF SaveDocument
    <3>7. Added(new) /\ UnderWay(kind, "save")' /\ \A r \in new : r.of = Here
      BY <3>3, <3>5, <3>6, BucketRequest DEF BucketParts
    <3> QED BY <1>3, <3>4, <3>5, <3>7
  <2>2. CASE documents[kind].editor \notin DOMAIN Normal
    <3>1. PICK d : d = [documents[kind] EXCEPT !.error = TRUE]
      OBVIOUS
    <3>2. /\ DOMAIN d = DOMAIN NoDocument /\ d.loaded = documents[kind].loaded
          /\ d.editing = documents[kind].editing /\ d.saving = documents[kind].saving
      BY <1>1, <3>1, RefusedDocument
    <3>3. Update(kind, d)
      BY <1>7, <2>2, <3>1, Zenon DEF SaveDocument
    <3>4. Added({})
      BY <1>7, <2>2, NoneAdded DEF SaveDocument
    <3> QED BY <1>3, <3>2, <3>3, <3>4
  <2> QED BY <2>1, <2>2
<1>8. ASSUME NEW part \in BucketParts, NEW op, NEW value, BucketShown,
             NEW new, new = {Request(part, op, Here, value)}, Start(new),
             UNCHANGED <<documents, opened, bucket_tags, bucket_status, created>>
      PROVE  Goal
  <2>1. Added(new) /\ \A r \in new : r.of = Here
    BY <1>8, BucketRequest
  <2> QED BY <1>2, <1>8, <2>1
<1>9. ASSUME NEW kind \in Kinds, DeleteDocument(kind)
      PROVE  Goal
  <2>1. /\ BucketShown /\ Start({Request(kind, "delete", Here, NoText)})
        /\ UNCHANGED <<documents, opened, bucket_tags, bucket_status, created>>
    BY <1>9 DEF DeleteDocument
  <2> QED BY <1>8, <2>1 DEF BucketParts
<1>10. ASSUME NEW t, AddBucketTag(t) \/ RemoveBucketTag(t)
       PROVE  Goal
  <2>1. PICK set : SaveBucketTags(set) /\ BucketShown
    BY <1>10 DEF AddBucketTag, RemoveBucketTag
  <2>2. /\ Start({Request("bucket_tags", "save", Here, set)})
        /\ UNCHANGED <<documents, opened, bucket_tags, bucket_status, created>>
    BY <2>1 DEF SaveBucketTags
  <2> QED BY <1>8, <2>1, <2>2 DEF BucketParts
<1>11. ASSUME NEW status, ToggleVersioning(status)
       PROVE  Goal
  <2>1. /\ BucketShown /\ Start({Request("versioning", "save", Here, status)})
        /\ UNCHANGED <<documents, opened, bucket_tags, bucket_status, created>>
    BY <1>11 DEF ToggleVersioning, bucketVars, bucketTruth
  <2> QED BY <1>8, <2>1 DEF BucketParts
<1> QED BY <1>4, <1>5, <1>6, <1>7, <1>9, <1>10, <1>11 DEF BucketEdit

\* BucketEditStep: an edit of a bucket's panel.
LEMMA BucketEditStep ==
  ASSUME RequestsInv, SelectionInv, BucketInv, BucketEdit,
         UNCHANGED <<selection, selected_bucket, follow, restless>>
  PROVE  BucketInv'
  BY BucketEditForm, BucketEditedKeeps

-----------------------------------------------------------------------------
(* The panel of a bucket: answers and the server *)

\* Filled: an answer about a part may fill what is shown of it; that to a load does.
Filled(i, part, old, answer) ==
  \/ answer = old /\ ~(requests[i].part = part /\ requests[i].op = "load")
  \/ requests[i].part = part /\ answer.of = requests[i].of /\ answer.is # "None"

\* BucketAnswered: what an answer may do to the panel and the requests.
BucketAnswered(i, new) ==
  /\ Replaced(i, new)
  /\ \A r \in new : r.of = Here
  /\ DOMAIN documents' = Kinds
  /\ \A kind \in Kinds :
       /\ DOMAIN documents'[kind] = DOMAIN NoDocument
       /\ documents'[kind].editing => documents[kind].editing
       /\ documents'[kind].saving =>
            documents[kind].saving /\ ~(requests[i].part = kind /\ requests[i].op = "save")
       /\ Filled(i, kind, documents[kind].loaded, documents'[kind].loaded)
  /\ Filled(i, "bucket_tags", bucket_tags, bucket_tags')
  /\ DOMAIN bucket_status' = {"versioning", "ftt"}
  /\ \A part \in {"versioning", "ftt"} : Filled(i, part, bucket_status[part], bucket_status'[part])
  /\ UNCHANGED <<opened, created>>

\* BucketAnsweredKeeps: such an answer keeps the panel right.
LEMMA BucketAnsweredKeeps ==
  ASSUME RequestsInv, BucketInv, NEW i \in DOMAIN requests, NEW new, BucketAnswered(i, new),
         UNCHANGED <<selection, selected_bucket, follow, restless>>
  PROVE  BucketInv'
<1> USE DEF BucketInv
<1>1. Here' = Here /\ BucketShown' = BucketShown
  BY DEF Here, BucketShown
<1>2. BucketShape'
  <2>1. DOMAIN NoDocument' = DOMAIN NoDocument
    BY DEF NoDocument
  <2> QED BY <2>1 DEF BucketShape, BucketAnswered
<1>3. requests[i].part \in follow
  BY DEF RequestsInv
<1>4. BucketFollowed'
  BY <1>3 DEF BucketFollowed, BucketAnswered, Filled
<1>5. \A part, op : UnderWay(part, op) /\ ~(requests[i].part = part /\ requests[i].op = op) =>
        UnderWay(part, op)'
  BY StillAwaited DEF BucketAnswered
<1>6. BucketWaits'
  <2>1. \A kind \in Kinds : documents'[kind].saving => UnderWay(kind, "save")'
    BY <1>5 DEF BucketWaits, BucketAnswered
  <2>2. ASSUME BucketShown, ~created
        PROVE  \A kind \in Kinds \intersect follow :
                 documents'[kind].loaded.is = "None" => UnderWay(kind, "load")'
    BY <1>5, <2>2 DEF BucketWaits, BucketAnswered, Filled
  <2>3. ASSUME BucketShown, ~created, "bucket_tags" \in follow, bucket_tags'.is = "None"
        PROVE  UnderWay("bucket_tags", "load")'
    BY <1>5, <2>3 DEF BucketWaits, BucketAnswered, Filled
  <2>4. ASSUME BucketShown, ~created, "ftt" \in follow, bucket_status'["ftt"].is = "None"
        PROVE  UnderWay("ftt", "load")'
    BY <1>5, <2>4 DEF BucketWaits, BucketAnswered, Filled
  <2>5. created' = created
    BY DEF BucketAnswered
  <2> QED BY <1>1, <2>1, <2>2, <2>3, <2>4, <2>5 DEF BucketWaits
<1>7. ShownOfBucket'
  <2>1. ~restless => \A l \in DOMAIN requests' :
          requests'[l].part \in BucketParts => requests'[l].of = Here
    BY DEF ShownOfBucket, BucketAnswered, Replaced
  <2>2. ~restless /\ requests[i].part \in BucketParts => requests[i].of = Here
    BY DEF ShownOfBucket
  <2>3. ~restless /\ BucketShown => \A kind \in Kinds : OfHere(documents'[kind].loaded)
    BY <2>2 DEF ShownOfBucket, BucketAnswered, Filled, OfHere, BucketParts
  <2>4. ~restless /\ BucketShown =>
          created \/ (OfHere(bucket_tags') /\ OfHere(bucket_status'["ftt"]))
    BY <2>2 DEF ShownOfBucket, BucketAnswered, Filled, OfHere, BucketParts
  <2>5. \A kind \in Kinds : documents'[kind].editing => opened'[kind] = selected_bucket
    BY DEF ShownOfBucket, BucketAnswered
  <2>6. created' = created
    BY DEF BucketAnswered
  <2> QED BY <1>1, <2>1, <2>3, <2>4, <2>5, <2>6 DEF ShownOfBucket, OfHere
<1> QED BY <1>2, <1>4, <1>6, <1>7

\* SetLoadedFields, FailedDocument: a document that arrived, or could not be saved.
LEMMA SetLoadedFields ==
  ASSUME NEW d, DOMAIN d = DOMAIN NoDocument, NEW loaded
  PROVE  LET e == SetLoaded(d, loaded)
         IN  /\ DOMAIN e = DOMAIN NoDocument
             /\ e.loaded = loaded /\ e.editing = d.editing /\ e.saving = FALSE
<1>1. DOMAIN NoDocument = {"loaded", "editor", "editing", "saving", "error"}
  BY DEF NoDocument
<1>2. PICK text : SetLoaded(d, loaded) = [d EXCEPT !.loaded = loaded, !.saving = FALSE,
                                                   !.error = FALSE, !.editor = text]
  BY Zenon DEF SetLoaded
<1> QED BY <1>1, <1>2

\* FailedDocument: a failed save keeps the editor open.
LEMMA FailedDocument ==
  ASSUME NEW d, DOMAIN d = DOMAIN NoDocument
  PROVE  LET e == [d EXCEPT !.saving = FALSE, !.error = TRUE]
         IN  /\ DOMAIN e = DOMAIN NoDocument
             /\ e.loaded = d.loaded /\ e.editing = d.editing /\ e.saving = FALSE
<1>1. DOMAIN NoDocument = {"loaded", "editor", "editing", "saving", "error"}
  BY DEF NoDocument
<1> QED BY <1>1

\* HereLoaded: a load of what is selected, started in the place of an answer.
LEMMA HereLoaded ==
  ASSUME RequestsInv, SelectionInv, NEW i \in DOMAIN requests, follow' = follow,
         requests[i].part # "bucket", NEW part \in BucketParts,
         NEW new, new = {Load(part, Here)}, Handled(i, new)
  PROVE  Replaced(i, new) /\ \A r \in new : r.of = Here
<1>1. selected_bucket # NoBucket
  BY DEF SelectionInv, Grounded
<1>2. Suits(part, Here)
  BY <1>1, BucketSuits DEF Suits, ObjectParts, BucketParts, Kinds
<1>3. Replaced(i, new)
  BY <1>2, HandledOne, part \notin {}, requests[i].part \notin {}
<1>4. \A r \in new : r.of = Here
  BY DEF Load, Request
<1> QED BY <1>3, <1>4

\* BucketMessageStep: an answer for a bucket's panel.
LEMMA BucketMessageStep ==
  ASSUME RequestsInv, SelectionInv, BucketInv, NEW i \in DOMAIN requests, BucketMessage(i),
         UNCHANGED <<selection, selected_bucket, follow, restless>>
  PROVE  BucketInv'
<1> DEFINE Goal == \E new : BucketAnswered(i, new)
<1> SUFFICES Goal
  BY BucketAnsweredKeeps
<1>1. /\ DOMAIN documents = Kinds /\ DOMAIN bucket_status = {"versioning", "ftt"}
      /\ \A kind \in Kinds : DOMAIN documents[kind] = DOMAIN NoDocument
  BY DEF BucketInv, BucketShape
<1>2. requests[i].part \in BucketParts /\ requests[i].part # "bucket"
  BY BucketMessageRequests DEF BucketParts, Kinds
<1>3. ASSUME NEW kind \in Kinds, NEW d, Update(kind, d), NEW new, Replaced(i, new),
             \A r \in new : r.of = Here,
             DOMAIN d = DOMAIN NoDocument,
             requests[i].part = kind,
             d.editing => documents[kind].editing,
             d.saving = FALSE,
             Filled(i, kind, documents[kind].loaded, d.loaded),
             UNCHANGED <<opened, bucket_tags, bucket_status, created>>
      PROVE  Goal
  <2>1. /\ DOMAIN documents' = Kinds /\ documents'[kind] = d
        /\ \A k \in Kinds \ {kind} : documents'[k] = documents[k]
    BY <1>1, <1>3, UpdateFields
  <2>2. ASSUME NEW k \in Kinds
        PROVE  /\ DOMAIN documents'[k] = DOMAIN NoDocument
               /\ documents'[k].editing => documents[k].editing
               /\ documents'[k].saving =>
                    documents[k].saving /\ ~(requests[i].part = k /\ requests[i].op = "save")
               /\ Filled(i, k, documents[k].loaded, documents'[k].loaded)
    <3>1. CASE k = kind
      BY <1>3, <2>1, <3>1
    <3>2. CASE k # kind
      BY <1>1, <1>3, <2>1, <3>2 DEF Filled
    <3> QED BY <3>1, <3>2
  <2>3. \A part \in {"bucket_tags", "versioning", "ftt"} : requests[i].part # part
    BY <1>3 DEF Kinds
  <2>4. BucketAnswered(i, new)
    BY <1>1, <1>3, <2>1, <2>2, <2>3 DEF BucketAnswered, Filled
  <2> QED BY <2>4
<1>4. ASSUME NEW new, Replaced(i, new), \A r \in new : r.of = Here,
             requests[i].part \in {"bucket_tags", "versioning", "ftt"},
             DOMAIN bucket_status' = {"versioning", "ftt"},
             Filled(i, "bucket_tags", bucket_tags, bucket_tags'),
             \A part \in {"versioning", "ftt"} :
               Filled(i, part, bucket_status[part], bucket_status'[part]),
             UNCHANGED <<documents, opened, created>>
      PROVE  Goal
  <2>1. \A kind \in Kinds : requests[i].part # kind
    BY <1>4 DEF Kinds
  <2>2. BucketAnswered(i, new)
    BY <1>1, <1>4, <2>1 DEF BucketAnswered, Filled
  <2> QED BY <2>2
<1>5. ASSUME Handled(i, {})
      PROVE  \E new : Replaced(i, new) /\ \A r \in new : r.of = Here
  <2>1. Replaced(i, {})
    BY <1>5, HandledNone, requests[i].part \notin {}
  <2> QED BY <2>1
<1>6. PICK answer : answer = Answer(requests[i])
  OBVIOUS
<1>7. answer.of = requests[i].of /\ answer.is # "None"
  BY <1>6 DEF Answer
<1> HIDE DEF Goal
<1>8. ASSUME NEW kind \in Kinds, DocumentLoaded(kind, i)
      PROVE  Goal
  <2>1. PICK d : d = SetLoaded(documents[kind], answer)
    OBVIOUS
  <2>2. /\ DOMAIN d = DOMAIN NoDocument /\ d.loaded = answer
        /\ d.editing = documents[kind].editing /\ d.saving = FALSE
    BY <1>1, <2>1, SetLoadedFields
  <2>3. /\ Update(kind, d) /\ requests[i].part = kind /\ Handled(i, {})
        /\ UNCHANGED <<opened, bucket_tags, bucket_status, created>>
    BY <1>6, <1>8, <2>1 DEF DocumentLoaded, Delivered, bucketTruth
  <2>4. Filled(i, kind, documents[kind].loaded, d.loaded)
    BY <1>7, <2>2, <2>3 DEF Filled
  <2>5. PICK new : Replaced(i, new) /\ \A r \in new : r.of = Here
    BY <1>5, <2>3
  <2> QED BY <1>3, <2>2, <2>3, <2>4, <2>5
<1>9. ASSUME NEW kind \in Kinds, DocumentDeleted(kind, i)
      PROVE  Goal
  <2>1. /\ requests[i].part = kind /\ requests[i].op = "delete" /\ Handled(i, {})
        /\ UNCHANGED <<opened, bucket_tags, bucket_status, created>>
    BY <1>9 DEF DocumentDeleted, Delivered, bucketTruth
  <2>2. CASE requests[i].ok
    <3>1. PICK loaded : loaded = [answer EXCEPT !.value = NoText]
      OBVIOUS
    <3>2. loaded.of = requests[i].of /\ loaded.is # "None"
      <4>1. DOMAIN answer = {"is", "of", "value"}
        BY <1>6 DEF Answer
      <4> QED BY <1>7, <3>1, <4>1
    <3>3. PICK d : d = SetLoaded(documents[kind], loaded)
      OBVIOUS
    <3>4. /\ DOMAIN d = DOMAIN NoDocument /\ d.loaded = loaded
          /\ d.editing = documents[kind].editing /\ d.saving = FALSE
      BY <1>1, <3>3, SetLoadedFields
    <3>5. Update(kind, d)
      BY <1>6, <1>9, <2>2, <3>1, <3>3, Zenon DEF DocumentDeleted
    <3>6. Filled(i, kind, documents[kind].loaded, d.loaded)
      BY <2>1, <3>2, <3>4 DEF Filled
    <3>7. PICK new : Replaced(i, new) /\ \A r \in new : r.of = Here
      BY <1>5, <2>1
    <3> QED BY <1>3, <2>1, <3>4, <3>5, <3>6, <3>7
  <2>3. CASE ~requests[i].ok
    <3>1. PICK d : d = [documents[kind] EXCEPT !.saving = FALSE, !.error = TRUE]
      OBVIOUS
    <3>2. /\ DOMAIN d = DOMAIN NoDocument /\ d.loaded = documents[kind].loaded
          /\ d.editing = documents[kind].editing /\ d.saving = FALSE
      BY <1>1, <3>1, FailedDocument
    <3>3. Update(kind, d)
      BY <1>9, <2>3, <3>1, Zenon DEF DocumentDeleted
    <3>4. Filled(i, kind, documents[kind].loaded, d.loaded)
      BY <2>1, <3>2 DEF Filled
    <3>5. PICK new : Replaced(i, new) /\ \A r \in new : r.of = Here
      BY <1>5, <2>1
    <3> QED BY <1>3, <2>1, <3>2, <3>3, <3>4, <3>5
  <2> QED BY <2>2, <2>3
<1>10. ASSUME NEW kind \in Kinds, DocumentSaved(kind, i)
       PROVE  Goal
  <2>1. /\ requests[i].part = kind /\ requests[i].op = "save"
        /\ UNCHANGED <<opened, bucket_tags, bucket_status, created>>
    BY <1>10 DEF DocumentSaved, Delivered, bucketTruth
  <2>2. CASE requests[i].ok
    <3>1. PICK d : d = CancelEditing(documents[kind])
      OBVIOUS
    <3>2. /\ DOMAIN d = DOMAIN NoDocument /\ d.loaded = documents[kind].loaded
          /\ d.editing = FALSE /\ d.saving = FALSE
      BY <1>1, <3>1, CancelFields
    <3>3. PICK new : new = {Load(kind, Here)}
      OBVIOUS
    <3>4. Update(kind, d)
      BY <1>10, <2>2, <3>1, Zenon DEF DocumentSaved
    <3>5. Handled(i, new)
      BY <1>10, <2>2, <3>3, Zenon DEF DocumentSaved
    <3>6. Replaced(i, new) /\ \A r \in new : r.of = Here
      BY <1>2, <3>3, <3>5, HereLoaded DEF BucketParts
    <3>7. Filled(i, kind, documents[kind].loaded, d.loaded)
      BY <2>1, <3>2 DEF Filled
    <3> QED BY <1>3, <2>1, <3>2, <3>4, <3>6, <3>7
  <2>3. CASE ~requests[i].ok
    <3>1. PICK d : d = [documents[kind] EXCEPT !.saving = FALSE, !.error = TRUE]
      OBVIOUS
    <3>2. /\ DOMAIN d = DOMAIN NoDocument /\ d.loaded = documents[kind].loaded
          /\ d.editing = documents[kind].editing /\ d.saving = FALSE
      BY <1>1, <3>1, FailedDocument
    <3>3. Update(kind, d)
      BY <1>10, <2>3, <3>1, Zenon DEF DocumentSaved
    <3>4. Handled(i, {})
      BY <1>10, <2>3, Zenon DEF DocumentSaved
    <3>5. Filled(i, kind, documents[kind].loaded, d.loaded)
      BY <2>1, <3>2 DEF Filled
    <3>6. PICK new : Replaced(i, new) /\ \A r \in new : r.of = Here
      BY <1>5, <3>4
    <3> QED BY <1>3, <2>1, <3>2, <3>3, <3>5, <3>6
  <2> QED BY <2>2, <2>3
<1>11. ASSUME NEW part \in {"bucket_tags", "versioning"}, requests[i].part = part,
              requests[i].op = "save",
              Handled(i, IF requests[i].ok THEN {Load(part, Here)} ELSE {}),
              UNCHANGED bucketVars
       PROVE  Goal
  <2>1. PICK new : /\ Handled(i, new)
                   /\ new = {Load(part, Here)} \/ new = {}
    BY <1>11
  <2>2. \E more : Replaced(i, more) /\ \A r \in more : r.of = Here
    <3>1. CASE new = {Load(part, Here)}
      <4>1. part \in BucketParts
        BY DEF BucketParts
      <4> QED BY <1>2, <2>1, <3>1, <4>1, HereLoaded
    <3>2. CASE new = {}
      BY <1>5, <2>1, <3>2
    <3> QED BY <2>1, <3>1, <3>2
  <2>3. \A p \in {"bucket_tags", "versioning", "ftt"} : \A old : Filled(i, p, old, old)
    BY <1>11 DEF Filled
  <2>4. UNCHANGED <<documents, opened, created, bucket_tags, bucket_status>>
    BY <1>11 DEF bucketVars, bucketTruth
  <2> QED BY <1>1, <1>4, <1>11, <2>2, <2>3, <2>4
<1>12. CASE BucketTagsSaved(i)
  BY <1>11, <1>12 DEF BucketTagsSaved, Delivered
<1>13. CASE VersioningToggled(i)
  BY <1>11, <1>13 DEF VersioningToggled, Delivered
<1>14. CASE BucketTagsLoaded(i)
  <2>1. /\ requests[i].part = "bucket_tags" /\ bucket_tags' = answer /\ Handled(i, {})
        /\ UNCHANGED <<documents, bucket_status, opened, created>>
    BY <1>6, <1>14 DEF BucketTagsLoaded, Delivered, bucketTruth
  <2>2. /\ Filled(i, "bucket_tags", bucket_tags, bucket_tags')
        /\ \A part \in {"versioning", "ftt"} :
             Filled(i, part, bucket_status[part], bucket_status'[part])
    BY <1>7, <2>1 DEF Filled
  <2>3. PICK new : Replaced(i, new) /\ \A r \in new : r.of = Here
    BY <1>5, <2>1
  <2> QED BY <1>1, <1>4, <2>1, <2>2, <2>3
<1>15. CASE BucketStatusLoaded(i)
  <2>1. PICK part \in {"versioning", "ftt"} :
          /\ requests[i].part = part /\ Handled(i, {})
          /\ bucket_status' = [bucket_status EXCEPT ![part] = answer]
          /\ UNCHANGED <<documents, bucket_tags, opened, created>>
    BY <1>6, <1>15 DEF BucketStatusLoaded, Delivered, bucketTruth
  <2>2. /\ DOMAIN bucket_status' = {"versioning", "ftt"} /\ bucket_status'[part] = answer
        /\ \A p \in {"versioning", "ftt"} \ {part} : bucket_status'[p] = bucket_status[p]
    BY <1>1, <2>1
  <2>3. /\ Filled(i, "bucket_tags", bucket_tags, bucket_tags')
        /\ \A p \in {"versioning", "ftt"} : Filled(i, p, bucket_status[p], bucket_status'[p])
    BY <1>7, <2>1, <2>2 DEF Filled
  <2>4. PICK new : Replaced(i, new) /\ \A r \in new : r.of = Here
    BY <1>5, <2>1
  <2> QED BY <1>4, <2>1, <2>2, <2>3, <2>4
<1> QED BY <1>8, <1>9, <1>10, <1>12, <1>13, <1>14, <1>15 DEF BucketMessage

\* ServeBucketStep: a request of a bucket's panel is served.
LEMMA ServeBucketStep ==
  ASSUME BucketInv, NEW i \in DOMAIN requests, ServeBucket(i), ServedOnly(i),
         UNCHANGED <<selection, selected_bucket, follow, restless>>
  PROVE  BucketInv'
<1> USE DEF BucketInv
<1>1. UNCHANGED <<documents, bucket_tags, bucket_status, opened, created>>
  BY DEF ServeBucket, ServeBucketLoad, ServeDocument, ServeBucketTags, ServeVersioning,
         bucketVars, bucketTruth
<1>2. /\ DOMAIN requests' = DOMAIN requests
      /\ \A j \in DOMAIN requests : /\ requests'[j].part = requests[j].part
                                    /\ requests'[j].op = requests[j].op
                                    /\ requests'[j].of = requests[j].of
  BY DEF ServedOnly
<1>3. Here' = Here /\ BucketShown' = BucketShown
  BY DEF Here, BucketShown
<1>4. BucketShape'
  <2>1. DOMAIN NoDocument' = DOMAIN NoDocument
    BY DEF NoDocument
  <2> QED BY <1>1, <2>1 DEF BucketShape
<1>5. BucketFollowed'
  BY <1>1 DEF BucketFollowed
<1>6. \A part, op : UnderWay(part, op) => UnderWay(part, op)'
  BY <1>2 DEF UnderWay
<1>7. BucketWaits'
  BY <1>1, <1>3, <1>6 DEF BucketWaits
<1>8. ShownOfBucket'
  BY <1>1, <1>2, <1>3 DEF ShownOfBucket, OfHere
<1> QED BY <1>4, <1>5, <1>7, <1>8

-----------------------------------------------------------------------------
(* The list: edits, answers and the server *)

\* OneAdded: one request is started.
LEMMA OneAdded ==
  ASSUME RequestsInv, NEW part, NEW op, NEW of, NEW value,
         NEW new, new = {Request(part, op, of, value)}, Start(new)
  PROVE  /\ part \in follow => UnderWay(part, op)'
         /\ \A p, o : UnderWay(p, o) => UnderWay(p, o)'
<1>1. IsFiniteSet(new)
  BY FS_Singleton
<1>2. Added(new)
  BY <1>1, StartAdds DEF RequestsInv
<1>3. \A r \in new : r.part = part /\ r.op = op
  BY DEF Request
<1>4. part \in follow => UnderWay(part, op)'
  BY <1>2, <1>3 DEF Added, UnderWay
<1>5. \A p, o : UnderWay(p, o) => UnderWay(p, o)'
  BY <1>2 DEF Added, UnderWay
<1> QED BY <1>4, <1>5

\* ListKept: what a step that follows no folder does to the list.
ListKept ==
  /\ DOMAIN list' = DOMAIN NoList
  /\ list'.current_prefix = list.current_prefix
  /\ list'.loading_objects => UnderWay("objects", "load")'
  /\ list'.finding => UnderWay("find", "load")'

\* ListKeptKeeps: such a list stays right.
LEMMA ListKeptKeeps ==
  ASSUME ListInv, ListKept
  PROVE  ListInv'
<1>1. DOMAIN NoList' = DOMAIN NoList
  BY DEF NoList
<1> QED BY <1>1 DEF ListInv, ListShape, ListWaits, ListKept

\* ListEditStep: an edit of the list, or a command about an object or a bucket.
LEMMA ListEditStep ==
  ASSUME RequestsInv, ListInv, ListEdit, UNCHANGED <<selected_bucket, follow>>
  PROVE  ListInv'
<1> SUFFICES ListKept
  BY ListKeptKeeps
<1>1. /\ DOMAIN list = DOMAIN NoList
      /\ list.loading_objects => UnderWay("objects", "load")
      /\ list.finding => UnderWay("find", "load")
  BY DEF ListInv, ListShape, ListWaits
<1>2. DOMAIN NoList = {"objects", "loading_objects", "find_results", "finding", "selected_keys",
                       "current_prefix", "object_filter"}
  BY DEF NoList
<1>3. ASSUME \A p, o : UnderWay(p, o) => UnderWay(p, o)', DOMAIN list' = DOMAIN list,
             list'.current_prefix = list.current_prefix,
             list'.loading_objects = list.loading_objects, list'.finding = list.finding
      PROVE  ListKept
  BY <1>1, <1>3 DEF ListKept
<1>4. ASSUME UNCHANGED requests
      PROVE  \A p, o : UnderWay(p, o) => UnderWay(p, o)'
  BY <1>4 DEF UnderWay
<1>5. ASSUME NEW part, NEW op, NEW of, NEW value, Start({Request(part, op, of, value)}),
             UNCHANGED list
      PROVE  ListKept
  <2>1. \A p, o : UnderWay(p, o) => UnderWay(p, o)'
    BY <1>5, OneAdded
  <2> QED BY <1>3, <1>5, <2>1
<1>6. CASE "objects" \in follow /\ Refresh
  <2>1. PICK l : l = [list EXCEPT !.find_results = Empty, !.selected_keys = {}]
    OBVIOUS
  <2>2. /\ DOMAIN l = DOMAIN NoList /\ l.current_prefix = list.current_prefix
        /\ l.finding = list.finding
    BY <1>1, <1>2, <2>1
  <2>3. list' = Loading(l) /\ Start({FetchObjects})
    BY <1>6, <2>1 DEF Refresh
  <2>4. /\ DOMAIN list' = DOMAIN NoList /\ list'.current_prefix = l.current_prefix
        /\ list'.finding = l.finding
    BY <2>2, <2>3, LoadingFields
  <2>5. /\ UnderWay("objects", "load")'
        /\ \A p, o : UnderWay(p, o) => UnderWay(p, o)'
    BY <1>6, <2>3, OneAdded DEF FetchObjects, Load
  <2> QED BY <1>1, <2>2, <2>4, <2>5 DEF ListKept
<1>7. CASE "find" \in follow /\ Find
  <2>1. list' = [list EXCEPT !.finding = TRUE, !.find_results = Empty]
    BY <1>7 DEF Find
  <2>2. /\ DOMAIN list' = DOMAIN list /\ list'.current_prefix = list.current_prefix
        /\ list'.loading_objects = list.loading_objects
    BY <1>1, <1>2, <2>1
  <2>3. Start({Request("find", "load", HereIn(list.current_prefix), list.object_filter)})
    BY <1>7 DEF Find
  <2>4. /\ UnderWay("find", "load")'
        /\ \A p, o : UnderWay(p, o) => UnderWay(p, o)'
    BY <1>7, <2>3, OneAdded
  <2> QED BY <1>1, <2>2, <2>4 DEF ListKept
<1>8. CASE ClearFind
  <2>1. list' = [list EXCEPT !.find_results = Empty, !.selected_keys = {}] /\ UNCHANGED requests
    BY <1>8 DEF ClearFind
  <2> QED BY <1>1, <1>2, <1>3, <1>4, <2>1
<1>9. ASSUME NEW f, ObjectFilterChanged(f)
      PROVE  ListKept
  <2>1. list' = [list EXCEPT !.object_filter = f] /\ UNCHANGED requests
    BY <1>9 DEF ObjectFilterChanged
  <2> QED BY <1>1, <1>2, <1>3, <1>4, <2>1
<1>10. ASSUME NEW set, list' = [list EXCEPT !.selected_keys = set], UNCHANGED requests
       PROVE  ListKept
  BY <1>1, <1>2, <1>3, <1>4, <1>10
<1>11. CASE SelectAllObjects
  <2>1. \E set : list' = [list EXCEPT !.selected_keys = set]
    BY <1>11 DEF SelectAllObjects
  <2>2. UNCHANGED requests
    BY <1>11 DEF SelectAllObjects
  <2> QED BY <1>10, <2>1, <2>2
<1>12. CASE ClearObjectSelection
  BY <1>10, <1>12 DEF ClearObjectSelection
<1>13. ASSUME NEW k, ToggleObjectSelected(k)
       PROVE  ListKept
  <2>1. \E set : list' = [list EXCEPT !.selected_keys = set]
    BY <1>13 DEF ToggleObjectSelected
  <2>2. UNCHANGED requests
    BY <1>13 DEF ToggleObjectSelected
  <2> QED BY <1>10, <2>1, <2>2
<1>14. CASE DeleteObject
  BY <1>5, <1>14 DEF DeleteObject, listVars
<1>15. ASSUME NEW k, Upload(k)
       PROVE  ListKept
  BY <1>5, <1>15 DEF Upload, listVars
<1>16. ASSUME NEW b, CreateBucket(b)
       PROVE  ListKept
  BY <1>5, <1>16 DEF CreateBucket, listVars
<1> QED BY <1>6, <1>7, <1>8, <1>9, <1>11, <1>12, <1>13, <1>14, <1>15, <1>16 DEF ListEdit

\* ListMessageStep: an answer for the list.
LEMMA ListMessageStep ==
  ASSUME RequestsInv, SelectionInv, ListInv, NEW i \in DOMAIN requests, ListMessage(i),
         UNCHANGED <<selected_bucket, follow>>
  PROVE  ListInv'
<1> SUFFICES ListKept
  BY ListKeptKeeps
<1>1. /\ DOMAIN list = DOMAIN NoList
      /\ list.loading_objects => UnderWay("objects", "load")
      /\ list.finding => UnderWay("find", "load")
  BY DEF ListInv, ListShape, ListWaits
<1>2. DOMAIN NoList = {"objects", "loading_objects", "find_results", "finding", "selected_keys",
                       "current_prefix", "object_filter"}
  BY DEF NoList
<1>3. ASSUME NEW new, IsFiniteSet(new), Handled(i, new)
      PROVE  /\ \A part, op : UnderWay(part, op) /\ requests[i].part # part => UnderWay(part, op)'
             /\ \A r \in new : r.part \in follow => UnderWay(r.part, r.op)'
  <2>1. Replaced(i, new)
    BY <1>3, HandledReplaces DEF RequestsInv
  <2> QED BY <2>1, StillAwaited DEF Replaced, UnderWay
<1>4. IsFiniteSet({})
  BY FS_EmptySet
<1>5. PICK answer : answer = Answer(requests[i])
  OBVIOUS
<1>6. CASE ObjectsLoaded(i)
  <2>1. list' = [list EXCEPT !.loading_objects = FALSE, !.objects = answer]
    BY <1>5, <1>6 DEF ObjectsLoaded
  <2>2. /\ DOMAIN list' = DOMAIN list /\ list'.current_prefix = list.current_prefix
        /\ list'.loading_objects = FALSE /\ list'.finding = list.finding
    BY <1>1, <1>2, <2>1
  <2>3. requests[i].part = "objects" /\ Handled(i, {})
    BY <1>6 DEF ObjectsLoaded, Delivered
  <2>4. UnderWay("find", "load") => UnderWay("find", "load")'
    BY <1>3, <1>4, <2>3
  <2> QED BY <1>1, <2>2, <2>4 DEF ListKept
<1>7. CASE FindComplete(i)
  <2>1. list' = [list EXCEPT !.finding = FALSE, !.find_results = answer]
    BY <1>5, <1>7 DEF FindComplete
  <2>2. /\ DOMAIN list' = DOMAIN list /\ list'.current_prefix = list.current_prefix
        /\ list'.loading_objects = list.loading_objects /\ list'.finding = FALSE
    BY <1>1, <1>2, <2>1
  <2>3. requests[i].part = "find" /\ Handled(i, {})
    BY <1>7 DEF FindComplete, Delivered
  <2>4. UnderWay("objects", "load") => UnderWay("objects", "load")'
    BY <1>3, <1>4, <2>3
  <2> QED BY <1>1, <2>2, <2>4 DEF ListKept
<1>8. CASE UploadDone(i) /\ requests[i].ok
  <2>1. PICK new : new = {Load("objects", HereIn(list.current_prefix))}
    OBVIOUS
  <2>2. /\ requests[i].part = "object" /\ list' = Loading(list) /\ Handled(i, new)
    BY <1>8, <2>1 DEF UploadDone, Delivered, FetchObjects
  <2>3. /\ DOMAIN list' = DOMAIN NoList /\ list'.current_prefix = list.current_prefix
        /\ list'.finding = list.finding /\ (list'.loading_objects <=> "objects" \in follow)
    BY <1>1, <2>2, LoadingFields
  <2>4. \E r \in new : r.part = "objects" /\ r.op = "load"
    BY <2>1 DEF Load, Request
  <2>5. IsFiniteSet(new)
    BY <2>1, FS_Singleton
  <2>6. /\ UnderWay("find", "load") => UnderWay("find", "load")'
        /\ "objects" \in follow => UnderWay("objects", "load")'
    BY <1>3, <2>2, <2>4, <2>5
  <2> QED BY <1>1, <2>3, <2>6 DEF ListKept
<1>9. CASE UploadDone(i) /\ ~requests[i].ok
  <2>1. requests[i].part = "object" /\ UNCHANGED list /\ Handled(i, {})
    BY <1>9 DEF UploadDone, Delivered
  <2>2. /\ UnderWay("find", "load") => UnderWay("find", "load")'
        /\ UnderWay("objects", "load") => UnderWay("objects", "load")'
    BY <1>3, <1>4, <2>1
  <2> QED BY <1>1, <2>1, <2>2 DEF ListKept
<1> QED BY <1>6, <1>7, <1>8, <1>9 DEF ListMessage

\* ServeListStep: a request of the list is served.
LEMMA ServeListStep ==
  ASSUME ListInv, NEW i \in DOMAIN requests, ServedOnly(i), UNCHANGED list
  PROVE  ListInv'
<1>1. \A part, op : UnderWay(part, op) => UnderWay(part, op)'
  BY DEF UnderWay, ServedOnly
<1>2. ListKept
  BY <1>1 DEF ListKept, ListInv, ListShape, ListWaits
<1> QED BY <1>2, ListKeptKeeps

-----------------------------------------------------------------------------
(* Answers that select something *)

\* LastAnswer: unless the answer handled was the only one under way, the selection becomes
\* restless when it changes.
LEMMA LastAnswer ==
  ASSUME RequestsInv, SelectionInv, ObjectShown, NEW i \in DOMAIN requests, Handles,
         requests[i].part \notin Unnamed, selection'.kind # "Object"
  PROVE  NoneUnnamed
<1> SUFFICES ASSUME ~restless', NEW j \in DOMAIN requests, requests[j].part \in Unnamed
             PROVE  FALSE
  BY DEF NoneUnnamed
<1>1. ~restless /\ (selection' = selection \/ ~(Len(requests) > 1))
  BY DEF Handles, SelectionInv
<1>2. requests[j].of = SelectedObject
  BY <1>1 DEF ObjectShown
<1>3. requests[j].of \in Objects
  BY DEF RequestsInv, Formed, RightSubject, Unnamed, ObjectParts
<1>4. CASE selection' = selection
  <2>1. selection.key = NoKey
    BY <1>4 DEF SelectionInv, Selection, None, Bucket, Object
  <2> QED BY <1>2, <1>3, <2>1, NamesAssumption DEF SelectedObject, Of, Objects
<1>5. CASE ~(Len(requests) > 1)
  <2>1. DOMAIN requests = 1..Len(requests) /\ Len(requests) \in Nat
    BY DEF RequestsInv, IsSequence
  <2>2. i = 1 /\ j = 1
    BY <1>5, <2>1
  <2> QED BY <2>2
<1> QED BY <1>1, <1>4, <1>5

\* DeleteDoneStep: an object was deleted, or was not.
LEMMA DeleteDoneStep ==
  ASSUME DetailsInv, NEW i \in DOMAIN requests, DeleteDone(i), Handles
  PROVE  DetailsInv'
<1> USE DEF DetailsInv
<1>1. /\ requests[i].part = "object"
      /\ UNCHANGED <<selected_bucket, objectTruth, bucket_tags, bucket_status, bucketTruth,
                     created, follow, hasty, unsure>>
  BY DEF DeleteDone, Delivered, Handles
<1>2. /\ restless => restless'
      /\ restless' \in BOOLEAN
  BY DEF Handles
<1>3. selected_bucket # NoBucket
  BY <1>1 DEF SelectionInv, Grounded
<1>4. requests[i].part \notin NotOfLists
  BY <1>1, Disjoint DEF ListingParts
<1>5. CASE requests[i].ok
  <2>1. PICK new : new = {Load("objects", HereIn(list.current_prefix))}
    OBVIOUS
  <2>2. /\ selection' = None /\ pane' = Cleared(pane) /\ ResetDocuments
        /\ list' = Loading(list) /\ Handled(i, new)
    BY <1>5, <2>1 DEF DeleteDone, FetchObjects
  <2>3. Suits("objects", HereIn(list.current_prefix)) /\ "objects" \notin NotOfLists
    BY <1>3, Disjoint DEF SelectionInv, ListInv, ListShape, Suits, HereIn, Of, ObjectParts,
                          BucketParts, Kinds, ListingParts
  <2>4. RequestsInv' /\ SameOf(NotOfLists) /\ Replaced(i, new)
    BY <1>1, <1>4, <2>1, <2>2, <2>3, HandledOne
  <2>5. SameOf(ObjectParts) /\ SameOf(BucketParts)
    BY <2>4, SameOfFewer DEF NotOfLists
  <2>6. SelectionInv'
    BY <1>1, <1>2, <1>3, <2>2 DEF SelectionInv, Grounded, Selection, None
  <2>7. ObjectInv'
    <3>1. NoneUnnamed
      BY <1>1, <2>2, LastAnswer DEF ObjectInv, Unnamed, None
    <3> QED BY <1>1, <1>2, <2>2, <2>5, <3>1, ObjectLeft DEF None
  <2>8. BucketInv'
    <3>1. /\ DOMAIN documents' = Kinds
          /\ \A kind \in Kinds : /\ DOMAIN documents'[kind] = DOMAIN NoDocument
                                 /\ documents'[kind].loaded = Empty
                                 /\ ~documents'[kind].editing /\ ~documents'[kind].saving
      BY <2>2, DocumentsReset
    <3>2. \A kind \in Kinds : /\ DOMAIN documents'[kind] = DOMAIN NoDocument
                              /\ documents'[kind].loaded \in {documents[kind].loaded, Empty}
                              /\ documents'[kind].editing => documents[kind].editing
                              /\ documents'[kind].saving => documents[kind].saving
      BY <3>1
    <3>3. selection'.kind # "Bucket"
      BY <2>2 DEF None
    <3> QED BY <1>1, <1>2, <2>5, <3>1, <3>2, <3>3, BucketLeft
  <2>9. ListInv'
    <3>1. /\ DOMAIN list' = DOMAIN NoList /\ list'.current_prefix = list.current_prefix
          /\ list'.finding = list.finding /\ (list'.loading_objects <=> "objects" \in follow)
      BY <2>2, LoadingFields DEF ListInv, ListShape
    <3>2. \E r \in new : r.part = "objects" /\ r.op = "load"
      BY <2>1 DEF Load, Request
    <3>3. "objects" \in follow => UnderWay("objects", "load")'
      BY <2>4, <3>2 DEF Replaced, UnderWay
    <3>4. list.finding => UnderWay("find", "load")'
      BY <1>1, <2>4, StillAwaited DEF ListInv, ListWaits
    <3> QED BY <3>1, <3>3, <3>4, ListKeptKeeps DEF ListKept
  <2> QED BY <2>4, <2>6, <2>7, <2>8, <2>9
<1>6. CASE ~requests[i].ok
  <2>1. UNCHANGED <<selection, pane, documents, list>> /\ Handled(i, {})
    BY <1>6 DEF DeleteDone
  <2>2. RequestsInv' /\ SameOf(NotOfLists) /\ Replaced(i, {})
    BY <1>1, <1>4, <2>1, HandledNone
  <2>3. SameOf(ObjectParts) /\ SameOf(BucketParts)
    BY <2>2, SameOfFewer DEF NotOfLists
  <2>4. SelectionInv'
    BY <1>1, <1>2, <1>3, <2>1 DEF SelectionInv, Grounded
  <2>5. ObjectInv'
    BY <1>1, <1>2, <2>1, <2>3, ObjectFrame DEF objectVars, objectTruth
  <2>6. BucketInv'
    BY <1>1, <1>2, <2>1, <2>3, BucketFrame DEF bucketVars
  <2>7. ListInv'
    <3>1. \A part, op : UnderWay(part, op) /\ part # "object" => UnderWay(part, op)'
      BY <1>1, <2>2, StillAwaited
    <3> QED BY <2>1, <3>1, ListKeptKeeps DEF ListKept, ListInv, ListShape, ListWaits
  <2> QED BY <2>2, <2>4, <2>5, <2>6, <2>7
<1> QED BY <1>5, <1>6

\* CreateBucketDoneStep: a bucket was created, or was not.
LEMMA CreateBucketDoneStep ==
  ASSUME DetailsInv, NEW i \in DOMAIN requests, CreateBucketDone(i), Handles
  PROVE  DetailsInv'
<1> USE DEF DetailsInv
<1>1. PICK b : b = requests[i].of[1]
  OBVIOUS
<1>2. /\ requests[i].part = "bucket"
      /\ UNCHANGED <<objectTruth, bucket_tags, bucket_status, bucketTruth, follow, hasty, unsure>>
  BY DEF CreateBucketDone, Delivered, Handles
<1>3. b \in Buckets
  BY <1>1, <1>2 DEF RequestsInv, Formed, RightSubject
<1>4. /\ restless => restless'
      /\ restless' \in BOOLEAN
  BY DEF Handles
<1>5. requests[i].part \notin NotOfLists
  BY <1>2, Disjoint DEF ListingParts
<1>6. CASE requests[i].ok
  <2>1. PICK new : new = {Load("objects", Of(b, Root))}
    OBVIOUS
  <2>2. /\ selected_bucket' = b /\ selection' = Bucket(b) /\ selection'.kind = "Bucket"
        /\ list' = [At(list, Root) EXCEPT !.objects = Empty]
        /\ pane' = [pane EXCEPT !.detail = Empty]
        /\ ResetDocuments /\ created' = TRUE
    BY <1>1, <1>6 DEF CreateBucketDone, Bucket
  <2>3. Handled(i, new)
    BY <1>1, <1>6, <2>1 DEF CreateBucketDone
  <2>4. Suits("objects", Of(b, Root)) /\ "objects" \notin NotOfLists
    BY <1>3, FoldersAssumption, Disjoint DEF Suits, Of, ObjectParts, BucketParts, Kinds,
                                             ListingParts
  <2>5. RequestsInv' /\ SameOf(NotOfLists) /\ Replaced(i, new)
    BY <1>2, <1>5, <2>1, <2>3, <2>4, HandledOne
  <2>6. SameOf(ObjectParts) /\ SameOf(BucketParts)
    BY <2>5, SameOfFewer DEF NotOfLists
  <2>7. SelectionInv'
    BY <1>2, <1>3, <1>4, <2>2, NamesAssumption
       DEF SelectionInv, Grounded, Selection, Bucket
  <2>8. ObjectInv'
    <3>1. NoneUnnamed
      BY <1>2, <2>2, LastAnswer DEF ObjectInv, Unnamed
    <3>2. selected_bucket' # NoBucket
      BY <1>3, <2>2, NamesAssumption
    <3> QED BY <1>2, <1>4, <2>2, <2>6, <3>1, <3>2, ObjectLeft
  <2>9. /\ DOMAIN documents' = Kinds
        /\ \A kind \in Kinds : /\ DOMAIN documents'[kind] = DOMAIN NoDocument
                               /\ documents'[kind].loaded = Empty
                               /\ ~documents'[kind].editing /\ ~documents'[kind].saving
    BY <2>2, DocumentsReset
  <2>10. BucketShape' /\ BucketFollowed'
    <3>1. DOMAIN NoDocument' = DOMAIN NoDocument
      BY DEF NoDocument
    <3> QED BY <1>2, <2>9, <3>1, EmptyFields DEF BucketShape, BucketFollowed, BucketInv, bucketTruth
  <2>11. BucketWaits'
    BY <2>2, <2>9 DEF BucketWaits
  <2>12. ShownOfBucket'
    <3>1. ASSUME ~restless', NEW l \in DOMAIN requests', requests'[l].part \in BucketParts
          PROVE  requests'[l].of = Here'
      <4>1. ~restless /\ (selection' = selection \/ ~(Len(requests) > 1))
        BY <3>1 DEF Handles, SelectionInv
      <4>2. \A r \in new : r.part \notin BucketParts
        BY <2>1 DEF Load, Request, BucketParts, Kinds
      <4>3. PICK j \in DOMAIN requests \ {i} : requests'[l] = requests[j]
        BY <2>5, <3>1, <4>2 DEF Replaced
      <4>4. selection' = selection
        <5>1. DOMAIN requests = 1..Len(requests) /\ Len(requests) \in Nat
          BY DEF RequestsInv, IsSequence
        <5> QED BY <4>1, <4>3, <5>1
      <4>5. b = selected_bucket
        BY <1>3, <2>2, <4>4, NamesAssumption DEF SelectionInv, Bucket
      <4>6. requests[j].of = Here
        BY <3>1, <4>1, <4>3 DEF BucketInv, ShownOfBucket
      <4> QED BY <2>2, <4>3, <4>5, <4>6 DEF Here
    <3> QED BY <2>2, <2>9, <3>1, EmptyFields DEF ShownOfBucket, OfHere
  <2>13. ListInv'
    <3>1. PICK l : l = At(list, Root)
      OBVIOUS
    <3>2. /\ DOMAIN l = DOMAIN NoList /\ l.current_prefix = Root
          /\ (l.loading_objects <=> "objects" \in follow) /\ l.finding = list.finding
      BY <3>1, AtFields DEF ListInv, ListShape
    <3>3. DOMAIN NoList = {"objects", "loading_objects", "find_results", "finding",
                           "selected_keys", "current_prefix", "object_filter"}
      BY DEF NoList
    <3>4. list' = [l EXCEPT !.objects = Empty]
      BY <2>2, <3>1
    <3>5. /\ DOMAIN list' = DOMAIN NoList /\ list'.current_prefix = Root
          /\ list'.loading_objects = l.loading_objects /\ list'.finding = l.finding
      BY <3>2, <3>3, <3>4
    <3>6. DOMAIN NoList' = DOMAIN NoList
      BY DEF NoList
    <3>7. \E r \in new : r.part = "objects" /\ r.op = "load"
      BY <2>1 DEF Load, Request
    <3>8. "objects" \in follow => UnderWay("objects", "load")'
      BY <2>5, <3>7 DEF Replaced, UnderWay
    <3>9. list.finding => UnderWay("find", "load")'
      BY <1>2, <2>5, StillAwaited DEF ListInv, ListWaits
    <3> QED BY <3>2, <3>5, <3>6, <3>8, <3>9, FoldersAssumption DEF ListInv, ListShape, ListWaits
  <2> QED BY <2>5, <2>7, <2>8, <2>10, <2>11, <2>12, <2>13 DEF BucketInv
<1>7. CASE ~requests[i].ok
  <2>1. /\ UNCHANGED <<selected_bucket, selection, list, pane, documents, created>>
        /\ Handled(i, {})
    BY <1>7 DEF CreateBucketDone
  <2>2. RequestsInv' /\ SameOf(NotOfLists) /\ Replaced(i, {})
    BY <1>2, <1>5, <2>1, HandledNone
  <2>3. SameOf(ObjectParts) /\ SameOf(BucketParts)
    BY <2>2, SameOfFewer DEF NotOfLists
  <2>4. SelectionInv'
    <3>1. Grounded'
      BY <2>1, <2>2 DEF SelectionInv, Grounded, Replaced
    <3> QED BY <1>2, <1>4, <2>1, <3>1 DEF SelectionInv
  <2>5. ObjectInv'
    BY <1>2, <1>4, <2>1, <2>3, ObjectFrame DEF objectVars, objectTruth
  <2>6. BucketInv'
    BY <1>2, <1>4, <2>1, <2>3, BucketFrame DEF bucketVars
  <2>7. ListInv'
    <3>1. \A part, op : UnderWay(part, op) /\ part # "bucket" => UnderWay(part, op)'
      BY <1>2, <2>2, StillAwaited
    <3> QED BY <2>1, <3>1, ListKeptKeeps DEF ListKept, ListInv, ListShape, ListWaits
  <2> QED BY <2>2, <2>4, <2>5, <2>6, <2>7
<1> QED BY <1>6, <1>7

-----------------------------------------------------------------------------
(* The inductive invariant *)

\* EditStep, MessageStep, ServeStep: an edit, an answer, and the service of a request.
LEMMA EditStep ==
  ASSUME DetailsInv, EditSomething
  PROVE  DetailsInv'
<1> USE DEF DetailsInv
<1>1. /\ UNCHANGED <<selected_bucket, selection, restless, follow, unsure>>
      /\ hasty' \in BOOLEAN
  BY DEF EditSomething, Edits
<1>2. ASSUME RequestsInv', Grounded'
      PROVE  SelectionInv'
  BY <1>1, <1>2 DEF SelectionInv
<1>3. CASE ObjectEdit /\ UNCHANGED <<bucketVars, listVars>>
  <2>1. RequestsInv' /\ SameOf(NotOfObjects) /\ Grounded'
    BY <1>1, <1>3, ObjectEditRequests DEF ObjectInv
  <2>2. SameOf(BucketParts) /\ SameOf(ListingParts)
    BY <2>1, SameOfFewer DEF NotOfObjects
  <2>3. ObjectInv'
    BY <1>1, <1>3, ObjectEditStep
  <2>4. BucketInv' /\ ListInv'
    BY <1>1, <1>3, <2>2, BucketFrame, ListFrame DEF listVars
  <2> QED BY <1>2, <2>1, <2>3, <2>4
<1>4. CASE BucketEdit /\ UNCHANGED <<objectVars, listVars>>
  <2>1. RequestsInv' /\ SameOf(NotOfBuckets) /\ Grounded'
    BY <1>1, <1>4, BucketEditRequests
  <2>2. SameOf(ObjectParts) /\ SameOf(ListingParts)
    BY <2>1, SameOfFewer DEF NotOfBuckets
  <2>3. BucketInv'
    BY <1>1, <1>4, BucketEditStep
  <2>4. ObjectInv' /\ ListInv'
    BY <1>1, <1>4, <2>2, ObjectFrame, ListFrame DEF listVars
  <2> QED BY <1>2, <2>1, <2>3, <2>4
<1>5. CASE ListEdit /\ UNCHANGED <<objectVars, bucketVars>>
  <2>1. RequestsInv' /\ SameOf(NotOfLists) /\ Grounded'
    BY <1>1, <1>5, ListEditRequests DEF ListInv
  <2>2. SameOf(ObjectParts) /\ SameOf(BucketParts)
    BY <2>1, SameOfFewer DEF NotOfLists
  <2>3. ListInv'
    BY <1>1, <1>5, ListEditStep
  <2>4. ObjectInv' /\ BucketInv'
    BY <1>1, <1>5, <2>2, ObjectFrame, BucketFrame
  <2> QED BY <1>2, <2>1, <2>3, <2>4
<1> QED BY <1>3, <1>4, <1>5 DEF EditSomething

\* MessageStep: handling an answer keeps the invariant.
LEMMA MessageStep ==
  ASSUME DetailsInv, NEW i \in DOMAIN requests, Message(i)
  PROVE  DetailsInv'
<1> USE DEF DetailsInv
<1>1. Handles
  BY DEF Message
<1>2. CASE DeleteDone(i) \/ CreateBucketDone(i)
  BY <1>1, <1>2, DeleteDoneStep, CreateBucketDoneStep
<1>3. CASE UNCHANGED <<selected_bucket, selection>>
  <2>1. UNCHANGED <<selected_bucket, selection, restless, follow, unsure, hasty>>
    BY <1>1, <1>3 DEF Handles, SelectionInv
  <2>2. ASSUME RequestsInv', Grounded'
        PROVE  SelectionInv'
    BY <2>1, <2>2 DEF SelectionInv
  <2>3. CASE ObjectMessage(i) /\ UNCHANGED <<bucketVars, listVars>>
    <3>1. RequestsInv' /\ SameOf(NotOfObjects) /\ Grounded'
      BY <2>1, <2>3, ObjectMessageRequests
    <3>2. SameOf(BucketParts) /\ SameOf(ListingParts)
      BY <3>1, SameOfFewer DEF NotOfObjects
    <3>3. ObjectInv'
      BY <2>1, <2>3, ObjectMessageStep
    <3>4. BucketInv' /\ ListInv'
      BY <2>1, <2>3, <3>2, BucketFrame, ListFrame DEF listVars
    <3> QED BY <2>2, <3>1, <3>3, <3>4
  <2>4. CASE BucketMessage(i) /\ UNCHANGED <<objectVars, listVars>>
    <3>1. RequestsInv' /\ SameOf(NotOfBuckets) /\ Grounded'
      BY <2>1, <2>4, BucketMessageRequests
    <3>2. SameOf(ObjectParts) /\ SameOf(ListingParts)
      BY <3>1, SameOfFewer DEF NotOfBuckets
    <3>3. BucketInv'
      BY <2>1, <2>4, BucketMessageStep
    <3>4. ObjectInv' /\ ListInv'
      BY <2>1, <2>4, <3>2, ObjectFrame, ListFrame DEF listVars
    <3> QED BY <2>2, <3>1, <3>3, <3>4
  <2>5. CASE ListMessage(i) /\ UNCHANGED <<objectVars, bucketVars>>
    <3>1. RequestsInv' /\ SameOf(NotOfLists) /\ Grounded'
      BY <2>1, <2>5, ListMessageRequests DEF ListInv
    <3>2. SameOf(ObjectParts) /\ SameOf(BucketParts)
      BY <3>1, SameOfFewer DEF NotOfLists
    <3>3. ListInv'
      BY <2>1, <2>5, ListMessageStep
    <3>4. ObjectInv' /\ BucketInv'
      BY <2>1, <2>5, <3>2, ObjectFrame, BucketFrame
    <3> QED BY <2>2, <3>1, <3>3, <3>4
  <2> QED BY <1>2, <2>3, <2>4, <2>5 DEF Message
<1> QED BY <1>2, <1>3 DEF Message

\* ServeStep: the server's work keeps the invariant.
LEMMA ServeStep ==
  ASSUME DetailsInv, NEW i \in DOMAIN requests, Serve(i)
  PROVE  DetailsInv'
<1> USE DEF DetailsInv
<1>1. /\ UNCHANGED <<selected_bucket, selection, restless, hasty, follow>>
      /\ requests[i].at = "sent"
  BY DEF Serve
<1>2. ASSUME Grounded', unsure' \in BOOLEAN
      PROVE  SelectionInv'
  BY <1>1, <1>2 DEF SelectionInv
<1>3. CASE ServeObject(i) /\ UNCHANGED <<bucketVars, listVars>>
  <2>1. RequestsInv' /\ SameOf(NotOfObjects) /\ Grounded'
    BY <1>1, <1>3, ServeObjectRequests
  <2>2. SameOf(BucketParts) /\ SameOf(ListingParts)
    BY <2>1, SameOfFewer DEF NotOfObjects
  <2>3. ObjectInv'
    BY <1>1, <1>3, ServeObjectStep
  <2>4. BucketInv' /\ ListInv'
    BY <1>1, <1>3, <2>2, BucketFrame, ListFrame DEF listVars
  <2>5. unsure' \in BOOLEAN
    BY <1>3 DEF SelectionInv, ServeObject, ServeLoad, ServeTags, ServeVersion, ServeHeal
  <2> QED BY <1>2, <2>1, <2>3, <2>4, <2>5
<1>4. CASE ServeBucket(i) /\ UNCHANGED <<objectVars, listVars>>
  <2>1. RequestsInv' /\ SameOf(NotOfBuckets) /\ Grounded' /\ ServedOnly(i)
    BY <1>1, <1>4, ServeBucketRequests
  <2>2. SameOf(ObjectParts) /\ SameOf(ListingParts)
    BY <2>1, SameOfFewer DEF NotOfBuckets
  <2>3. BucketInv'
    BY <1>1, <1>4, <2>1, ServeBucketStep
  <2>4. unsure' \in BOOLEAN /\ (unsure => unsure')
    BY <1>4 DEF SelectionInv, ServeBucket, ServeBucketLoad, ServeDocument, ServeBucketTags,
                ServeVersioning
  <2>5. ObjectInv' /\ ListInv'
    BY <1>1, <1>4, <2>2, <2>4, ObjectFrame, ListFrame DEF listVars
  <2> QED BY <1>2, <2>1, <2>3, <2>4, <2>5
<1>5. CASE (ServeListing(i) \/ ServeCommand(i)) /\ UNCHANGED <<objectVars, bucketVars>>
  <2>1. RequestsInv' /\ SameOf(NotOfLists) /\ Grounded' /\ ServedOnly(i)
    BY <1>1, <1>5, ServeListRequests
  <2>2. SameOf(ObjectParts) /\ SameOf(BucketParts)
    BY <2>1, SameOfFewer DEF NotOfLists
  <2>3. ListInv'
    BY <1>5, <2>1, ServeListStep DEF ServeListing, ServeCommand, listVars
  <2>4. unsure' \in BOOLEAN /\ (unsure => unsure')
    BY <1>5 DEF SelectionInv, ServeListing, ServeCommand
  <2>5. ObjectInv' /\ BucketInv'
    BY <1>1, <1>5, <2>2, <2>4, ObjectFrame, BucketFrame
  <2> QED BY <1>2, <2>1, <2>3, <2>4, <2>5
<1> QED BY <1>3, <1>4, <1>5 DEF Serve

\* InitInv: the invariant holds at first.
LEMMA InitInv ==
  ASSUME Init
  PROVE  DetailsInv
<1> USE DEF Init, CommonInit, ObjectInit, BucketInit
<1>1. requests = <<>> /\ DOMAIN requests = {}
  OBVIOUS
<1>2. RequestsInv
  BY <1>1 DEF RequestsInv, IsSequence
<1>3. SelectionInv
  <2>1. selection.bucket = NoBucket
    BY DEF None
  <2>2. selection \in Selection
    BY DEF Selection
  <2>3. Grounded
    <3>1. ~\E i \in DOMAIN requests : requests[i].part # "bucket"
      BY <1>1
    <3> QED BY <3>1 DEF Grounded
  <2> QED BY <2>1, <2>2, <2>3 DEF SelectionInv
<1>4. /\ pane.heal_confirm_target = NoObject /\ pane.detail = Empty /\ pane.object_tags = Empty
      /\ pane.object_versions = Empty /\ pane.loading_detail = FALSE
      /\ pane.loading_tags = FALSE /\ pane.loading_versions = FALSE
      /\ pane.loading_object_inspect = FALSE /\ pane.healing = NoObject
  BY DEF NoPane
<1>5. PaneShape /\ ObjectFollowed
  BY <1>4 DEF PaneShape, ObjectFollowed
<1>6. ObjectWaits
  BY <1>4 DEF ObjectWaits, Nothing
<1>7. selection.kind # "Object" /\ ~BucketShown
  BY DEF None, BucketShown
<1>8. ObjectShown /\ VersionsInv
  BY <1>1, <1>7 DEF ObjectShown, VersionsInv
<1>9. TagsInv
  <2>1. tags = [o \in Objects |-> tags[o]] /\ wished = tags
    BY TagsAssumption
  <2> QED BY <1>1, <1>7, <2>1 DEF TagsInv, Lone
<1>10. \A kind \in Kinds : /\ documents[kind].loaded = Empty
                           /\ documents[kind].editing = FALSE /\ documents[kind].saving = FALSE
                           /\ DOMAIN documents[kind] = DOMAIN NoDocument
  BY DEF NoDocument
<1>11. BucketShape /\ BucketFollowed /\ BucketWaits /\ ShownOfBucket
  <2>1. BucketShape
    BY <1>10 DEF BucketShape
  <2>2. BucketFollowed
    BY <1>10, EmptyFields DEF BucketFollowed
  <2>3. BucketWaits
    BY <1>7, <1>10 DEF BucketWaits
  <2>4. ShownOfBucket
    BY <1>1, <1>7, <1>10 DEF ShownOfBucket
  <2> QED BY <2>1, <2>2, <2>3, <2>4
<1>12. ListInv
  <2>1. list.current_prefix = Root /\ list.loading_objects = FALSE /\ list.finding = FALSE
    BY DEF NoList
  <2> QED BY <2>1, FoldersAssumption DEF ListInv, ListShape, ListWaits
<1> QED BY <1>2, <1>3, <1>5, <1>6, <1>8, <1>9, <1>11, <1>12 DEF DetailsInv, ObjectInv, BucketInv

\* StepInv: and after each step.
LEMMA StepInv ==
  ASSUME DetailsInv, [Next]_vars
  PROVE  DetailsInv'
<1>1. CASE UNCHANGED vars
  <2>1. UNCHANGED <<objectVars, bucketVars, listVars, selected_bucket, selection, requests,
                    follow, restless, hasty, unsure>>
    BY <1>1 DEF vars, common
  <2>2. \A parts : RequestsInv' /\ SameOf(parts)
    BY <2>1, UnchangedKeeps DEF DetailsInv
  <2>3. ObjectInv' /\ BucketInv'
    BY <2>1, <2>2, ObjectFrame, BucketFrame DEF DetailsInv
  <2>4. ListInv'
    BY <2>1, <2>2, ListFrame DEF DetailsInv, listVars
  <2>5. SelectionInv'
    BY <2>1 DEF DetailsInv, SelectionInv, Grounded
  <2> QED BY <2>2, <2>3, <2>4, <2>5 DEF DetailsInv
<1> QED BY <1>1, SelectStep, EditStep, MessageStep, ServeStep DEF Next

\* InductiveInv: the invariant of every behaviour.
LEMMA InductiveInv == Spec => []DetailsInv
<1>1. Init => DetailsInv
  BY InitInv
<1>2. DetailsInv /\ [Next]_vars => DetailsInv'
  BY StepInv
<1> QED BY <1>1, <1>2, PTL DEF Spec

-----------------------------------------------------------------------------
(* When the user waits for the answers *)

Calm == ~restless /\ ~hasty /\ ~unsure

\* A command is under way alone.
Sole == \A i \in DOMAIN requests : requests[i].op # "load" => DOMAIN requests = {i}

\* The requests about a part; a command that may take effect yet; an answer that says what
\* the server has.
About(part) == {requests[j] : j \in {l \in DOMAIN requests : requests[l].part = part}}
Pending(r)  == r.op # "load" /\ r.at = "sent"
Answered(r) == r.op = "load" /\ r.at = "done" /\ r.ok

\* A part will be shown anew, by an answer or by the load that follows a command.
Renews(r)     == r.op = "load" \/ (r.at = "done" /\ r.ok)
Awaited(part) == \E r \in About(part) : Renews(r)

\* The parts of a bucket's panel that the user changes, and those of which it is known what
\* the user wants: what the server has of each bucket, what the user wants it to have, and
\* what is shown.
Changed == Kinds \union {"bucket_tags", "versioning"}
Wishes  == Kinds \union {"bucket_tags"}
Held(part)    == IF part \in Kinds THEN texts[part]
                 ELSE IF part = "bucket_tags" THEN labels ELSE statuses
Wanted(part)  == IF part \in Kinds THEN texts_wished[part] ELSE labels_wished
OnPanel(part) == IF part \in Kinds THEN documents[part].loaded
                 ELSE IF part = "bucket_tags" THEN bucket_tags ELSE bucket_status["versioning"]

\* What a created bucket's panel has of the bucket before.
Excepted(part) == created /\ part \notin Kinds

\* Answers are what the server has, and so is what is shown, unless it will be shown anew.
\* A document that has been deleted is gone.
AnswersTrue(part) == \A r \in About(part) : Answered(r) => r.value = Held(part)[selected_bucket]
DeletesTrue(part) ==
  \A r \in About(part) : (part \in Kinds /\ r.op = "delete") =>
    /\ r.at = "sent" => r.value = NoText
    /\ (r.at = "done" /\ r.ok) => Held(part)[selected_bucket] = NoText
ShownTrue(part) ==
  (BucketShown /\ ~Excepted(part) /\ OnPanel(part).is = "Ok" /\ ~Awaited(part)) =>
    OnPanel(part).value = Held(part)[selected_bucket]
PartTrue(part) == AnswersTrue(part) /\ DeletesTrue(part) /\ ShownTrue(part)

\* What the user wants is on the server, or will be with the command under way.
WillBe(part, r) ==
  \A b \in Buckets : Wanted(part)[b] = IF b = selected_bucket THEN r.value ELSE Held(part)[b]
Is(part) == \A b \in Buckets : Wanted(part)[b] = Held(part)[b]
PartMeant(part) ==
  ~Excepted(part) =>
    /\ \A r \in About(part) : Pending(r) => WillBe(part, r)
    /\ (\A r \in About(part) : ~Pending(r)) => Is(part)

\* The folder that is listed, and what the server has in it.
InPrefix   == HereIn(list.current_prefix)
StoredHere == stored[selected_bucket] \intersect Inside[list.current_prefix]

\* Listings and searches are of the folder shown; a listing is what the server has in it,
\* unless one will come, by itself or after the command that changed what there is.
ListingsAsked ==
  /\ \A part \in {"objects", "find"} : \A r \in About(part) : r.of = InPrefix
  /\ \A r \in About("objects") : Answered(r) => r.value = StoredHere
ListingShown ==
  /\ (list.objects.is # "None" /\ ~Awaited("objects")) => list.objects.of = InPrefix
  /\ (list.objects.is = "Ok" /\ ~Awaited("objects") /\ ~Awaited("object")) =>
       list.objects.value = StoredHere
PickedHere ==
  /\ list.find_results.is # "None" => list.find_results.of = InPrefix
  /\ picked \subseteq {InPrefix}

\* What else there is of the list: its commands, and that a list not followed stays empty.
Commands ==
  /\ \A r \in About("object") : r.op # "load"
  /\ \A r \in About("bucket") : r.op = "create"
ListFollowed ==
  /\ follow \in Follows
  /\ list.objects.is # "None" => "objects" \in follow
  /\ list.objects.is = "None" => list.objects.value = {}

ListTrue == Commands /\ ListFollowed /\ ListingsAsked /\ ListingShown /\ PickedHere

\* The functions of the server and of the user's wishes.
PerBucket(f) == f = [b \in Buckets |-> f[b]]
PerKind(f)   == f = [kind \in Kinds |-> f[kind]] /\ \A kind \in Kinds : PerBucket(f[kind])
TruthShape ==
  /\ PerKind(texts) /\ PerKind(texts_wished)
  /\ PerBucket(labels) /\ PerBucket(labels_wished) /\ PerBucket(statuses)

Settled ==
  /\ Sole
  /\ \A part \in Changed : PartTrue(part)
  /\ \A part \in Wishes : PartMeant(part)
  /\ ListTrue

SettledInv == TruthShape /\ (Calm => Settled)

-----------------------------------------------------------------------------
(* What steps do to the requests about a part *)

\* AboutSame: requests that are as before.
LEMMA AboutSame ==
  ASSUME NEW parts, SameOf(parts), NEW part \in parts
  PROVE  About(part)' = About(part) /\ Awaited(part)' = Awaited(part)
<1>1. About(part)' = About(part)
  BY DEF About, SameOf
<1>2. Awaited(part)' = Awaited(part)
  BY <1>1 DEF Awaited
<1> QED BY <1>1, <1>2

\* StartAlone: what is under way after requests were started while nothing was.
LEMMA StartAlone ==
  ASSUME RequestsInv, requests = <<>>, NEW new, IsFiniteSet(new), Start(new)
  PROVE  /\ \A part : About(part)' = {r \in new : r.part = part /\ part \in follow}
         /\ \A l \in DOMAIN requests' : requests'[l] \in new
         /\ \A a, b \in DOMAIN requests' : requests'[a] = requests'[b] => a = b
<1>1. DOMAIN requests = {}
  OBVIOUS
<1>2. /\ Added(new)
      /\ \A a, b \in DOMAIN requests' \ DOMAIN requests : requests'[a] = requests'[b] => a = b
  BY StartAdds DEF RequestsInv
<1>3. /\ \A r \in new : r.part \in follow => \E l \in DOMAIN requests' : requests'[l] = r
      /\ \A l \in DOMAIN requests' : requests'[l] \in new /\ requests'[l].part \in follow
  BY <1>1, <1>2 DEF Added
<1>4. \A part : About(part)' = {r \in new : r.part = part /\ part \in follow}
  BY <1>3 DEF About
<1> QED BY <1>1, <1>2, <1>3, <1>4

\* After: what an answer may start in its place: loads.
Loads(new) == \A r \in new : r.op = "load" /\ r.at = "sent"
After(i, new) == Replaced(i, new) /\ Loads(new)

\* SoleAfter: after an answer only loads are under way, if a command is only sent alone.
LEMMA SoleAfter ==
  ASSUME Sole, NEW i \in DOMAIN requests, NEW new, After(i, new)
  PROVE  /\ \A j \in DOMAIN requests \ {i} : requests[j].op = "load"
         /\ \A l \in DOMAIN requests' : requests'[l].op = "load"
         /\ Sole'
<1>1. \A j \in DOMAIN requests \ {i} : requests[j].op = "load"
  BY DEF Sole
<1>2. \A l \in DOMAIN requests' : requests'[l].op = "load"
  BY <1>1 DEF After, Loads, Replaced
<1> QED BY <1>1, <1>2 DEF Sole

\* SoleServed: serving a request changes none's operation.
LEMMA SoleServed ==
  ASSUME Sole, NEW i \in DOMAIN requests, ServedOnly(i)
  PROVE  Sole'
  BY DEF Sole, ServedOnly

\* AboutServed: the requests about a part after one was served.
LEMMA AboutServed ==
  ASSUME NEW i \in DOMAIN requests, ServedOnly(i)
  PROVE  /\ \A part : part # requests[i].part => About(part)' = About(part)
         /\ \A part : About(part)' \subseteq About(part) \union {requests'[i]}
<1>1. \A part : part # requests[i].part => About(part)' = About(part)
  BY DEF About, ServedOnly
<1>2. \A part : About(part)' \subseteq About(part) \union {requests'[i]}
  BY DEF About, ServedOnly
<1> QED BY <1>1, <1>2

\* A text of one bucket changes.
Differ(g, f, kind, b, v) ==
  /\ \A k \in Kinds \ {kind} : g[k] = f[k]
  /\ \A c \in Buckets : g[kind][c] = IF c = b THEN v ELSE f[kind][c]

\* NestedExcept: so it does with EXCEPT.
LEMMA NestedExcept ==
  ASSUME NEW f, PerKind(f), NEW kind \in Kinds, NEW b, NEW v, NEW g, g = [f EXCEPT ![kind][b] = v]
  PROVE  PerKind(g) /\ Differ(g, f, kind, b, v)
<1>1. DOMAIN f = Kinds /\ DOMAIN f[kind] = Buckets
  BY DEF PerKind, PerBucket
<1>2. g = [f EXCEPT ![kind] = [f[kind] EXCEPT ![b] = v]]
  OBVIOUS
<1>3. /\ g = [k \in Kinds |-> g[k]]
      /\ \A k \in Kinds \ {kind} : g[k] = f[k]
      /\ g[kind] = [f[kind] EXCEPT ![b] = v]
  BY <1>1, <1>2
<1>4. /\ PerBucket(g[kind])
      /\ \A c \in Buckets : g[kind][c] = IF c = b THEN v ELSE f[kind][c]
  BY <1>1, <1>3 DEF PerBucket
<1>5. \A k \in Kinds : PerBucket(g[k])
  BY <1>3, <1>4 DEF PerKind
<1> QED BY <1>3, <1>4, <1>5 DEF PerKind, Differ

\* BucketExcept: what one bucket has changes.
LEMMA BucketExcept ==
  ASSUME NEW f, PerBucket(f), NEW b, NEW v, NEW g, g = [f EXCEPT ![b] = v]
  PROVE  /\ PerBucket(g)
         /\ \A c \in Buckets : g[c] = IF c = b THEN v ELSE f[c]
<1>1. DOMAIN f = Buckets
  BY DEF PerBucket
<1> QED BY <1>1 DEF PerBucket

-----------------------------------------------------------------------------
(* One part of a bucket's panel *)

\* NothingAsked: while nothing is under way.
LEMMA NothingAsked ==
  ASSUME requests = <<>>
  PROVE  \A part : About(part) = {} /\ Awaited(part) = FALSE
<1>1. DOMAIN requests = {}
  OBVIOUS
<1> QED BY <1>1 DEF About, Awaited

\* PartFrame: a part whose requests, truth and contents are as before, or is not shown.
LEMMA PartFrame ==
  ASSUME NEW part, About(part)' = About(part), Held(part)' = Held(part),
         UNCHANGED <<selected_bucket, created>>,
         BucketShown' => BucketShown /\ OnPanel(part)' = OnPanel(part)
  PROVE  /\ PartTrue(part) => PartTrue(part)'
         /\ (PartMeant(part) /\ Wanted(part)' = Wanted(part)) => PartMeant(part)'
<1>1. Excepted(part)' = Excepted(part)
  BY DEF Excepted
<1>2. Awaited(part)' = Awaited(part)
  BY DEF Awaited
<1>3. AnswersTrue(part) => AnswersTrue(part)'
  BY DEF AnswersTrue
<1>4. DeletesTrue(part) => DeletesTrue(part)'
  BY DEF DeletesTrue
<1>5. ShownTrue(part) => ShownTrue(part)'
  BY <1>1, <1>2 DEF ShownTrue
<1>6. (PartMeant(part) /\ Wanted(part)' = Wanted(part)) => PartMeant(part)'
  BY <1>1 DEF PartMeant, WillBe, Is
<1> QED BY <1>3, <1>4, <1>5, <1>6 DEF PartTrue

\* PanelFrame: so are all of them when a step leaves the panel, and what is asked about it,
\* alone.
LEMMA PanelFrame ==
  ASSUME SameOf(BucketParts), UNCHANGED <<bucketVars, selected_bucket>>, BucketShown' => BucketShown
  PROVE  \A part \in Changed : /\ PartTrue(part) => PartTrue(part)'
                               /\ PartMeant(part) => PartMeant(part)'
<1> TAKE part \in Changed
<1>1. About(part)' = About(part)
  BY AboutSame DEF Changed, BucketParts
<1>2. /\ Held(part)' = Held(part) /\ Wanted(part)' = Wanted(part) /\ OnPanel(part)' = OnPanel(part)
      /\ created' = created
  BY DEF Held, Wanted, OnPanel, bucketVars, bucketTruth
<1> QED BY <1>1, <1>2, PartFrame

\* PartAnew: a part that is not shown, or loaded anew, when something is selected.
LEMMA PartAnew ==
  ASSUME requests = <<>>, NEW part, NEW new, Loads(new), About(part)' \subseteq new,
         UNCHANGED <<bucketTruth, created>>,
         (BucketShown' /\ OnPanel(part)'.is = "Ok") => Awaited(part)'
  PROVE  /\ PartTrue(part)'
         /\ PartMeant(part) => PartMeant(part)'
<1>1. Held(part)' = Held(part) /\ Wanted(part)' = Wanted(part) /\ Excepted(part)' = Excepted(part)
  BY DEF Held, Wanted, Excepted, bucketTruth
<1>2. \A r \in About(part)' : r.op = "load" /\ r.at = "sent"
  BY DEF Loads
<1>3. AnswersTrue(part)' /\ DeletesTrue(part)'
  BY <1>2 DEF AnswersTrue, DeletesTrue, Answered
<1>4. ShownTrue(part)'
  BY DEF ShownTrue
<1>5. ASSUME PartMeant(part)
      PROVE  PartMeant(part)'
  <2>1. ~Excepted(part) => Is(part)
    BY <1>5, NothingAsked DEF PartMeant
  <2>2. \A r \in About(part)' : ~Pending(r)
    BY <1>2 DEF Pending
  <2> QED BY <1>1, <2>1, <2>2 DEF PartMeant, Is
<1> QED BY <1>3, <1>4, <1>5 DEF PartTrue

\* PartLeft: a part that an edit leaves alone.
LEMMA PartLeft ==
  ASSUME requests = <<>>, NEW part, About(part)' = {},
         UNCHANGED <<selected_bucket, selection, created, texts, labels, statuses>>,
         OnPanel(part)' = OnPanel(part)
  PROVE  /\ PartTrue(part) => PartTrue(part)'
         /\ (PartMeant(part) /\ Wanted(part)' = Wanted(part)) => PartMeant(part)'
<1>1. /\ Held(part)' = Held(part) /\ Excepted(part)' = Excepted(part)
      /\ BucketShown' = BucketShown
  BY DEF Held, Excepted, BucketShown
<1>2. About(part) = {}
  BY NothingAsked
<1>3. Awaited(part)' = Awaited(part)
  BY <1>2 DEF Awaited
<1>4. AnswersTrue(part)' /\ DeletesTrue(part)'
  BY DEF AnswersTrue, DeletesTrue
<1>5. ShownTrue(part) => ShownTrue(part)'
  BY <1>1, <1>3 DEF ShownTrue
<1>6. (PartMeant(part) /\ Wanted(part)' = Wanted(part)) => PartMeant(part)'
  BY <1>1, <1>2 DEF PartMeant, Is
<1> QED BY <1>4, <1>5, <1>6 DEF PartTrue

\* PartCommanded: a part whose change is asked for.
LEMMA PartCommanded ==
  ASSUME requests = <<>>, NEW part, NEW r, About(part)' = {r}, Pending(r),
         r.op = "delete" => r.value = NoText,
         UNCHANGED <<selected_bucket, selection, created, texts, labels, statuses>>,
         OnPanel(part)' = OnPanel(part)
  PROVE  /\ PartTrue(part) => PartTrue(part)'
         /\ (Excepted(part) \/ WillBe(part, r)') => PartMeant(part)'
<1>1. /\ Held(part)' = Held(part) /\ Excepted(part)' = Excepted(part)
      /\ BucketShown' = BucketShown
  BY DEF Held, Excepted, BucketShown
<1>2. Awaited(part)' = FALSE
  BY DEF Awaited, Renews, Pending
<1>3. Awaited(part) = FALSE
  BY NothingAsked
<1>4. AnswersTrue(part)'
  BY DEF AnswersTrue, Answered, Pending
<1>5. DeletesTrue(part)'
  BY DEF DeletesTrue, Pending
<1>6. ShownTrue(part) => ShownTrue(part)'
  BY <1>1, <1>2, <1>3 DEF ShownTrue
<1>7. (Excepted(part) \/ WillBe(part, r)') => PartMeant(part)'
  <2> SUFFICES ASSUME ~Excepted(part), WillBe(part, r)'
               PROVE  PartMeant(part)'
    BY <1>1 DEF PartMeant
  <2>1. \A q \in About(part)' : Pending(q) => WillBe(part, q)'
    OBVIOUS
  <2>2. ~\A q \in About(part)' : ~Pending(q)
    OBVIOUS
  <2> QED BY <2>1, <2>2 DEF PartMeant
<1> QED BY <1>4, <1>5, <1>6, <1>7 DEF PartTrue

\* Fills: what an answer does to the contents of a part.
Fills(i, new, part) ==
  \/ requests[i].part # part /\ OnPanel(part)' = OnPanel(part)
  \/ /\ requests[i].part = part
     /\ \/ requests[i].op = "load" /\ OnPanel(part)' = Answer(requests[i])
        \/ /\ requests[i].op = "delete" /\ part \in Kinds /\ requests[i].ok
           /\ OnPanel(part)'.value = NoText
        \/ /\ requests[i].op # "load" /\ requests[i].ok /\ OnPanel(part)' = OnPanel(part)
           /\ \E r \in new : r.part = part
        \/ requests[i].op # "load" /\ ~requests[i].ok /\ OnPanel(part)' = OnPanel(part)

\* PartAnswered: a part after an answer.
LEMMA PartAnswered ==
  ASSUME Sole, NEW i \in DOMAIN requests, NEW new, After(i, new), requests[i].at = "done",
         NEW part, requests[i].part = part => part \in follow, Fills(i, new, part),
         UNCHANGED <<selected_bucket, bucketTruth, created>>, BucketShown' => BucketShown
  PROVE  /\ PartTrue(part) => PartTrue(part)'
         /\ PartMeant(part) => PartMeant(part)'
<1>1. Held(part)' = Held(part) /\ Wanted(part)' = Wanted(part) /\ Excepted(part)' = Excepted(part)
  BY DEF Held, Wanted, Excepted, bucketTruth
<1>2. /\ \A j \in DOMAIN requests \ {i} : requests[j].op = "load"
      /\ \A l \in DOMAIN requests' : requests'[l].op = "load"
  BY SoleAfter
<1>3. \A r \in About(part)' : r.op = "load" /\ (r \in About(part) \/ r.at = "sent")
  BY <1>2 DEF About, After, Loads, Replaced
<1>4. \A r \in About(part) : ~Pending(r)
  BY <1>2 DEF About, Pending
<1>5. AnswersTrue(part) => AnswersTrue(part)'
  BY <1>1, <1>3 DEF AnswersTrue, Answered
<1>6. DeletesTrue(part)'
  BY <1>3 DEF DeletesTrue
<1>7. PartMeant(part) => PartMeant(part)'
  <2>1. \A r \in About(part)' : ~Pending(r)
    BY <1>3 DEF Pending
  <2> QED BY <1>1, <1>4, <2>1 DEF PartMeant, Is
<1>8. requests[i].part = part => requests[i] \in About(part)
  BY DEF About
<1>9. ASSUME PartTrue(part), BucketShown, ~Excepted(part), OnPanel(part)'.is = "Ok", ~Awaited(part)'
      PROVE  OnPanel(part)'.value = Held(part)[selected_bucket]
  <2>1. CASE requests[i].part # part /\ OnPanel(part)' = OnPanel(part)
    <3>1. \A r \in About(part) : r \in About(part)'
      BY <2>1 DEF About, After, Replaced
    <3>2. ~Awaited(part)
      BY <1>9, <3>1 DEF Awaited
    <3> QED BY <1>9, <2>1, <3>2 DEF PartTrue, ShownTrue
  <2>2. CASE /\ requests[i].part = part /\ requests[i].op = "load"
             /\ OnPanel(part)' = Answer(requests[i])
    <3>1. requests[i].ok /\ OnPanel(part)'.value = requests[i].value
      BY <1>9, <2>2 DEF Answer
    <3>2. Answered(requests[i])
      BY <2>2, <3>1 DEF Answered
    <3> QED BY <1>8, <1>9, <2>2, <3>1, <3>2 DEF PartTrue, AnswersTrue
  <2>3. CASE /\ requests[i].part = part /\ requests[i].op = "delete" /\ part \in Kinds
             /\ requests[i].ok /\ OnPanel(part)'.value = NoText
    BY <1>8, <1>9, <2>3 DEF PartTrue, DeletesTrue
  <2>4. CASE /\ requests[i].part = part /\ \E r \in new : r.part = part
    <3>1. PICK r \in new : r.part = part
      BY <2>4
    <3>2. r.op = "load" /\ r \in About(part)'
      BY <2>4, <3>1 DEF After, Loads, Replaced, About
    <3> QED BY <1>9, <3>2 DEF Awaited, Renews
  <2>5. CASE /\ requests[i].part = part /\ requests[i].op # "load" /\ ~requests[i].ok
             /\ OnPanel(part)' = OnPanel(part)
    <3>1. DOMAIN requests = {i}
      BY <2>5 DEF Sole
    <3>2. \A r \in About(part) : r = requests[i]
      BY <3>1 DEF About
    <3>3. ~Awaited(part)
      BY <2>5, <3>2 DEF Awaited, Renews
    <3> QED BY <1>9, <2>5, <3>3 DEF PartTrue, ShownTrue
  <2> QED BY <2>1, <2>2, <2>3, <2>4, <2>5 DEF Fills
<1>10. PartTrue(part) => ShownTrue(part)'
  BY <1>1, <1>9 DEF ShownTrue
<1> QED BY <1>5, <1>6, <1>7, <1>10 DEF PartTrue

\* PartRead: a part of which the server says what it has, or fails to.
LEMMA PartRead ==
  ASSUME NEW i \in DOMAIN requests, ServedOnly(i), NEW part, requests[i].part = part,
         requests[i].op = "load",
         requests'[i].ok => requests'[i].value = Held(part)[selected_bucket],
         UNCHANGED <<bucketVars, selected_bucket, selection>>
  PROVE  /\ PartTrue(part) => PartTrue(part)'
         /\ PartMeant(part) => PartMeant(part)'
<1>1. /\ Held(part)' = Held(part) /\ Wanted(part)' = Wanted(part) /\ OnPanel(part)' = OnPanel(part)
      /\ Excepted(part)' = Excepted(part) /\ BucketShown' = BucketShown
  BY DEF Held, Wanted, OnPanel, Excepted, bucketVars, bucketTruth, BucketShown
<1>2. /\ requests'[i].op = "load"
      /\ \A r \in About(part)' : r \in About(part) \/ r = requests'[i]
      /\ \A r \in About(part) : r \in About(part)' \/ r = requests[i]
      /\ requests'[i] \in About(part)'
  BY DEF About, ServedOnly
<1>3. AnswersTrue(part) => AnswersTrue(part)'
  BY <1>1, <1>2 DEF AnswersTrue, Answered
<1>4. DeletesTrue(part) => DeletesTrue(part)'
  BY <1>1, <1>2 DEF DeletesTrue
<1>5. ShownTrue(part)'
  BY <1>2 DEF ShownTrue, Awaited, Renews
<1>6. PartMeant(part) => PartMeant(part)'
  <2>1. \A r : r \in About(part)' /\ Pending(r) => r \in About(part)
    BY <1>2 DEF Pending
  <2>2. \A r : r \in About(part) /\ Pending(r) => r \in About(part)'
    BY <1>2 DEF Pending
  <2>3. \A r : WillBe(part, r) => WillBe(part, r)'
    BY <1>1 DEF WillBe
  <2>4. Is(part) => Is(part)'
    BY <1>1 DEF Is
  <2> QED BY <1>1, <2>1, <2>2, <2>3, <2>4 DEF PartMeant
<1> QED BY <1>3, <1>4, <1>5, <1>6 DEF PartTrue

\* PartDone: a part whose change took effect.
LEMMA PartDone ==
  ASSUME Sole, NEW i \in DOMAIN requests, ServedOnly(i), NEW part, requests[i].part = part,
         Pending(requests[i]), requests'[i].ok,
         \A b \in Buckets : Held(part)'[b] = IF b = selected_bucket THEN requests[i].value
                                             ELSE Held(part)[b],
         selected_bucket \in Buckets,
         UNCHANGED <<created, selected_bucket>>, Wanted(part)' = Wanted(part)
  PROVE  /\ PartTrue(part) => PartTrue(part)'
         /\ PartMeant(part) => PartMeant(part)'
<1>1. DOMAIN requests = {i}
  BY DEF Sole, Pending
<1>2. About(part) = {requests[i]} /\ About(part)' = {requests'[i]}
  BY <1>1 DEF About, ServedOnly
<1>3. requests'[i].op = requests[i].op /\ requests[i].op # "load" /\ requests'[i].at = "done"
      /\ requests[i].at = "sent"
  BY DEF ServedOnly, Pending
<1>4. Excepted(part)' = Excepted(part)
  BY DEF Excepted
<1>5. AnswersTrue(part)'
  BY <1>2, <1>3 DEF AnswersTrue, Answered
<1>6. DeletesTrue(part) => DeletesTrue(part)'
  BY <1>2, <1>3 DEF DeletesTrue
<1>7. ShownTrue(part)'
  BY <1>2, <1>3 DEF ShownTrue, Awaited, Renews
<1>8. PartMeant(part) => PartMeant(part)'
  <2>1. PartMeant(part) /\ ~Excepted(part) => WillBe(part, requests[i])
    BY <1>2 DEF PartMeant
  <2>2. WillBe(part, requests[i]) => Is(part)'
    BY DEF WillBe, Is
  <2>3. \A r \in About(part)' : ~Pending(r)
    BY <1>2, <1>3 DEF Pending
  <2> QED BY <1>4, <2>1, <2>2, <2>3 DEF PartMeant
<1> QED BY <1>5, <1>6, <1>7, <1>8 DEF PartTrue

\* PartRefused: a part whose change was refused.
LEMMA PartRefused ==
  ASSUME Sole, NEW i \in DOMAIN requests, ServedOnly(i), NEW part, requests[i].part = part,
         Pending(requests[i]), ~requests'[i].ok,
         Held(part)' = Held(part), OnPanel(part)' = OnPanel(part),
         UNCHANGED <<created, selected_bucket, selection>>
  PROVE  /\ PartTrue(part) => PartTrue(part)'
         /\ Is(part)' => PartMeant(part)'
<1>1. DOMAIN requests = {i}
  BY DEF Sole, Pending
<1>2. About(part) = {requests[i]} /\ About(part)' = {requests'[i]}
  BY <1>1 DEF About, ServedOnly
<1>3. requests'[i].op = requests[i].op /\ requests[i].op # "load" /\ requests'[i].at = "done"
      /\ requests[i].at = "sent"
  BY DEF ServedOnly, Pending
<1>4. Excepted(part)' = Excepted(part) /\ BucketShown' = BucketShown
  BY DEF Excepted, BucketShown
<1>5. AnswersTrue(part)' /\ DeletesTrue(part)'
  BY <1>2, <1>3 DEF AnswersTrue, DeletesTrue, Answered
<1>6. ShownTrue(part) => ShownTrue(part)'
  <2>1. ~Awaited(part)
    BY <1>2, <1>3 DEF Awaited, Renews
  <2> QED BY <1>4, <2>1 DEF ShownTrue
<1>7. Is(part)' => PartMeant(part)'
  <2>1. \A r \in About(part)' : ~Pending(r)
    BY <1>2, <1>3 DEF Pending
  <2> QED BY <2>1 DEF PartMeant
<1> QED BY <1>5, <1>6, <1>7 DEF PartTrue

-----------------------------------------------------------------------------
(* Edits of a bucket's panel *)

\* WantedShape: what the user wants stays a function of the buckets.
LEMMA WantedShape ==
  ASSUME TruthShape, BucketEdit, selected_bucket' = selected_bucket
  PROVE  /\ PerKind(texts_wished') /\ PerBucket(labels_wished')
         /\ UNCHANGED <<texts, labels, statuses>>
<1>1. PerKind(texts_wished) /\ PerBucket(labels_wished)
  BY DEF TruthShape
<1>2. ASSUME NEW kind \in Kinds, SaveDocument(kind) \/ DeleteDocument(kind)
      PROVE  /\ PerKind(texts_wished')
             /\ UNCHANGED <<labels_wished, texts, labels, statuses>>
  <2>1. \/ texts_wished' = texts_wished
        \/ \E v : texts_wished' = [texts_wished EXCEPT ![kind][selected_bucket] = v]
    BY <1>2 DEF SaveDocument, DeleteDocument
  <2>2. PerKind(texts_wished')
    BY <1>1, <2>1, NestedExcept
  <2> QED BY <1>2, <2>2 DEF SaveDocument, DeleteDocument
<1>3. ASSUME NEW t, AddBucketTag(t) \/ RemoveBucketTag(t)
      PROVE  /\ PerBucket(labels_wished')
             /\ UNCHANGED <<texts_wished, texts, labels, statuses>>
  <2>1. \E v : labels_wished' = [labels_wished EXCEPT ![selected_bucket] = v]
    BY <1>3 DEF AddBucketTag, RemoveBucketTag
  <2>2. PerBucket(labels_wished')
    BY <1>1, <2>1, BucketExcept, Zenon
  <2> QED BY <1>3, <2>2 DEF AddBucketTag, RemoveBucketTag, SaveBucketTags
<1>4. ASSUME NEW kind \in Kinds,
             OpenDocumentEditor(kind) \/ CancelDocumentEditor(kind)
               \/ \E text \in Texts : DocumentEdited(kind, text)
      PROVE  UNCHANGED <<texts_wished, labels_wished, texts, labels, statuses>>
  BY <1>4 DEF OpenDocumentEditor, CancelDocumentEditor, DocumentEdited, bucketTruth
<1>5. ASSUME NEW s, ToggleVersioning(s)
      PROVE  UNCHANGED <<texts_wished, labels_wished, texts, labels, statuses>>
  BY <1>5 DEF ToggleVersioning, bucketVars, bucketTruth
<1> QED BY <1>1, <1>2, <1>3, <1>4, <1>5 DEF BucketEdit

\* WishedFor: what the user asks for with request r is what is wanted from then on.
WishedFor(r) ==
  /\ \A part \in Wishes \ {r.part} : Wanted(part)' = Wanted(part)
  /\ (r.part \in Wishes /\ ~Excepted(r.part)) =>
       \A b \in Buckets : Wanted(r.part)'[b] =
         IF b = selected_bucket THEN r.value ELSE Wanted(r.part)[b]

\* Asks: the edit that starts request r.
Asks(r) ==
  /\ Start({r})
  /\ r.part \in Changed /\ r.part \in follow /\ Pending(r)
  /\ r.op = "delete" => r.value = NoText
  /\ WishedFor(r)

\* BucketEditAsks: what an edit of a bucket's panel asks for, if its tags are shown as the user
\* wants them.
LEMMA BucketEditAsks ==
  ASSUME TruthShape, BucketFollowed, BucketEdit, selected_bucket \in Buckets,
         (BucketShown /\ ~created /\ bucket_tags.is = "Ok") =>
           bucket_tags.value = labels_wished[selected_bucket]
  PROVE  UNCHANGED <<requests, texts_wished, labels_wished>> \/ \E r : Asks(r)
<1> DEFINE Goal == UNCHANGED <<requests, texts_wished, labels_wished>> \/ \E r : Asks(r)
<1>1. PerKind(texts_wished) /\ PerBucket(labels_wished)
  BY DEF TruthShape
<1>2. ASSUME NEW kind \in Kinds, kind \in follow, NEW op \in {"save", "delete"}, NEW text,
             Start({Request(kind, op, Here, text)}), op = "delete" => text = NoText,
             texts_wished' = [texts_wished EXCEPT ![kind][selected_bucket] = text],
             labels_wished' = labels_wished
      PROVE  Goal
  <2>1. PICK r : r = Request(kind, op, Here, text)
    OBVIOUS
  <2>2. r.part = kind /\ r.op = op /\ r.value = text /\ r.at = "sent" /\ Start({r})
    BY <1>2, <2>1 DEF Request
  <2>3. /\ \A k \in Kinds \ {kind} : texts_wished'[k] = texts_wished[k]
        /\ \A c \in Buckets : texts_wished'[kind][c] = IF c = selected_bucket THEN text
                                                       ELSE texts_wished[kind][c]
    <3>1. PICK f : f = texts_wished
      OBVIOUS
    <3>2. PICK g : g = [f EXCEPT ![kind][selected_bucket] = text]
      OBVIOUS
    <3>3. PerKind(f) /\ texts_wished' = g
      BY <1>1, <1>2, <3>1, <3>2
    <3>4. Differ(g, f, kind, selected_bucket, text)
      BY <1>2, <3>2, <3>3, NestedExcept
    <3> QED BY <3>1, <3>3, <3>4 DEF Differ
  <2>4. WishedFor(r)
    BY <1>2, <2>2, <2>3 DEF WishedFor, Wishes, Wanted
  <2>5. Asks(r)
    BY <1>2, <2>2, <2>4 DEF Asks, Pending, Changed
  <2> QED BY <2>5
<1>3. ASSUME NEW kind \in Kinds \intersect follow, SaveDocument(kind)
      PROVE  Goal
  <2>1. CASE documents[kind].editor \in DOMAIN Normal
    <3>1. PICK text : text = Normal[documents[kind].editor]
      OBVIOUS
    <3>2. /\ Start({Request(kind, "save", Here, text)})
          /\ texts_wished' = [texts_wished EXCEPT ![kind][selected_bucket] = text]
          /\ labels_wished' = labels_wished
      BY <1>3, <2>1, <3>1, Zenon DEF SaveDocument
    <3> HIDE DEF Goal
    <3> QED BY <1>2, <3>2
  <2>2. CASE documents[kind].editor \notin DOMAIN Normal
    BY <1>3, <2>2, Zenon DEF SaveDocument
  <2> QED BY <2>1, <2>2
<1>4. ASSUME NEW kind \in Kinds \intersect follow, DeleteDocument(kind)
      PROVE  Goal
  <2>1. /\ Start({Request(kind, "delete", Here, NoText)})
        /\ texts_wished' = [texts_wished EXCEPT ![kind][selected_bucket] = NoText]
        /\ labels_wished' = labels_wished
    BY <1>4 DEF DeleteDocument
  <2> HIDE DEF Goal
  <2> QED BY <1>2, <2>1
<1>5. ASSUME NEW set, BucketShown, bucket_tags.is = "Ok", SaveBucketTags(set),
             NEW v, labels_wished' = [labels_wished EXCEPT ![selected_bucket] = v],
             ~created => v = set
      PROVE  Goal
  <2>1. PICK r : r = Request("bucket_tags", "save", Here, set)
    OBVIOUS
  <2>2. r.part = "bucket_tags" /\ r.op = "save" /\ r.value = set /\ r.at = "sent"
    BY <2>1 DEF Request
  <2>3. Start({r}) /\ texts_wished' = texts_wished
    BY <1>5, <2>1 DEF SaveBucketTags
  <2>4. \A c \in Buckets : labels_wished'[c] = IF c = selected_bucket THEN v ELSE labels_wished[c]
    <3>1. PICK f : f = labels_wished
      OBVIOUS
    <3>2. PICK g : g = [f EXCEPT ![selected_bucket] = v]
      OBVIOUS
    <3>3. PerBucket(f) /\ labels_wished' = g
      BY <1>1, <1>5, <3>1, <3>2
    <3>4. \A c \in Buckets : g[c] = IF c = selected_bucket THEN v ELSE f[c]
      BY <3>2, <3>3, BucketExcept, SMTT(20)
    <3> QED BY <3>1, <3>3, <3>4
  <2>5. WishedFor(r)
    BY <1>5, <2>2, <2>3, <2>4 DEF WishedFor, Wishes, Wanted, Kinds, Excepted
  <2>6. "bucket_tags" \in follow
    BY <1>5 DEF BucketFollowed
  <2>7. Asks(r)
    BY <2>2, <2>3, <2>5, <2>6 DEF Asks, Pending, Changed
  <2> QED BY <2>7
<1>6. ASSUME NEW t, AddBucketTag(t)
      PROVE  Goal
  <2>1. PICK set : set = bucket_tags.value \union {t}
    OBVIOUS
  <2>2. PICK v : v = labels_wished[selected_bucket] \union {t}
    OBVIOUS
  <2>3. /\ BucketShown /\ bucket_tags.is = "Ok" /\ SaveBucketTags(set)
        /\ labels_wished' = [labels_wished EXCEPT ![selected_bucket] = v]
    BY <1>6, <2>1, <2>2 DEF AddBucketTag
  <2>4. ~created => v = set
    BY <2>1, <2>2, <2>3
  <2> HIDE DEF Goal
  <2> QED BY <1>5, <2>3, <2>4
<1>7. ASSUME NEW t, RemoveBucketTag(t)
      PROVE  Goal
  <2>1. PICK set : set = bucket_tags.value \ {t}
    OBVIOUS
  <2>2. PICK v : v = labels_wished[selected_bucket] \ {t}
    OBVIOUS
  <2>3. /\ BucketShown /\ bucket_tags.is = "Ok" /\ SaveBucketTags(set)
        /\ labels_wished' = [labels_wished EXCEPT ![selected_bucket] = v]
    BY <1>7, <2>1, <2>2 DEF RemoveBucketTag
  <2>4. ~created => v = set
    BY <2>1, <2>2, <2>3
  <2> HIDE DEF Goal
  <2> QED BY <1>5, <2>3, <2>4
<1>8. ASSUME "versioning" \in follow, NEW status, ToggleVersioning(status)
      PROVE  Goal
  <2>1. PICK r : r = Request("versioning", "save", Here, status)
    OBVIOUS
  <2>2. r.part = "versioning" /\ r.op = "save" /\ r.at = "sent"
    BY <2>1 DEF Request
  <2>3. Start({r}) /\ UNCHANGED <<texts_wished, labels_wished>>
    BY <1>8, <2>1 DEF ToggleVersioning, bucketVars, bucketTruth
  <2>4. WishedFor(r)
    BY <2>2, <2>3 DEF WishedFor, Wishes, Wanted, Kinds
  <2>5. Asks(r)
    BY <1>8, <2>2, <2>3, <2>4 DEF Asks, Pending, Changed
  <2> QED BY <2>5
<1>9. ASSUME NEW kind \in Kinds,
             OpenDocumentEditor(kind) \/ CancelDocumentEditor(kind)
               \/ \E text \in Texts : DocumentEdited(kind, text)
      PROVE  Goal
  BY <1>9 DEF OpenDocumentEditor, CancelDocumentEditor, DocumentEdited, bucketTruth
<1> HIDE DEF Goal
<1>10. Goal
  BY <1>3, <1>4, <1>6, <1>7, <1>8, <1>9 DEF BucketEdit
<1> QED BY <1>10 DEF Goal

-----------------------------------------------------------------------------
(* Answers for a bucket's panel, and the server *)

\* NoneStarted: an answer that starts no request.
LEMMA NoneStarted ==
  ASSUME RequestsInv, NEW i \in DOMAIN requests, Handled(i, {}), follow' = follow
  PROVE  After(i, {})
<1>1. Replaced(i, {})
  BY HandledNone, requests[i].part \notin {}
<1> QED BY <1>1 DEF After, Loads

\* OneStarted: the answer to a command starts a load.
LEMMA OneStarted ==
  ASSUME RequestsInv, NEW i \in DOMAIN requests, NEW part, NEW of,
         NEW new, new = {Load(part, of)}, Handled(i, new)
  PROVE  After(i, new) /\ \A r \in new : r.part = part /\ r.of = of
<1>1. Replaced(i, new)
  BY FS_Singleton, HandledReplaces DEF RequestsInv
<1>2. \A r \in new : r.part = part /\ r.of = of /\ r.op = "load" /\ r.at = "sent"
  BY DEF Load, Request
<1> QED BY <1>1, <1>2 DEF After, Loads

\* OnlyFilled: one document is all that an answer changes.
LEMMA OnlyFilled ==
  ASSUME BucketShape, NEW kind \in Kinds, NEW d, Update(kind, d),
         UNCHANGED <<bucket_tags, bucket_status>>
  PROVE  /\ OnPanel(kind)' = d.loaded
         /\ \A part \in Changed \ {kind} : OnPanel(part)' = OnPanel(part)
<1>1. /\ documents'[kind] = d
      /\ \A k \in Kinds \ {kind} : documents'[k] = documents[k]
  BY UpdateFields DEF BucketShape
<1> QED BY <1>1 DEF OnPanel, Changed

\* BucketFilled: what an answer does to the parts of a bucket's panel.
BucketFilled(i) ==
  /\ UNCHANGED <<bucketTruth, created>> /\ requests[i].at = "done"
  /\ \E new : After(i, new) /\ \A part \in Changed : Fills(i, new, part)

\* BucketMessageForm: every answer for a bucket's panel does that.
LEMMA BucketMessageForm ==
  ASSUME RequestsInv, SelectionInv, BucketShape, NEW i \in DOMAIN requests, BucketMessage(i),
         UNCHANGED <<follow, selected_bucket>>
  PROVE  BucketFilled(i)
<1>1. \A kind \in Kinds : DOMAIN documents[kind] = DOMAIN NoDocument
  BY DEF BucketShape
<1>2. PICK answer : answer = Answer(requests[i])
  OBVIOUS
<1>3. ASSUME NEW kind \in Kinds, requests[i].part = kind, requests[i].at = "done",
             NEW d, Update(kind, d), UNCHANGED <<bucket_tags, bucket_status>>,
             UNCHANGED <<bucketTruth, created>>,
             NEW new, After(i, new),
             \/ requests[i].op = "load" /\ d.loaded = Answer(requests[i])
             \/ requests[i].op = "delete" /\ requests[i].ok /\ d.loaded.value = NoText
             \/ /\ requests[i].op # "load" /\ requests[i].ok /\ d.loaded = documents[kind].loaded
                /\ \E r \in new : r.part = kind
             \/ requests[i].op # "load" /\ ~requests[i].ok /\ d.loaded = documents[kind].loaded
      PROVE  BucketFilled(i)
  <2>1. /\ OnPanel(kind)' = d.loaded
        /\ \A part \in Changed \ {kind} : OnPanel(part)' = OnPanel(part)
    BY <1>3, OnlyFilled
  <2>2. OnPanel(kind) = documents[kind].loaded
    BY <1>3 DEF OnPanel
  <2>3. Fills(i, new, kind)
    BY <1>3, <2>1, <2>2 DEF Fills
  <2>4. \A part \in Changed : Fills(i, new, part)
    BY <1>3, <2>1, <2>3 DEF Fills
  <2> QED BY <1>3, <2>4 DEF BucketFilled
<1>4. ASSUME requests[i].part \in {"bucket_tags", "versioning", "ftt"}, requests[i].at = "done",
             UNCHANGED <<documents, bucketTruth, created>>,
             NEW new, After(i, new), Fills(i, new, "bucket_tags"), Fills(i, new, "versioning")
      PROVE  BucketFilled(i)
  <2>1. \A kind \in Kinds : OnPanel(kind)' = OnPanel(kind) /\ requests[i].part # kind
    BY <1>4 DEF OnPanel, Kinds
  <2>2. \A kind \in Kinds : Fills(i, new, kind)
    BY <2>1 DEF Fills
  <2>3. \A part \in Changed : Fills(i, new, part)
    BY <1>4, <2>2 DEF Changed
  <2> QED BY <1>4, <2>3 DEF BucketFilled
<1>5. ASSUME Handled(i, {})
      PROVE  After(i, {})
  BY <1>5, NoneStarted
<1>6. ASSUME NEW kind \in Kinds, DocumentLoaded(kind, i)
      PROVE  BucketFilled(i)
  <2>1. PICK d : d = SetLoaded(documents[kind], answer)
    OBVIOUS
  <2>2. d.loaded = answer
    BY <1>1, <2>1, SetLoadedFields
  <2>3. /\ Update(kind, d) /\ Handled(i, {})
        /\ requests[i].part = kind /\ requests[i].op = "load" /\ requests[i].at = "done"
        /\ UNCHANGED <<bucket_tags, bucket_status, bucketTruth, created>>
    BY <1>2, <1>6, <2>1 DEF DocumentLoaded, Delivered
  <2> QED BY <1>2, <1>3, <1>5, <2>2, <2>3
<1>7. ASSUME NEW kind \in Kinds, DocumentDeleted(kind, i)
      PROVE  BucketFilled(i)
  <2>1. /\ requests[i].part = kind /\ requests[i].op = "delete" /\ requests[i].at = "done"
        /\ Handled(i, {})
        /\ UNCHANGED <<bucket_tags, bucket_status, bucketTruth, created>>
    BY <1>7 DEF DocumentDeleted, Delivered
  <2>2. CASE requests[i].ok
    <3>1. PICK loaded : loaded = [answer EXCEPT !.value = NoText]
      OBVIOUS
    <3>2. loaded.value = NoText
      <4>1. DOMAIN answer = {"is", "of", "value"}
        BY <1>2 DEF Answer
      <4> QED BY <3>1, <4>1
    <3>3. PICK d : d = SetLoaded(documents[kind], loaded)
      OBVIOUS
    <3>4. d.loaded = loaded
      BY <1>1, <3>3, SetLoadedFields
    <3>5. Update(kind, d)
      BY <1>2, <1>7, <2>2, <3>1, <3>3, Zenon DEF DocumentDeleted
    <3> QED BY <1>3, <1>5, <2>1, <2>2, <3>2, <3>4, <3>5
  <2>3. CASE ~requests[i].ok
    <3>1. PICK d : d = [documents[kind] EXCEPT !.saving = FALSE, !.error = TRUE]
      OBVIOUS
    <3>2. d.loaded = documents[kind].loaded
      BY <1>1, <3>1, FailedDocument
    <3>3. Update(kind, d)
      BY <1>7, <2>3, <3>1, Zenon DEF DocumentDeleted
    <3> QED BY <1>3, <1>5, <2>1, <2>3, <3>2, <3>3
  <2> QED BY <2>2, <2>3
<1>8. ASSUME NEW kind \in Kinds, DocumentSaved(kind, i)
      PROVE  BucketFilled(i)
  <2>1. /\ requests[i].part = kind /\ requests[i].op = "save" /\ requests[i].at = "done"
        /\ UNCHANGED <<bucket_tags, bucket_status, bucketTruth, created>>
    BY <1>8 DEF DocumentSaved, Delivered
  <2>2. CASE requests[i].ok
    <3>1. PICK d : d = CancelEditing(documents[kind])
      OBVIOUS
    <3>2. d.loaded = documents[kind].loaded
      BY <1>1, <3>1, CancelFields
    <3>3. PICK new : new = {Load(kind, Here)}
      OBVIOUS
    <3>4. Update(kind, d)
      BY <1>8, <2>2, <3>1, Zenon DEF DocumentSaved
    <3>5. Handled(i, new)
      BY <1>8, <2>2, <3>3, Zenon DEF DocumentSaved
    <3>6. After(i, new) /\ \E r \in new : r.part = kind
      BY <3>3, <3>5, OneStarted
    <3> QED BY <1>3, <2>1, <2>2, <3>2, <3>4, <3>6
  <2>3. CASE ~requests[i].ok
    <3>1. PICK d : d = [documents[kind] EXCEPT !.saving = FALSE, !.error = TRUE]
      OBVIOUS
    <3>2. d.loaded = documents[kind].loaded
      BY <1>1, <3>1, FailedDocument
    <3>3. Update(kind, d)
      BY <1>8, <2>3, <3>1, Zenon DEF DocumentSaved
    <3>4. Handled(i, {})
      BY <1>8, <2>3, Zenon DEF DocumentSaved
    <3> QED BY <1>3, <1>5, <2>1, <2>3, <3>2, <3>3, <3>4
  <2> QED BY <2>2, <2>3
<1>9. ASSUME NEW part \in {"bucket_tags", "versioning"}, requests[i].part = part,
             requests[i].op = "save", requests[i].at = "done",
             Handled(i, IF requests[i].ok THEN {Load(part, Here)} ELSE {}),
             UNCHANGED bucketVars
      PROVE  BucketFilled(i)
  <2>1. PICK new : new = IF requests[i].ok THEN {Load(part, Here)} ELSE {}
    OBVIOUS
  <2>2. Handled(i, new)
    BY <1>9, <2>1
  <2>3. After(i, new) /\ (requests[i].ok => \E r \in new : r.part = part)
    <3>1. CASE requests[i].ok
      <4>1. new = {Load(part, Here)}
        BY <2>1, <3>1
      <4> QED BY <2>2, <4>1, OneStarted
    <3>2. CASE ~requests[i].ok
      <4>1. new = {}
        BY <2>1, <3>2
      <4> QED BY <1>5, <2>2, <3>2, <4>1
    <3> QED BY <3>1, <3>2
  <2>4. UNCHANGED <<documents, bucket_tags, bucket_status, bucketTruth, created>>
    BY <1>9 DEF bucketVars
  <2>5. \A p : OnPanel(p)' = OnPanel(p)
    BY <2>4 DEF OnPanel
  <2>6. \A p : Fills(i, new, p)
    BY <1>9, <2>3, <2>5 DEF Fills
  <2> QED BY <1>4, <1>9, <2>3, <2>4, <2>6
<1>10. CASE BucketTagsSaved(i)
  <2>1. /\ requests[i].part = "bucket_tags" /\ requests[i].op = "save" /\ requests[i].at = "done"
        /\ Handled(i, IF requests[i].ok THEN {Load("bucket_tags", Here)} ELSE {})
        /\ UNCHANGED bucketVars
    BY <1>10 DEF BucketTagsSaved, Delivered
  <2> QED BY <1>9, <2>1
<1>11. CASE VersioningToggled(i)
  <2>1. /\ requests[i].part = "versioning" /\ requests[i].op = "save" /\ requests[i].at = "done"
        /\ Handled(i, IF requests[i].ok THEN {Load("versioning", Here)} ELSE {})
        /\ UNCHANGED bucketVars
    BY <1>11 DEF VersioningToggled, Delivered
  <2> QED BY <1>9, <2>1
<1>12. OnPanel("bucket_tags") = bucket_tags /\ OnPanel("bucket_tags")' = bucket_tags'
  BY DEF OnPanel, Kinds
<1>13. /\ OnPanel("versioning") = bucket_status["versioning"]
       /\ OnPanel("versioning")' = bucket_status'["versioning"]
  BY DEF OnPanel, Kinds
<1>14. CASE BucketTagsLoaded(i)
  <2>1. /\ requests[i].part = "bucket_tags" /\ requests[i].op = "load" /\ requests[i].at = "done"
        /\ bucket_tags' = answer /\ Handled(i, {})
        /\ UNCHANGED <<documents, bucket_status, bucketTruth, created>>
    BY <1>2, <1>14 DEF BucketTagsLoaded, Delivered
  <2>2. Fills(i, {}, "bucket_tags") /\ Fills(i, {}, "versioning")
    BY <1>2, <1>12, <1>13, <2>1 DEF Fills
  <2> QED BY <1>4, <1>5, <2>1, <2>2
<1>15. CASE BucketStatusLoaded(i)
  <2>1. PICK part \in {"versioning", "ftt"} :
          /\ requests[i].part = part /\ requests[i].op = "load" /\ requests[i].at = "done"
          /\ Handled(i, {})
          /\ bucket_status' = [bucket_status EXCEPT ![part] = answer]
          /\ UNCHANGED <<documents, bucket_tags, bucketTruth, created>>
    BY <1>2, <1>15 DEF BucketStatusLoaded, Delivered
  <2>2. bucket_status'["versioning"] = IF part = "versioning" THEN answer
                                       ELSE bucket_status["versioning"]
    BY <2>1 DEF BucketShape
  <2>3. Fills(i, {}, "bucket_tags")
    BY <1>12, <2>1 DEF Fills
  <2>4. Fills(i, {}, "versioning")
    BY <1>2, <1>13, <2>1, <2>2 DEF Fills
  <2> QED BY <1>4, <1>5, <2>1, <2>3, <2>4
<1> QED BY <1>6, <1>7, <1>8, <1>10, <1>11, <1>14, <1>15 DEF BucketMessage

\* ServedShape: what the server has stays a function of the buckets.
LEMMA ServedShape ==
  ASSUME TruthShape, NEW i \in DOMAIN requests, ServeBucket(i)
  PROVE  /\ PerKind(texts') /\ PerKind(texts_wished')
         /\ PerBucket(labels') /\ PerBucket(labels_wished') /\ PerBucket(statuses')
<1> DEFINE r == requests[i]
           b == requests[i].of[1]
<1>1. /\ PerKind(texts) /\ PerKind(texts_wished)
      /\ PerBucket(labels) /\ PerBucket(labels_wished) /\ PerBucket(statuses)
  BY DEF TruthShape
<1>2. CASE ServeBucketLoad(i)
  BY <1>1, <1>2 DEF ServeBucketLoad, bucketVars, bucketTruth
<1>3. CASE ServeDocument(i)
  <2>1. r.part \in Kinds /\ UNCHANGED <<labels, labels_wished, statuses>>
    BY <1>3 DEF ServeDocument
  <2>2. \/ texts' = texts
        \/ \E v : texts' = [texts EXCEPT ![r.part][b] = v]
    BY <1>3 DEF ServeDocument
  <2>3. \/ texts_wished' = texts_wished
        \/ \E v : texts_wished' = [texts_wished EXCEPT ![r.part][b] = v]
    BY <1>3 DEF ServeDocument
  <2> HIDE DEF r, b
  <2>4. PerKind(texts')
    BY <1>1, <2>1, <2>2, NestedExcept
  <2>5. PerKind(texts_wished')
    BY <1>1, <2>1, <2>3, NestedExcept
  <2> QED BY <1>1, <2>1, <2>4, <2>5
<1>4. CASE ServeBucketTags(i)
  <2>1. UNCHANGED <<texts, texts_wished, statuses>>
    BY <1>4 DEF ServeBucketTags
  <2>2. /\ labels' = labels \/ \E v : labels' = [labels EXCEPT ![b] = v]
        /\ labels_wished' = labels_wished \/ \E v : labels_wished' = [labels_wished EXCEPT ![b] = v]
    BY <1>4 DEF ServeBucketTags
  <2> HIDE DEF b
  <2>3. PerBucket(labels') /\ PerBucket(labels_wished')
    BY <1>1, <2>2, BucketExcept
  <2> QED BY <1>1, <2>1, <2>3
<1>5. CASE ServeVersioning(i)
  <2>1. UNCHANGED <<texts, texts_wished, labels, labels_wished>>
    BY <1>5 DEF ServeVersioning
  <2>2. statuses' = statuses \/ \E v : statuses' = [statuses EXCEPT ![b] = v]
    BY <1>5 DEF ServeVersioning
  <2> HIDE DEF b
  <2>3. PerBucket(statuses')
    BY <1>1, <2>2, BucketExcept
  <2> QED BY <1>1, <2>1, <2>3
<1> QED BY <1>2, <1>3, <1>4, <1>5 DEF ServeBucket

\* What one bucket has changes.
Varies(g, f, b, v) == \A c \in Buckets : g[c] = IF c = b THEN v ELSE f[c]

\* BucketVaries: so it does with EXCEPT.
LEMMA BucketVaries ==
  ASSUME NEW f, PerBucket(f), NEW b, NEW v, NEW g, g = [f EXCEPT ![b] = v]
  PROVE  Varies(g, f, b, v)
<1>1. DOMAIN f = Buckets
  BY DEF PerBucket
<1> QED BY <1>1 DEF Varies

\* ServeOther: what the server does to a part is nothing to the others.
LEMMA ServeOther ==
  ASSUME TruthShape, NEW i \in DOMAIN requests, ServeBucket(i)
  PROVE  /\ \A part \in Changed \ {requests[i].part} : Held(part)' = Held(part)
         /\ \A part \in Wishes \ {requests[i].part} : Wanted(part)' = Wanted(part)
         /\ \A part : OnPanel(part)' = OnPanel(part)
         /\ created' = created
<1> DEFINE q == requests[i].part
           b == requests[i].of[1]
<1>1. PerKind(texts) /\ PerKind(texts_wished)
  BY DEF TruthShape
<1>2. UNCHANGED <<documents, bucket_tags, bucket_status, created>>
  BY DEF ServeBucket, ServeBucketLoad, ServeDocument, ServeBucketTags, ServeVersioning,
         bucketVars, bucketTruth
<1>3. \A part : OnPanel(part)' = OnPanel(part)
  BY <1>2 DEF OnPanel
<1>4. CASE ServeBucketLoad(i)
  BY <1>2, <1>3, <1>4 DEF ServeBucketLoad, bucketVars, bucketTruth, Held, Wanted
<1>5. CASE ServeDocument(i)
  <2>1. q \in Kinds /\ UNCHANGED <<labels, labels_wished, statuses>>
    BY <1>5 DEF ServeDocument
  <2>2. /\ texts' = texts \/ \E v : texts' = [texts EXCEPT ![q][b] = v]
        /\ texts_wished' = texts_wished
             \/ \E v : texts_wished' = [texts_wished EXCEPT ![q][b] = v]
    BY <1>5 DEF ServeDocument
  <2> HIDE DEF b
  <2>3. ASSUME NEW f, PerKind(f), NEW g, NEW v, g = [f EXCEPT ![q][b] = v]
        PROVE  Differ(g, f, q, b, v)
    BY <2>1, <2>3, NestedExcept
  <2>4. \A k \in Kinds \ {q} : texts'[k] = texts[k] /\ texts_wished'[k] = texts_wished[k]
    <3>1. texts' = texts \/ \E v : Differ(texts', texts, q, b, v)
      BY <1>1, <2>2, <2>3
    <3>2. texts_wished' = texts_wished \/ \E v : Differ(texts_wished', texts_wished, q, b, v)
      BY <1>1, <2>2, <2>3
    <3> QED BY <3>1, <3>2 DEF Differ
  <2> QED BY <1>2, <1>3, <2>1, <2>4 DEF Held, Wanted, Changed, Wishes
<1>6. CASE ServeBucketTags(i)
  BY <1>2, <1>3, <1>6 DEF ServeBucketTags, Held, Wanted, Changed, Wishes
<1>7. CASE ServeVersioning(i)
  BY <1>2, <1>3, <1>7 DEF ServeVersioning, Held, Wanted, Changed, Wishes
<1> QED BY <1>4, <1>5, <1>6, <1>7 DEF ServeBucket

\* Effect, Refusal: what serving request i does to the part it is about.
Truthful(i, part) ==
  requests[i].op = "load" /\ (requests'[i].ok => requests'[i].value = Held(part)[selected_bucket])
Effect(i, part) ==
  /\ requests[i].op # "load" /\ requests'[i].ok
  /\ \A b \in Buckets : Held(part)'[b] = IF b = selected_bucket THEN requests[i].value
                                         ELSE Held(part)[b]
  /\ Wanted(part)' = Wanted(part)
Refusal(i, part) ==
  /\ requests[i].op # "load" /\ ~requests'[i].ok
  /\ Held(part)' = Held(part)
  /\ part \in Wishes =>
       \A b \in Buckets : Wanted(part)'[b] = IF b = selected_bucket THEN Held(part)[b]
                                             ELSE Wanted(part)[b]

\* Read: what the server says a part is.
Read(r) == CASE r.part \in Kinds -> texts[r.part][r.of[1]]
             [] r.part = "bucket_tags" -> labels[r.of[1]]
             [] r.part = "versioning" -> statuses[r.of[1]]
             [] OTHER -> {}

\* ServedForm: the server reads a part, or changes it and says so, or refuses to.
LEMMA ServedForm ==
  ASSUME RequestsInv, TruthShape, NEW i \in DOMAIN requests, ServeBucket(i),
         ~unsure', follow' = follow, NEW part \in Changed, requests[i].part = part,
         requests[i].of = Here
  PROVE  (Truthful(i, part) /\ UNCHANGED bucketVars) \/ Effect(i, part) \/ Refusal(i, part)
<1>1. requests[i].of[1] = selected_bucket
  BY DEF Here, Of
<1>2. ASSUME NEW ok \in BOOLEAN, NEW value, Served(i, ok, value)
      PROVE  requests'[i].ok = ok /\ requests'[i].value = value
  BY <1>2, ServedKeeps
<1>3. PerBucket(labels) /\ PerBucket(labels_wished) /\ PerBucket(statuses)
  BY DEF TruthShape
<1>4. CASE ServeBucketLoad(i)
  <2>1. \E ok \in BOOLEAN : \E value :
          Served(i, ok, value) /\ (ok => value = Held(part)[selected_bucket])
    <3>1. PICK ok \in BOOLEAN : Served(i, ok, IF ~ok THEN {} ELSE Read(requests[i]))
      BY <1>4 DEF ServeBucketLoad, Read
    <3>2. PICK value : value = IF ~ok THEN {} ELSE Read(requests[i])
      OBVIOUS
    <3>3. CASE part \in Kinds
      <4>1. Read(requests[i]) = texts[part][selected_bucket] /\ Held(part) = texts[part]
        BY <1>1, <3>3 DEF Read, Held, Kinds
      <4> QED BY <3>1, <3>2, <4>1
    <3>4. CASE part \notin Kinds
      <4>1. Read(requests[i]) = Held(part)[selected_bucket]
        BY <1>1, <3>4 DEF Read, Held, Changed
      <4> QED BY <3>1, <3>2, <4>1
    <3> QED BY <3>3, <3>4
  <2>2. PICK ok \in BOOLEAN :
          \E value : Served(i, ok, value) /\ (ok => value = Held(part)[selected_bucket])
    BY <2>1
  <2>3. PICK value : Served(i, ok, value) /\ (ok => value = Held(part)[selected_bucket])
    BY <2>2
  <2>4. requests'[i].ok = ok /\ requests'[i].value = value
    BY <1>2, <2>3
  <2> QED BY <1>4, <2>3, <2>4 DEF Truthful, ServeBucketLoad
<1>5. CASE ServeDocument(i)
  <2>1. part \in Kinds /\ requests[i].op # "load"
    BY <1>5 DEF ServeDocument
  <2>2. CASE /\ texts' = [texts EXCEPT ![part][selected_bucket] = requests[i].value]
             /\ \E ok \in BOOLEAN : Served(i, ok, {}) /\ unsure' = (unsure \/ ~ok)
             /\ UNCHANGED texts_wished
    <3>1. requests'[i].ok
      BY <1>2, <2>2
    <3>2. PICK v : v = requests[i].value
      OBVIOUS
    <3>3. Differ(texts', texts, part, selected_bucket, v)
      BY <2>1, <2>2, <3>2, NestedExcept DEF TruthShape
    <3> QED BY <2>1, <2>2, <3>1, <3>2, <3>3 DEF Effect, Held, Wanted, Differ
  <2>3. CASE /\ Served(i, FALSE, {})
             /\ texts_wished' = [texts_wished EXCEPT ![part][selected_bucket] =
                                   texts[part][selected_bucket]]
             /\ UNCHANGED texts
    <3>1. requests'[i].ok = FALSE
      BY <1>2, <2>3
    <3>2. PICK v : v = texts[part][selected_bucket]
      OBVIOUS
    <3>3. Differ(texts_wished', texts_wished, part, selected_bucket, v)
      BY <2>1, <2>3, <3>2, NestedExcept DEF TruthShape
    <3> QED BY <2>1, <2>3, <3>1, <3>2, <3>3 DEF Refusal, Held, Wanted, Differ
  <2> QED BY <1>1, <1>5, <2>2, <2>3 DEF ServeDocument
<1>6. CASE ServeBucketTags(i)
  <2>1. part = "bucket_tags" /\ requests[i].op # "load" /\ part \notin Kinds
    BY <1>6 DEF ServeBucketTags, Kinds
  <2>2. CASE /\ labels' = [labels EXCEPT ![selected_bucket] = requests[i].value]
             /\ \E ok \in BOOLEAN : Served(i, ok, {}) /\ unsure' = (unsure \/ ~ok)
             /\ UNCHANGED labels_wished
    <3>1. requests'[i].ok
      BY <1>2, <2>2
    <3>2. PICK v : v = requests[i].value
      OBVIOUS
    <3>3. Varies(labels', labels, selected_bucket, v)
      BY <1>3, <2>2, <3>2, BucketVaries
    <3> QED BY <2>1, <2>2, <3>1, <3>2, <3>3 DEF Effect, Held, Wanted, Varies
  <2>3. CASE /\ Served(i, FALSE, {})
             /\ labels_wished' = [labels_wished EXCEPT ![selected_bucket] = labels[selected_bucket]]
             /\ UNCHANGED labels
    <3>1. requests'[i].ok = FALSE
      BY <1>2, <2>3
    <3>2. PICK v : v = labels[selected_bucket]
      OBVIOUS
    <3>3. Varies(labels_wished', labels_wished, selected_bucket, v)
      BY <1>3, <2>3, <3>2, BucketVaries
    <3> QED BY <2>1, <2>3, <3>1, <3>2, <3>3 DEF Refusal, Held, Wanted, Varies
  <2> QED BY <1>1, <1>6, <2>2, <2>3 DEF ServeBucketTags
<1>7. CASE ServeVersioning(i)
  <2>1. /\ part = "versioning" /\ requests[i].op # "load" /\ part \notin Kinds \union Wishes
        /\ UNCHANGED labels_wished
    BY <1>7 DEF ServeVersioning, Kinds, Wishes
  <2>2. CASE /\ statuses' = [statuses EXCEPT ![selected_bucket] = requests[i].value]
             /\ \E ok \in BOOLEAN : Served(i, ok, {}) /\ unsure' = (unsure \/ ~ok)
    <3>1. requests'[i].ok
      BY <1>2, <2>2
    <3>2. PICK v : v = requests[i].value
      OBVIOUS
    <3>3. Varies(statuses', statuses, selected_bucket, v)
      BY <1>3, <2>2, <3>2, BucketVaries
    <3> QED BY <2>1, <2>2, <3>1, <3>2, <3>3 DEF Effect, Held, Wanted, Varies
  <2>3. CASE Served(i, FALSE, {}) /\ UNCHANGED statuses
    <3>1. requests'[i].ok = FALSE
      BY <1>2, <2>3
    <3> QED BY <2>1, <2>3, <3>1 DEF Refusal, Held
  <2> QED BY <1>1, <1>7, <2>2, <2>3 DEF ServeVersioning
<1> QED BY <1>4, <1>5, <1>6, <1>7 DEF ServeBucket

\* ServedParts: when the server answers about a bucket's panel.
LEMMA ServedParts ==
  ASSUME RequestsInv, SelectionInv, ShownOfBucket, TruthShape, Sole, ~restless, ~unsure',
         NEW i \in DOMAIN requests, ServeBucket(i), requests[i].at = "sent",
         UNCHANGED <<follow, selected_bucket, selection>>
  PROVE  /\ \A part \in Changed : PartTrue(part) => PartTrue(part)'
         /\ \A part \in Wishes : PartMeant(part) => PartMeant(part)'
<1>1. requests[i].part \in BucketParts /\ ServedOnly(i)
  BY ServeBucketRequests
<1>2. requests[i].of = Here /\ selected_bucket \in Buckets
  <2>1. requests[i].part # "bucket"
    BY <1>1 DEF BucketParts, Kinds
  <2> QED BY <1>1, <2>1 DEF ShownOfBucket, SelectionInv, Grounded
<1>3. /\ \A part \in Changed \ {requests[i].part} : Held(part)' = Held(part)
      /\ \A part \in Wishes \ {requests[i].part} : Wanted(part)' = Wanted(part)
      /\ \A part : OnPanel(part)' = OnPanel(part)
      /\ created' = created
  BY ServeOther
<1>4. BucketShown' = BucketShown
  BY DEF BucketShown
<1>5. ASSUME NEW part \in Changed, requests[i].part # part
      PROVE  /\ PartTrue(part) => PartTrue(part)'
             /\ part \in Wishes => (PartMeant(part) => PartMeant(part)')
  <2>1. About(part)' = About(part)
    BY <1>1, <1>5, AboutServed
  <2> QED BY <1>3, <1>4, <1>5, <2>1, PartFrame
<1>6. ASSUME NEW part \in Changed, requests[i].part = part
      PROVE  /\ PartTrue(part) => PartTrue(part)'
             /\ part \in Wishes => (PartMeant(part) => PartMeant(part)')
  <2>1. CASE Truthful(i, part) /\ UNCHANGED bucketVars
    BY <1>1, <1>6, <2>1, PartRead DEF Truthful
  <2>2. CASE Effect(i, part)
    <3>1. Pending(requests[i])
      BY <2>2 DEF Pending, Effect
    <3> QED BY <1>1, <1>2, <1>3, <1>6, <2>2, <3>1, PartDone DEF Effect
  <2>3. CASE Refusal(i, part)
    <3>1. Pending(requests[i])
      BY <2>3 DEF Pending, Refusal
    <3>2. PartTrue(part) => PartTrue(part)'
      BY <1>1, <1>3, <1>6, <2>3, <3>1, PartRefused DEF Refusal
    <3>3. Is(part)' => PartMeant(part)'
      BY <1>1, <1>3, <1>6, <2>3, <3>1, PartRefused DEF Refusal
    <3>4. ASSUME part \in Wishes, PartMeant(part), ~Excepted(part)
          PROVE  Is(part)'
      <4>1. requests[i] \in About(part)
        BY <1>6 DEF About
      <4>2. WillBe(part, requests[i])
        BY <3>1, <3>4, <4>1 DEF PartMeant
      <4> QED BY <2>3, <3>4, <4>2 DEF Refusal, WillBe, Is
    <3>5. Excepted(part) => PartMeant(part)'
      BY <1>3 DEF PartMeant, Excepted
    <3> QED BY <3>2, <3>3, <3>4, <3>5
  <2> QED BY <1>2, <1>6, <2>1, <2>2, <2>3, ServedForm
<1>7. Wishes \subseteq Changed
  BY DEF Wishes, Changed
<1> QED BY <1>5, <1>6, <1>7

\* OneAlone: one request at most is under way after one was started while nothing was.
LEMMA OneAlone ==
  ASSUME RequestsInv, requests = <<>>, NEW r, Start({r})
  PROVE  /\ Sole'
         /\ \A part : About(part)' = IF r.part = part /\ part \in follow THEN {r} ELSE {}
<1>1. PICK new : new = {r}
  OBVIOUS
<1>2. IsFiniteSet(new) /\ Start(new)
  BY <1>1, FS_Singleton
<1>3. /\ \A part : About(part)' = {q \in new : q.part = part /\ part \in follow}
      /\ \A l \in DOMAIN requests' : requests'[l] \in new
      /\ \A a, b \in DOMAIN requests' : requests'[a] = requests'[b] => a = b
  BY <1>2, StartAlone
<1>4. \A a, b \in DOMAIN requests' : a = b
  BY <1>1, <1>3
<1>5. Sole'
  BY <1>4 DEF Sole
<1> QED BY <1>1, <1>3, <1>5

\* BucketEditParts: when the user, who waited, edits a bucket's panel.
LEMMA BucketEditParts ==
  ASSUME DetailsInv, TruthShape, requests = <<>>, BucketEdit,
         UNCHANGED <<selected_bucket, selection, follow>>,
         PartTrue("bucket_tags"), PartMeant("bucket_tags")
  PROVE  /\ Sole'
         /\ \A part \in Changed : PartTrue(part) => PartTrue(part)'
         /\ \A part \in Wishes : PartMeant(part) => PartMeant(part)'
<1> USE DEF DetailsInv
<1>1. selected_bucket \in Buckets
  <2>1. ASSUME NEW kind, OpenDocumentEditor(kind) \/ CancelDocumentEditor(kind)
                           \/ \E text \in Texts : DocumentEdited(kind, text)
        PROVE  BucketShown
    BY <2>1 DEF OpenDocumentEditor, CancelDocumentEditor, DocumentEdited
  <2>2. ASSUME NEW kind, SaveDocument(kind) \/ DeleteDocument(kind)
        PROVE  BucketShown
    BY <2>2 DEF SaveDocument, DeleteDocument
  <2>3. ASSUME NEW t, AddBucketTag(t) \/ RemoveBucketTag(t) \/ ToggleVersioning(t)
        PROVE  BucketShown
    BY <2>3 DEF AddBucketTag, RemoveBucketTag, ToggleVersioning
  <2>4. BucketShown
    BY <2>1, <2>2, <2>3 DEF BucketEdit
  <2> QED BY <2>4, BucketShownSuits DEF SelectionInv
<1>2. /\ \A part \in Changed : OnPanel(part)' = OnPanel(part)
      /\ created' = created
  <2>1. PICK new : BucketEdited(new)
    BY BucketEditForm
  <2> QED BY <2>1 DEF BucketEdited, OnPanel
<1>3. UNCHANGED <<texts, labels, statuses>>
  BY WantedShape
<1>4. \A part : About(part) = {} /\ Awaited(part) = FALSE
  BY NothingAsked
<1>5. (BucketShown /\ ~created /\ bucket_tags.is = "Ok") =>
        bucket_tags.value = labels_wished[selected_bucket]
  <2>1. /\ OnPanel("bucket_tags") = bucket_tags /\ Held("bucket_tags") = labels
        /\ Wanted("bucket_tags") = labels_wished /\ (Excepted("bucket_tags") <=> created)
    BY DEF OnPanel, Held, Wanted, Excepted, Kinds
  <2>2. ~created => labels_wished[selected_bucket] = labels[selected_bucket]
    BY <1>1, <1>4, <2>1 DEF PartMeant, Is
  <2> QED BY <1>4, <2>1, <2>2 DEF PartTrue, ShownTrue
<1>6. CASE UNCHANGED <<requests, texts_wished, labels_wished>>
  <2>1. Sole'
    BY <1>6 DEF Sole
  <2>2. \A part : About(part)' = {} /\ Wanted(part)' = Wanted(part)
    BY <1>4, <1>6 DEF About, Wanted
  <2> QED BY <1>2, <1>3, <2>1, <2>2, PartLeft DEF Wishes, Changed
<1>7. CASE \E r : Asks(r)
  <2>1. PICK r : Asks(r)
    BY <1>7
  <2>2. /\ Sole'
        /\ \A part : About(part)' = IF r.part = part /\ part \in follow THEN {r} ELSE {}
    BY <2>1, OneAlone DEF Asks
  <2>3. ASSUME NEW part \in Changed, part # r.part
        PROVE  /\ PartTrue(part) => PartTrue(part)'
               /\ part \in Wishes => (PartMeant(part) => PartMeant(part)')
    <3>1. About(part)' = {}
      BY <2>2, <2>3
    <3>2. part \in Wishes => Wanted(part)' = Wanted(part)
      BY <2>1, <2>3 DEF Asks, WishedFor
    <3> QED BY <1>2, <1>3, <2>3, <3>1, <3>2, PartLeft
  <2>4. ASSUME NEW part \in Changed, part = r.part
        PROVE  /\ PartTrue(part) => PartTrue(part)'
               /\ part \in Wishes => (PartMeant(part) => PartMeant(part)')
    <3>1. About(part)' = {r} /\ Pending(r) /\ (r.op = "delete" => r.value = NoText)
      BY <2>1, <2>2, <2>4 DEF Asks
    <3>2. /\ PartTrue(part) => PartTrue(part)'
          /\ (Excepted(part) \/ WillBe(part, r)') => PartMeant(part)'
      BY <1>2, <1>3, <2>4, <3>1, PartCommanded
    <3>3. ASSUME part \in Wishes, PartMeant(part), ~Excepted(part)
          PROVE  WillBe(part, r)'
      <4>1. Held(part)' = Held(part)
        BY <1>3 DEF Held
      <4>2. Is(part)
        BY <1>4, <3>3 DEF PartMeant
      <4>3. \A b \in Buckets : Wanted(part)'[b] = IF b = selected_bucket THEN r.value
                                                  ELSE Wanted(part)[b]
        BY <2>1, <2>4, <3>3 DEF Asks, WishedFor
      <4> QED BY <4>1, <4>2, <4>3 DEF WillBe, Is
    <3> QED BY <3>2, <3>3
  <2>5. Wishes \subseteq Changed
    BY DEF Wishes, Changed
  <2> QED BY <2>2, <2>3, <2>4, <2>5
<1> QED BY <1>1, <1>5, <1>6, <1>7, BucketEditAsks DEF BucketInv

\* LoadsAlone: so for loads, however many.
LEMMA LoadsAlone ==
  ASSUME RequestsInv, requests = <<>>, NEW new, IsFiniteSet(new), Loads(new), Start(new)
  PROVE  /\ Sole'
         /\ \A part : About(part)' = {r \in new : r.part = part /\ part \in follow}
<1>1. /\ \A part : About(part)' = {r \in new : r.part = part /\ part \in follow}
      /\ \A l \in DOMAIN requests' : requests'[l] \in new
  BY StartAlone
<1>2. Sole'
  BY <1>1 DEF Sole, Loads
<1> QED BY <1>1, <1>2

\* SelectParts: when the user, who waited, selects something.
LEMMA SelectParts ==
  ASSUME DetailsInv, requests = <<>>, Select
  PROVE  /\ Sole'
         /\ \A part \in Changed : PartTrue(part)' /\ (PartMeant(part) => PartMeant(part)')
<1> DEFINE Goal == /\ Sole'
                   /\ \A part \in Changed : PartTrue(part)' /\ (PartMeant(part) => PartMeant(part)')
<1> USE DEF DetailsInv
<1>1. UNCHANGED <<bucketTruth, created>>
  BY DEF Select, SelectBucket, NavigatePrefix, SelectObject, ClearSelection, bucketVars
<1>2. ASSUME NEW new, Loads(new), Sole', \A part : About(part)' \subseteq new,
             \A part \in Changed : (BucketShown' /\ OnPanel(part)'.is = "Ok") => Awaited(part)'
      PROVE  Goal
  BY <1>1, <1>2, PartAnew
<1> HIDE DEF Goal
<1>3. ASSUME NEW b \in Buckets, SelectBucket(b)
      PROVE  Goal
  <2>1. PICK new : new = {Load("objects", Of(b, Root)), Load("versioning", Of(b, NoKey)),
                        Load("policy", Of(b, NoKey)), Load("lifecycle", Of(b, NoKey)),
                        Load("bucket_tags", Of(b, NoKey)), Load("ftt", Of(b, NoKey))}
    OBVIOUS
  <2>2. /\ IsFiniteSet(new)
        /\ \A r \in new :
             /\ Formed(r) /\ r.op = "load"
             /\ r.part = "objects" \/ (r.part \in BucketParts /\ r.of = Of(b, NoKey))
        /\ \A part \in BucketParts \union {"objects"} : \E r \in new : r.part = part
    BY <2>1, BucketLoads
  <2>3. Loads(new)
    BY <2>1 DEF Loads, Load, Request
  <2>4. Start(new)
    BY <1>3, <2>1 DEF SelectBucket
  <2>5. Sole' /\ \A part : About(part)' = {r \in new : r.part = part /\ part \in follow}
    BY <2>2, <2>3, <2>4, LoadsAlone
  <2>6. /\ \A kind \in Kinds : documents'[kind].loaded = Empty
        /\ bucket_tags' = Empty /\ bucket_status'["versioning"] = bucket_status["versioning"]
    BY <1>3, DocumentsReset DEF SelectBucket, BucketInv, BucketShape
  <2>7. \A part \in Changed : OnPanel(part)'.is = "Ok" => part \in follow
    BY <2>6, EmptyFields DEF OnPanel, Changed, Kinds, BucketInv, BucketFollowed
  <2>8. \A part \in Changed : OnPanel(part)'.is = "Ok" => Awaited(part)'
    BY <2>2, <2>5, <2>7 DEF Awaited, Renews, Changed, BucketParts
  <2> QED BY <1>2, <2>3, <2>5, <2>8
<1>4. ASSUME ~BucketShown', NEW new, IsFiniteSet(new), Loads(new), Start(new)
      PROVE  Goal
  <2>1. Sole' /\ \A part : About(part)' = {r \in new : r.part = part /\ part \in follow}
    BY <1>4, LoadsAlone
  <2> QED BY <1>2, <1>4, <2>1
<1>5. ASSUME NEW prefix \in Folders, NavigatePrefix(prefix)
      PROVE  Goal
  <2>1. PICK new : new = {Load("objects", HereIn(prefix))}
    OBVIOUS
  <2>2. IsFiniteSet(new) /\ Loads(new)
    <3>1. IsFiniteSet(new)
      BY <2>1, FS_Singleton
    <3>2. Loads(new)
      BY <2>1 DEF Loads, Load, Request
    <3> QED BY <3>1, <3>2
  <2>3. Start(new) /\ ~BucketShown'
    BY <1>5, <2>1 DEF NavigatePrefix, BucketShown, None
  <2> QED BY <1>4, <2>2, <2>3
<1>6. ASSUME NEW k \in Keys, SelectObject(k)
      PROVE  Goal
  <2>1. PICK new : new = OpeningLoads(Of(selected_bucket, k))
    OBVIOUS
  <2>2. Of(selected_bucket, k) \in Objects
    BY <1>6 DEF SelectObject, SelectionInv, Of, Objects
  <2>3. IsFiniteSet(new) /\ Loads(new)
    BY <2>1, <2>2, OpeningRequests DEF Loads
  <2>4. Start(new) /\ ~BucketShown'
    BY <1>6, <2>1 DEF SelectObject, BucketShown, Object
  <2> QED BY <1>4, <2>3, <2>4
<1>7. ASSUME ClearSelection
      PROVE  Goal
  <2>1. requests' = <<>> /\ ~BucketShown'
    BY <1>7 DEF ClearSelection, BucketShown, None
  <2>2. DOMAIN requests' = {}
    BY <2>1
  <2>3. Sole' /\ (\A part : About(part)' = {}) /\ Loads({})
    BY <2>2 DEF Sole, About, Loads
  <2> QED BY <1>2, <2>1, <2>3
<1> QED BY <1>3, <1>5, <1>6, <1>7 DEF Select, Goal

\* ObjectMessageAfter, ListMessageAfter: what an answer about something else starts.
LEMMA ObjectMessageAfter ==
  ASSUME RequestsInv, NEW i \in DOMAIN requests, ObjectMessage(i), follow' = follow
  PROVE  \E new : After(i, new)
<1> DEFINE Goal == \E new : After(i, new)
<1> SUFFICES Goal
  OBVIOUS
<1>1. ASSUME Handled(i, {})
      PROVE  Goal
  BY <1>1, NoneStarted
<1>2. ASSUME NEW part, NEW of, Handled(i, {Load(part, of)})
      PROVE  Goal
  BY <1>2, OneStarted
<1>3. ASSUME Handled(i, {Load("versions", SelectedObject), Load("detail", SelectedObject)})
      PROVE  Goal
  <2>1. PICK new : new = {Load("versions", SelectedObject), Load("detail", SelectedObject)}
    OBVIOUS
  <2>2. Handled(i, new) /\ IsFiniteSet(new)
    BY <1>3, <2>1, PairIsFinite
  <2>3. Loads(new)
    BY <2>1 DEF Loads, Load, Request
  <2>4. Replaced(i, new)
    BY <2>2, HandledReplaces DEF RequestsInv
  <2> QED BY <2>3, <2>4 DEF After
<1> HIDE DEF Goal
<1>4. CASE TagsSaved(i)
  BY <1>1, <1>2, <1>4 DEF TagsSaved
<1>5. CASE VersionDeleted(i)
  BY <1>1, <1>2, <1>5 DEF VersionDeleted, VersionDone
<1>6. CASE VersionRestored(i)
  BY <1>1, <1>3, <1>6 DEF VersionRestored, VersionDone
<1>7. CASE HealObjectFinished(i)
  <2>1. Handled(i, {Load("inspect", requests[i].of)}) \/ Handled(i, {})
    BY <1>7 DEF HealObjectFinished
  <2> QED BY <1>1, <1>2, <2>1
<1>8. CASE ObjectInspectLoaded(i) \/ ObjectPartLoaded(i)
  BY <1>1, <1>8 DEF ObjectInspectLoaded, ObjectPartLoaded
<1> QED BY <1>4, <1>5, <1>6, <1>7, <1>8 DEF ObjectMessage

\* ListMessageAfter: an answer of the list starts a listing, or nothing.
LEMMA ListMessageAfter ==
  ASSUME RequestsInv, NEW i \in DOMAIN requests, ListMessage(i) \/ DeleteDone(i), follow' = follow
  PROVE  \E new : After(i, new)
<1> DEFINE Goal == \E new : After(i, new)
<1>1. ASSUME Handled(i, {})
      PROVE  Goal
  BY <1>1, NoneStarted
<1>2. ASSUME Handled(i, {FetchObjects})
      PROVE  Goal
  BY <1>2, OneStarted DEF FetchObjects
<1> HIDE DEF Goal
<1>3. Goal
  BY <1>1, <1>2 DEF ListMessage, ObjectsLoaded, FindComplete, UploadDone, DeleteDone
<1> QED BY <1>3 DEF Goal

\* AboutAfter: the requests about a part after an answer about another.
LEMMA AboutAfter ==
  ASSUME NEW i \in DOMAIN requests, NEW new, After(i, new), NEW part, requests[i].part # part,
         \A r \in new : r.part # part
  PROVE  About(part)' = About(part)
  BY DEF About, After, Replaced

\* CreatedParts: after a bucket was created nothing but its listing is under way.
LEMMA CreatedParts ==
  ASSUME DetailsInv, Sole, NEW i \in DOMAIN requests, CreateBucketDone(i), follow' = follow,
         requests[i].ok
  PROVE  /\ Sole'
         /\ \A part \in Changed : PartTrue(part)' /\ (PartMeant(part) => PartMeant(part)')
<1>1. PICK new : new = {Load("objects", Of(requests[i].of[1], Root))}
  OBVIOUS
<1>2. /\ requests[i].part = "bucket" /\ requests[i].op = "create"
      /\ created' = TRUE /\ ResetDocuments /\ UNCHANGED bucketTruth
      /\ Handled(i, new)
  BY <1>1 DEF CreateBucketDone, Delivered
<1>3. After(i, new) /\ \A r \in new : r.part = "objects"
  BY <1>1, <1>2, OneStarted DEF DetailsInv
<1>4. Sole'
  BY <1>3, SoleAfter
<1>5. DOMAIN requests = {i}
  BY <1>2 DEF Sole
<1>6. \A part \in Changed : About(part) = {} /\ About(part)' = {}
  BY <1>2, <1>3, <1>5 DEF About, After, Replaced, Changed, Kinds
<1>7. ASSUME NEW part \in Changed
      PROVE  PartTrue(part)' /\ (PartMeant(part) => PartMeant(part)')
  <2>1. Held(part)' = Held(part) /\ Wanted(part)' = Wanted(part)
    BY <1>2 DEF Held, Wanted, bucketTruth
  <2>2. part \in Kinds => OnPanel(part)'.is = "None" /\ ~Excepted(part)
    BY <1>2, DocumentsReset, EmptyFields DEF OnPanel, Excepted
  <2>3. part \notin Kinds => Excepted(part)'
    BY <1>2 DEF Excepted
  <2>4. PartTrue(part)'
    BY <1>6, <1>7, <2>2, <2>3 DEF PartTrue, AnswersTrue, DeletesTrue, ShownTrue
  <2>5. PartMeant(part) => PartMeant(part)'
    BY <1>6, <1>7, <2>1, <2>2, <2>3 DEF PartMeant, Is
  <2> QED BY <2>4, <2>5
<1> QED BY <1>4, <1>7

\* MessageParts: when an answer is handled, and selects nothing else.
LEMMA MessageParts ==
  ASSUME DetailsInv, Sole, NEW i \in DOMAIN requests, Message(i), ~restless'
  PROVE  /\ Sole'
         /\ \A part \in Changed : /\ PartTrue(part) => PartTrue(part)'
                                  /\ PartMeant(part) => PartMeant(part)'
<1> USE DEF DetailsInv
<1> DEFINE Goal == /\ Sole'
                   /\ \A part \in Changed : /\ PartTrue(part) => PartTrue(part)'
                                            /\ PartMeant(part) => PartMeant(part)'
<1> SUFFICES Goal
  OBVIOUS
<1>1. follow' = follow
  BY DEF Message, Handles
<1>2. ASSUME NEW new, After(i, new)
      PROVE  Sole'
  BY <1>2, SoleAfter
<1>3. CASE /\ UNCHANGED <<selected_bucket, selection>>
           /\ \/ ObjectMessage(i) /\ UNCHANGED <<bucketVars, listVars>>
              \/ BucketMessage(i) /\ UNCHANGED <<objectVars, listVars>>
              \/ ListMessage(i) /\ UNCHANGED <<objectVars, bucketVars>>
  <2>1. BucketShown' = BucketShown
    BY <1>3 DEF BucketShown
  <2>2. ASSUME NEW new, After(i, new), SameOf(BucketParts), UNCHANGED bucketVars
        PROVE  Goal
    BY <1>2, <1>3, <2>1, <2>2, PanelFrame
  <2>3. CASE BucketMessage(i)
    <3>1. BucketFilled(i)
      BY <1>1, <1>3, <2>3, BucketMessageForm DEF BucketInv
    <3>2. PICK new : After(i, new) /\ \A part \in Changed : Fills(i, new, part)
      BY <3>1 DEF BucketFilled
    <3>3. /\ requests[i].part \in follow /\ requests[i].at = "done"
          /\ UNCHANGED <<bucketTruth, created>>
      BY <3>1 DEF BucketFilled, RequestsInv
    <3>4. \A part \in Changed : /\ PartTrue(part) => PartTrue(part)'
                                /\ PartMeant(part) => PartMeant(part)'
      BY <1>3, <2>1, <3>2, <3>3, PartAnswered
    <3> QED BY <1>2, <3>2, <3>4
  <2> HIDE DEF Goal
  <2>4. CASE ObjectMessage(i) /\ UNCHANGED <<bucketVars, listVars>>
    <3>1. SameOf(BucketParts)
      BY <1>1, <1>3, <2>4, ObjectMessageRequests, SameOfFewer DEF NotOfObjects
    <3>2. PICK new : After(i, new)
      BY <1>1, <2>4, ObjectMessageAfter
    <3> QED BY <2>2, <2>4, <3>1, <3>2
  <2>5. CASE ListMessage(i) /\ UNCHANGED <<objectVars, bucketVars>>
    <3>1. SameOf(BucketParts)
      BY <1>1, <1>3, <2>5, ListMessageRequests, SameOfFewer DEF NotOfLists, ListInv
    <3>2. PICK new : After(i, new)
      BY <1>1, <2>5, ListMessageAfter
    <3> QED BY <2>2, <2>5, <3>1, <3>2
  <2> QED BY <1>3, <2>3, <2>4, <2>5
<1>4. CASE DeleteDone(i)
  <2>1. PICK new : After(i, new) /\ \A r \in new : r.part = "objects"
    <3>1. ASSUME Handled(i, {FetchObjects})
          PROVE  \E new : After(i, new) /\ \A r \in new : r.part = "objects"
      <4>1. PICK new : new = {Load("objects", HereIn(list.current_prefix))}
        OBVIOUS
      <4>2. Handled(i, new)
        BY <3>1, <4>1 DEF FetchObjects
      <4> QED BY <4>1, <4>2, OneStarted
    <3>2. ASSUME Handled(i, {})
          PROVE  \E new : After(i, new) /\ \A r \in new : r.part = "objects"
      <4>1. After(i, {})
        BY <1>1, <3>2, NoneStarted
      <4> QED BY <4>1
    <3>3. Handled(i, {FetchObjects}) \/ Handled(i, {})
      BY <1>4 DEF DeleteDone
    <3> QED BY <3>1, <3>2, <3>3
  <2>2. requests[i].part = "object" /\ UNCHANGED <<selected_bucket, bucketTruth, created>>
    BY <1>4 DEF DeleteDone, Delivered
  <2>3. \A part \in Changed : About(part)' = About(part)
    BY <2>1, <2>2, AboutAfter DEF Changed, Kinds
  <2>4. \A part : Held(part)' = Held(part) /\ Wanted(part)' = Wanted(part)
    BY <2>2 DEF Held, Wanted, bucketTruth
  <2>5. \A part : BucketShown' => BucketShown /\ OnPanel(part)' = OnPanel(part)
    BY <1>4 DEF DeleteDone, BucketShown, OnPanel, None
  <2> QED BY <1>2, <2>1, <2>2, <2>3, <2>4, <2>5, PartFrame
<1>5. CASE CreateBucketDone(i)
  <2>1. CASE requests[i].ok
    BY <1>1, <1>5, <2>1, CreatedParts
  <2>2. CASE ~requests[i].ok
    <3>1. /\ UNCHANGED <<selected_bucket, selection, documents, created, bucket_tags,
                         bucket_status, bucketTruth>>
          /\ requests[i].part = "bucket" /\ Handled(i, {})
      BY <1>5, <2>2 DEF CreateBucketDone, Delivered
    <3>2. After(i, {})
      BY <1>1, <3>1, NoneStarted
    <3>3. \A part \in Changed : About(part)' = About(part)
      BY <3>1, <3>2, AboutAfter DEF Changed, Kinds
    <3>4. \A part : Held(part)' = Held(part) /\ Wanted(part)' = Wanted(part)
      BY <3>1 DEF Held, Wanted, bucketTruth
    <3>5. \A part : BucketShown' => BucketShown /\ OnPanel(part)' = OnPanel(part)
      BY <3>1 DEF BucketShown, OnPanel
    <3> QED BY <1>2, <3>1, <3>2, <3>3, <3>4, <3>5, PartFrame
  <2> QED BY <2>1, <2>2
<1> QED BY <1>3, <1>4, <1>5 DEF Message

\* ObjectEditStarts, ListEditStarts: an edit starts one request, or none.
LEMMA ObjectEditStarts ==
  ASSUME ObjectEdit
  PROVE  UNCHANGED requests \/ \E r : Start({r})
<1> DEFINE Goal == UNCHANGED requests \/ \E r : Start({r})
<1> SUFFICES Goal
  OBVIOUS
<1>1. ASSUME NEW r, Start({r})
      PROVE  Goal
  BY <1>1
<1>2. ASSUME UNCHANGED requests
      PROVE  Goal
  BY <1>2
<1> HIDE DEF Goal
<1>3. ASSUME NEW t, AddTag(t) \/ RemoveTag(t)
      PROVE  Goal
  BY <1>1, <1>3 DEF AddTag, RemoveTag, SaveTags
<1>4. ASSUME NEW row, DeleteVersion(row) \/ RestoreVersion(row)
      PROVE  Goal
  BY <1>1, <1>4 DEF DeleteVersion, RestoreVersion, OnVersion
<1>5. CASE OpenShareModal \/ CloseShareModal \/ OpenHealConfirm \/ CancelHealConfirm
  BY <1>2, <1>5 DEF OpenShareModal, CloseShareModal, OpenHealConfirm, CancelHealConfirm
<1>6. CASE GenerateShareUrl \/ RefreshObjectInspect
  BY <1>1, <1>6 DEF GenerateShareUrl, RefreshObjectInspect
<1>7. CASE ConfirmHealObject
  BY <1>1, <1>7 DEF ConfirmHealObject
<1> QED BY <1>3, <1>4, <1>5, <1>6, <1>7 DEF ObjectEdit

\* ListEditStarts: so does an edit of the list.
LEMMA ListEditStarts ==
  ASSUME ListEdit
  PROVE  UNCHANGED requests \/ \E r : Start({r})
<1> DEFINE Goal == UNCHANGED requests \/ \E r : Start({r})
<1> SUFFICES Goal
  OBVIOUS
<1>1. ASSUME NEW r, Start({r})
      PROVE  Goal
  BY <1>1
<1>2. ASSUME UNCHANGED requests
      PROVE  Goal
  BY <1>2
<1> HIDE DEF Goal
<1>3. CASE Refresh \/ Find \/ DeleteObject
  BY <1>1, <1>3 DEF Refresh, Find, DeleteObject
<1>4. CASE ClearFind \/ SelectAllObjects \/ ClearObjectSelection
  BY <1>2, <1>4 DEF ClearFind, SelectAllObjects, ClearObjectSelection
<1>5. ASSUME NEW f, ObjectFilterChanged(f) \/ ToggleObjectSelected(f)
      PROVE  Goal
  BY <1>2, <1>5 DEF ObjectFilterChanged, ToggleObjectSelected
<1>6. ASSUME NEW k, Upload(k) \/ CreateBucket(k)
      PROVE  Goal
  BY <1>1, <1>6 DEF Upload, CreateBucket
<1> QED BY <1>3, <1>4, <1>5, <1>6 DEF ListEdit

\* EditParts: when the user, who waited, edits something.
LEMMA EditParts ==
  ASSUME DetailsInv, TruthShape, requests = <<>>, EditSomething,
         PartTrue("bucket_tags"), PartMeant("bucket_tags")
  PROVE  /\ Sole'
         /\ \A part \in Changed : PartTrue(part) => PartTrue(part)'
         /\ \A part \in Wishes : PartMeant(part) => PartMeant(part)'
<1> USE DEF DetailsInv
<1>1. UNCHANGED <<selected_bucket, selection, follow>>
  BY DEF EditSomething, Edits
<1>2. Wishes \subseteq Changed
  BY DEF Wishes, Changed
<1>3. ASSUME UNCHANGED requests \/ \E r : Start({r}), SameOf(BucketParts), UNCHANGED bucketVars
      PROVE  /\ Sole'
             /\ \A part \in Changed : /\ PartTrue(part) => PartTrue(part)'
                                      /\ PartMeant(part) => PartMeant(part)'
  <2>1. Sole'
    <3>1. CASE UNCHANGED requests
      BY <3>1 DEF Sole
    <3>2. CASE \E r : Start({r})
      BY <3>2, OneAlone
    <3> QED BY <1>3, <3>1, <3>2
  <2>2. BucketShown' => BucketShown
    BY <1>1 DEF BucketShown
  <2> QED BY <1>1, <1>3, <2>1, <2>2, PanelFrame
<1>4. CASE ObjectEdit /\ UNCHANGED <<bucketVars, listVars>>
  <2>1. SameOf(BucketParts)
    BY <1>1, <1>4, ObjectEditRequests, SameOfFewer DEF ObjectInv, NotOfObjects
  <2> QED BY <1>2, <1>3, <1>4, <2>1, ObjectEditStarts
<1>5. CASE BucketEdit
  BY <1>1, <1>5, BucketEditParts
<1>6. CASE ListEdit /\ UNCHANGED <<objectVars, bucketVars>>
  <2>1. SameOf(BucketParts)
    BY <1>1, <1>6, ListEditRequests, SameOfFewer DEF ListInv, NotOfLists
  <2> QED BY <1>2, <1>3, <1>6, <2>1, ListEditStarts
<1> QED BY <1>4, <1>5, <1>6 DEF EditSomething

\* ServeParts: when the server does its work, and every change that takes effect is answered.
LEMMA ServeParts ==
  ASSUME DetailsInv, TruthShape, Sole, ~restless, ~unsure', NEW i \in DOMAIN requests, Serve(i)
  PROVE  /\ Sole'
         /\ \A part \in Changed : PartTrue(part) => PartTrue(part)'
         /\ \A part \in Wishes : PartMeant(part) => PartMeant(part)'
<1> USE DEF DetailsInv
<1>1. UNCHANGED <<selected_bucket, selection, follow>> /\ requests[i].at = "sent"
  BY DEF Serve
<1>2. Wishes \subseteq Changed
  BY DEF Wishes, Changed
<1>3. BucketShown' => BucketShown
  BY <1>1 DEF BucketShown
<1>4. CASE ServeObject(i) /\ UNCHANGED <<bucketVars, listVars>>
  <2>1. SameOf(BucketParts) /\ ServedOnly(i)
    BY <1>1, <1>4, ServeObjectRequests, SameOfFewer DEF NotOfObjects
  <2> QED BY <1>1, <1>2, <1>3, <1>4, <2>1, SoleServed, PanelFrame
<1>5. CASE ServeBucket(i)
  <2>1. ServedOnly(i)
    BY <1>1, <1>5, ServeBucketRequests
  <2> QED BY <1>1, <1>5, <2>1, SoleServed, ServedParts DEF BucketInv
<1>6. CASE (ServeListing(i) \/ ServeCommand(i)) /\ UNCHANGED <<objectVars, bucketVars>>
  <2>1. SameOf(BucketParts) /\ ServedOnly(i)
    BY <1>1, <1>6, ServeListRequests, SameOfFewer DEF NotOfLists
  <2> QED BY <1>1, <1>2, <1>3, <1>6, <2>1, SoleServed, PanelFrame
<1> QED BY <1>4, <1>5, <1>6 DEF Serve

-----------------------------------------------------------------------------
(* What the list shows when the user waits for the answers *)

\* ListSame: steps of the panels leave the list true.
LEMMA ListSame ==
  ASSUME ListTrue, SameOf(ListingParts), UNCHANGED <<list, stored, picked, selected_bucket, follow>>
  PROVE  ListTrue'
<1>1. \A part \in ListingParts : About(part)' = About(part) /\ Awaited(part)' = Awaited(part)
  BY AboutSame
<1>2. InPrefix' = InPrefix /\ StoredHere' = StoredHere
  BY DEF InPrefix, StoredHere, HereIn
<1>3. Commands' /\ ListFollowed'
  BY <1>1 DEF ListTrue, Commands, ListFollowed, ListingParts
<1>4. ListingsAsked' /\ ListingShown' /\ PickedHere'
  BY <1>1, <1>2 DEF ListTrue, ListingsAsked, ListingShown, PickedHere, ListingParts
<1> QED BY <1>3, <1>4 DEF ListTrue

ListFields == {"objects", "loading_objects", "find_results", "finding", "selected_keys",
               "current_prefix", "object_filter"}

\* SameShown: a list that shows the same folder and the same answers.
SameShown == /\ list'.current_prefix = list.current_prefix /\ list'.objects = list.objects
             /\ list'.find_results \in {list.find_results, Empty}
             /\ UNCHANGED <<selected_bucket, follow>>

\* LoadingShown: so it does when it is loaded again.
LEMMA LoadingShown ==
  ASSUME DOMAIN list = DOMAIN NoList, list' = Loading(list), UNCHANGED <<selected_bucket, follow>>
  PROVE  SameShown
<1>1. DOMAIN list = ListFields
  BY DEF NoList, ListFields
<1>2. PICK b : b = ("objects" \in follow)
  OBVIOUS
<1>3. list' = [list EXCEPT !.loading_objects = b]
  BY <1>2 DEF Loading
<1>4. /\ list'.current_prefix = list.current_prefix /\ list'.objects = list.objects
      /\ list'.find_results = list.find_results
  BY <1>1, <1>3 DEF ListFields
<1> QED BY <1>4 DEF SameShown

\* What there is after a step that shows the same, with requests that ask for the same.
ListLeft ==
  /\ SameShown
  /\ \A part \in {"objects", "find"} : \A r \in About(part)' :
       r \in About(part) \/ (r.of = InPrefix /\ ~Answered(r))
  /\ \A r \in About("object")' : r.op # "load"
  /\ \A r \in About("bucket")' : r.op = "create"

\* ListLeftTrue: the list stays true, if it is to be loaded again or nothing changed.
LEMMA ListLeftTrue ==
  ASSUME ListTrue, ListLeft, picked' \subseteq {InPrefix}, UNCHANGED stored,
         \/ "objects" \in follow => Awaited("objects")'
         \/ /\ Awaited("objects") => Awaited("objects")'
            /\ Awaited("object") => Awaited("object")' \/ Awaited("objects")'
  PROVE  ListTrue'
<1>1. InPrefix' = InPrefix /\ StoredHere' = StoredHere
  BY DEF InPrefix, StoredHere, HereIn, ListLeft, SameShown
<1>2. Commands'
  BY DEF Commands, ListLeft
<1>3. ListFollowed'
  BY DEF ListFollowed, ListTrue, ListLeft, SameShown
<1>4. ListingsAsked'
  BY <1>1 DEF ListingsAsked, ListTrue, ListLeft
<1>5. ListingShown'
  BY <1>1 DEF ListingShown, ListFollowed, ListTrue, ListLeft, SameShown
<1>6. PickedHere'
  BY <1>1, EmptyFields DEF PickedHere, ListTrue, ListLeft, SameShown
<1> QED BY <1>2, <1>3, <1>4, <1>5, <1>6 DEF ListTrue

\* AsksList: the request that an edit of the list starts.
AsksList(r) ==
  /\ Start({r})
  /\ r.part \in ListingParts /\ r.at = "sent"
  /\ r.part \in {"objects", "find"} => r.of = InPrefix
  /\ r.part = "object" => r.op # "load"
  /\ r.part = "bucket" => r.op = "create"

\* ListEdited: what the user's edits of the list do.
ListEdited ==
  /\ SameShown /\ picked' \subseteq {InPrefix} /\ UNCHANGED stored
  /\ UNCHANGED requests \/ \E r : AsksList(r)

\* ListEditForm: every edit does that: only what is listed is picked.
LEMMA ListEditForm ==
  ASSUME DetailsInv, ListTrue, requests = <<>>, ListEdit, UNCHANGED <<selected_bucket, follow>>
  PROVE  ListEdited
<1> USE DEF DetailsInv
<1>1. DOMAIN list = ListFields
  BY DEF ListInv, ListShape, NoList, ListFields
<1>2. picked \subseteq {InPrefix}
  BY DEF ListTrue, PickedHere
<1>3. HereIn(list.current_prefix) = InPrefix
  BY DEF InPrefix
<1>4. /\ list.objects.is # "None" => list.objects.of = InPrefix
      /\ list.find_results.is # "None" => list.find_results.of = InPrefix
  <2>1. Awaited("objects") = FALSE
    BY NothingAsked
  <2> QED BY <2>1 DEF ListTrue, ListingShown, PickedHere
<1>5. ASSUME NEW part, NEW op, NEW of, NEW value, Start({Request(part, op, of, value)}),
             part \in ListingParts,
             part \in {"objects", "find"} => of = InPrefix,
             part = "object" => op # "load", part = "bucket" => op = "create"
      PROVE  \E r : AsksList(r)
  <2>1. PICK r : r = Request(part, op, of, value)
    OBVIOUS
  <2>2. r.part = part /\ r.op = op /\ r.of = of /\ r.at = "sent"
    BY <2>1 DEF Request
  <2>3. AsksList(r)
    BY <1>5, <2>1, <2>2 DEF AsksList
  <2> QED BY <2>3
<1>6. ASSUME UNCHANGED listVars, \E r : AsksList(r)
      PROVE  ListEdited
  BY <1>2, <1>6 DEF ListEdited, SameShown, listVars
<1>7. CASE Refresh
  <2>1. PICK l : l = [list EXCEPT !.find_results = Empty, !.selected_keys = {}]
    OBVIOUS
  <2>2. PICK b : b = ("objects" \in follow)
    OBVIOUS
  <2>3. list' = [l EXCEPT !.loading_objects = b]
    BY <1>7, <2>1, <2>2 DEF Refresh, Loading
  <2>4. /\ DOMAIN l = ListFields
        /\ l.current_prefix = list.current_prefix /\ l.objects = list.objects
        /\ l.find_results = Empty
    BY <1>1, <2>1 DEF ListFields
  <2>5. SameShown
    BY <2>3, <2>4 DEF ListFields, SameShown
  <2>6. picked' = {} /\ UNCHANGED stored
    BY <1>7 DEF Refresh
  <2>7. \E r : AsksList(r)
    <3>1. Start({Request("objects", "load", InPrefix, {})})
      BY <1>3, <1>7 DEF Refresh, FetchObjects, Load
    <3> QED BY <1>5, <3>1 DEF ListingParts
  <2> QED BY <2>5, <2>6, <2>7 DEF ListEdited
<1>8. CASE Find
  <2>1. list' = [list EXCEPT !.finding = TRUE, !.find_results = Empty]
    BY <1>8 DEF Find
  <2>2. SameShown
    BY <1>1, <2>1 DEF ListFields, SameShown
  <2>3. UNCHANGED <<stored, picked>>
    BY <1>8 DEF Find
  <2>4. \E r : AsksList(r)
    <3>1. Start({Request("find", "load", InPrefix, list.object_filter)})
      BY <1>3, <1>8 DEF Find
    <3> QED BY <1>5, <3>1 DEF ListingParts
  <2> QED BY <1>2, <2>2, <2>3, <2>4 DEF ListEdited
<1>9. CASE ClearFind
  <2>1. list' = [list EXCEPT !.find_results = Empty, !.selected_keys = {}]
    BY <1>9 DEF ClearFind
  <2>2. SameShown
    BY <1>1, <2>1 DEF ListFields, SameShown
  <2> QED BY <1>9, <2>2 DEF ClearFind, ListEdited
<1>10. ASSUME NEW filter, ObjectFilterChanged(filter)
       PROVE  ListEdited
  <2>1. list' = [list EXCEPT !.object_filter = filter]
    BY <1>10 DEF ObjectFilterChanged
  <2>2. SameShown
    BY <1>1, <2>1 DEF ListFields, SameShown
  <2> QED BY <1>2, <1>10, <2>2 DEF ObjectFilterChanged, ListEdited
<1>11. ASSUME NEW keys, list' = [list EXCEPT !.selected_keys = keys]
       PROVE  SameShown
  BY <1>1, <1>11 DEF ListFields, SameShown
<1>12. ASSUME "find" \in follow, NEW k, ToggleObjectSelected(k)
       PROVE  ListEdited
  <2>1. PICK shown : shown = IF list.find_results.is # "None" THEN list.find_results
                             ELSE list.objects
    OBVIOUS
  <2>2. picked' = picked \union {shown.of} /\ UNCHANGED <<requests, stored>> /\ k \in Listed
    BY <1>12, <2>1 DEF ToggleObjectSelected
  <2>3. SameShown
    BY <1>11, <1>12 DEF ToggleObjectSelected
  <2>4. shown.of = InPrefix
    <3>1. CASE list.find_results.is # "None"
      BY <1>4, <2>1, <3>1
    <3>2. CASE list.find_results.is = "None"
      <4>1. "objects" \in follow
        BY <1>12, FollowsAssumption DEF ListTrue, ListFollowed
      <4>2. list.objects.value # {}
        BY <2>2, <3>2, <4>1 DEF Listed
      <4>3. list.objects.is # "None"
        BY <4>2 DEF ListTrue, ListFollowed
      <4> QED BY <1>4, <2>1, <3>2, <4>3
    <3> QED BY <3>1, <3>2
  <2> QED BY <1>2, <2>2, <2>3, <2>4 DEF ListEdited
<1>13. CASE SelectAllObjects
  <2>1. PICK sources : sources = {s \in {list.objects, list.find_results} : s.is = "Ok"}
    OBVIOUS
  <2>2. picked' = {s.of : s \in sources} /\ UNCHANGED <<requests, stored>>
    BY <1>13, <2>1 DEF SelectAllObjects
  <2>3. \A s \in sources : s.of = InPrefix
    BY <1>4, <2>1
  <2>4. SameShown
    BY <1>11, <1>13 DEF SelectAllObjects
  <2> QED BY <2>2, <2>3, <2>4 DEF ListEdited
<1>14. CASE ClearObjectSelection
  <2>1. SameShown
    BY <1>11, <1>14 DEF ClearObjectSelection
  <2> QED BY <1>14, <2>1 DEF ClearObjectSelection, ListEdited
<1>15. ASSUME NEW k, Upload(k)
       PROVE  ListEdited
  <2>1. Start({Request("object", "upload", Of(selected_bucket, k), {})}) /\ UNCHANGED listVars
    BY <1>15 DEF Upload
  <2> QED BY <1>5, <1>6, <2>1 DEF ListingParts
<1>16. CASE DeleteObject
  <2>1. Start({Request("object", "delete", SelectedObject, {})}) /\ UNCHANGED listVars
    BY <1>16 DEF DeleteObject
  <2> QED BY <1>5, <1>6, <2>1 DEF ListingParts
<1>17. ASSUME NEW b, CreateBucket(b)
       PROVE  ListEdited
  <2>1. Start({Request("bucket", "create", Of(b, NoKey), {})}) /\ UNCHANGED listVars
    BY <1>17 DEF CreateBucket
  <2> QED BY <1>5, <1>6, <2>1 DEF ListingParts
<1> QED BY <1>7, <1>8, <1>9, <1>10, <1>12, <1>13, <1>14, <1>15, <1>16, <1>17 DEF ListEdit

\* EditList: when the user, who waited, edits something.
LEMMA EditList ==
  ASSUME DetailsInv, ListTrue, requests = <<>>, EditSomething
  PROVE  ListTrue'
<1> USE DEF DetailsInv
<1>1. UNCHANGED <<selected_bucket, selection, follow>>
  BY DEF EditSomething, Edits
<1>2. CASE ObjectEdit /\ UNCHANGED <<bucketVars, listVars>>
  <2>1. SameOf(ListingParts)
    BY <1>1, <1>2, ObjectEditRequests, SameOfFewer DEF ObjectInv, NotOfObjects
  <2> QED BY <1>1, <1>2, <2>1, ListSame DEF listVars
<1>3. CASE BucketEdit /\ UNCHANGED <<objectVars, listVars>>
  <2>1. SameOf(ListingParts)
    BY <1>1, <1>3, BucketEditRequests, SameOfFewer DEF NotOfBuckets
  <2> QED BY <1>1, <1>3, <2>1, ListSame DEF listVars
<1>4. CASE ListEdit
  <2>1. ListEdited
    BY <1>1, <1>4, ListEditForm
  <2>2. \A part : About(part) = {} /\ Awaited(part) = FALSE
    BY NothingAsked
  <2>3. /\ \A part \in {"objects", "find"} : \A r \in About(part)' :
             r \in About(part) \/ (r.of = InPrefix /\ ~Answered(r))
        /\ \A r \in About("object")' : r.op # "load"
        /\ \A r \in About("bucket")' : r.op = "create"
    <3>1. CASE UNCHANGED requests
      <4>1. \A part : About(part)' = {}
        BY <2>2, <3>1 DEF About
      <4> QED BY <4>1
    <3>2. CASE \E r : AsksList(r)
      <4>1. PICK r : AsksList(r)
        BY <3>2
      <4>2. \A part : About(part)' = IF r.part = part /\ part \in follow THEN {r} ELSE {}
        BY <4>1, OneAlone DEF AsksList
      <4> QED BY <4>1, <4>2 DEF AsksList, Answered
    <3> QED BY <2>1, <3>1, <3>2 DEF ListEdited
  <2> QED BY <2>1, <2>2, <2>3, ListLeftTrue DEF ListEdited, ListLeft
<1> QED BY <1>2, <1>3, <1>4 DEF EditSomething

\* ListAnew: a list that starts anew at a prefix, of a bucket maybe just selected.
LEMMA ListAnew ==
  ASSUME ListFollowed, follow' = follow,
         list'.find_results = Empty, picked' = {},
         list'.objects \in {list.objects, Empty},
         NEW new, \A part : About(part)' = {r \in new : r.part = part /\ part \in follow},
         \A r \in new : /\ r.op = "load" /\ r.at = "sent"
                        /\ r.part \notin {"find", "object", "bucket"},
         \A r \in new : r.part = "objects" => r.of = InPrefix',
         \E r \in new : r.part = "objects"
  PROVE  ListTrue'
<1>1. Commands'
  BY DEF Commands
<1>2. ListFollowed'
  BY DEF ListFollowed, Empty
<1>3. ListingsAsked'
  BY DEF ListingsAsked, Answered
<1>4. "objects" \in follow => Awaited("objects")'
  BY DEF Awaited, Renews
<1>5. ListingShown'
  BY <1>2, <1>4 DEF ListingShown, ListFollowed
<1>6. PickedHere'
  BY EmptyFields DEF PickedHere
<1> QED BY <1>1, <1>2, <1>3, <1>5, <1>6 DEF ListTrue

\* SelectList: when the user, who waited, selects something.
LEMMA SelectList ==
  ASSUME DetailsInv, ListTrue, requests = <<>>, Select
  PROVE  ListTrue'
<1> USE DEF DetailsInv
<1>1. DOMAIN list = DOMAIN NoList /\ ListFollowed
  BY DEF ListInv, ListShape, ListTrue
<1>2. follow' = follow
  BY DEF Select, SelectBucket, NavigatePrefix, SelectObject, ClearSelection, Selects
<1>3. ASSUME NEW b \in Buckets, SelectBucket(b)
      PROVE  ListTrue'
  <2>1. PICK new : new = {Load("objects", Of(b, Root)), Load("versioning", Of(b, NoKey)),
                        Load("policy", Of(b, NoKey)), Load("lifecycle", Of(b, NoKey)),
                        Load("bucket_tags", Of(b, NoKey)), Load("ftt", Of(b, NoKey))}
    OBVIOUS
  <2>2. /\ IsFiniteSet(new)
        /\ \A r \in new :
             /\ Formed(r) /\ r.op = "load"
             /\ r.part = "objects" \/ (r.part \in BucketParts /\ r.of = Of(b, NoKey))
        /\ \A part \in BucketParts \union {"objects"} : \E r \in new : r.part = part
    BY <2>1, BucketLoads
  <2>3. \A r \in new : r.at = "sent" /\ (r.part = "objects" => r.of = Of(b, Root))
    BY <2>1 DEF Load, Request
  <2>4. Loads(new)
    BY <2>2, <2>3 DEF Loads
  <2>5. Start(new) /\ selected_bucket' = b /\ list' = At(list, Root) /\ picked' = {}
    BY <1>3, <2>1 DEF SelectBucket
  <2>6. \A part : About(part)' = {r \in new : r.part = part /\ part \in follow}
    BY <2>2, <2>4, <2>5, LoadsAlone
  <2>7. /\ list'.current_prefix = Root /\ list'.find_results = Empty
        /\ list'.objects = list.objects
    BY <1>1, <2>5, AtFields
  <2>8. InPrefix' = Of(b, Root)
    BY <2>5, <2>7 DEF InPrefix, HereIn
  <2>9. \A r \in new : r.part \notin {"find", "object", "bucket"}
    BY <2>2 DEF BucketParts, Kinds
  <2>10. \E r \in new : r.part = "objects"
    BY <2>2
  <2> QED BY <1>1, <1>2, <2>2, <2>3, <2>5, <2>6, <2>7, <2>8, <2>9, <2>10, ListAnew
<1>4. ASSUME NEW prefix \in Folders, NavigatePrefix(prefix)
      PROVE  ListTrue'
  <2>1. PICK new : new = {Load("objects", HereIn(prefix))}
    OBVIOUS
  <2>2. IsFiniteSet(new)
    BY <2>1, FS_Singleton
  <2>3. /\ \A r \in new : /\ r.part = "objects" /\ r.op = "load" /\ r.at = "sent"
                          /\ r.of = HereIn(prefix)
        /\ \E r \in new : r.part = "objects"
    BY <2>1 DEF Load, Request
  <2>4. Loads(new)
    BY <2>3 DEF Loads
  <2>5. Start(new) /\ UNCHANGED selected_bucket /\ list' = At(list, prefix) /\ picked' = {}
    BY <1>4, <2>1 DEF NavigatePrefix
  <2>6. \A part : About(part)' = {r \in new : r.part = part /\ part \in follow}
    BY <2>2, <2>4, <2>5, LoadsAlone
  <2>7. /\ list'.current_prefix = prefix /\ list'.find_results = Empty
        /\ list'.objects = list.objects
    BY <1>1, <2>5, AtFields
  <2>8. InPrefix' = HereIn(prefix)
    BY <2>5, <2>7 DEF InPrefix, HereIn
  <2> QED BY <1>1, <1>2, <2>3, <2>5, <2>6, <2>7, <2>8, ListAnew
<1>5. ASSUME NEW k \in Keys, SelectObject(k)
      PROVE  ListTrue'
  <2>1. SameOf(ListingParts)
    BY <1>5, SelectObjectStep, SameOfFewer DEF NotOfObjects
  <2> QED BY <1>2, <1>5, <2>1, ListSame DEF SelectObject, listVars
<1>6. CASE ClearSelection
  <2>1. SameOf(ListingParts)
    BY <1>2, <1>6, UnchangedKeeps DEF ClearSelection
  <2> QED BY <1>2, <1>6, <2>1, ListSame DEF ClearSelection, listVars
<1> QED BY <1>3, <1>4, <1>5, <1>6 DEF Select

\* CommandAnswered: when the answer to a command is handled.
LEMMA CommandAnswered ==
  ASSUME DetailsInv, Sole, ListTrue, NEW i \in DOMAIN requests,
         requests[i].part \in {"object", "bucket"},
         UNCHANGED <<selected_bucket, stored, picked, follow>>,
         \/ requests[i].ok /\ Handled(i, {FetchObjects}) /\ list' = Loading(list)
         \/ ~requests[i].ok /\ Handled(i, {}) /\ UNCHANGED list
  PROVE  ListTrue'
<1> USE DEF DetailsInv
<1>1. requests[i].op # "load"
  BY DEF About, ListTrue, Commands
<1>2. DOMAIN requests = {i}
  BY <1>1 DEF Sole
<1>3. picked' \subseteq {InPrefix}
  BY DEF ListTrue, PickedHere
<1>4. CASE requests[i].ok /\ Handled(i, {FetchObjects}) /\ list' = Loading(list)
  <2>1. SameShown
    BY <1>4, LoadingShown DEF ListInv, ListShape
  <2>2. PICK new : new = {Load("objects", InPrefix)}
    OBVIOUS
  <2>3. Handled(i, new)
    BY <1>4, <2>2 DEF FetchObjects, InPrefix
  <2>4. /\ After(i, new) /\ \A r \in new : r.part = "objects" /\ r.of = InPrefix
    BY <2>2, <2>3, OneStarted
  <2>5. \A part : About(part)' = {r \in new : r.part = part /\ part \in follow}
    BY <1>2, <2>4 DEF About, After, Replaced
  <2>6. \A r \in new : r.op = "load" /\ r.at = "sent"
    BY <2>4 DEF After, Loads
  <2>7. ListLeft
    BY <2>1, <2>4, <2>5, <2>6 DEF ListLeft, Answered
  <2>8. "objects" \in follow => Awaited("objects")'
    BY <2>2, <2>4, <2>5, <2>6 DEF Awaited, Renews
  <2> QED BY <1>3, <2>7, <2>8, ListLeftTrue
<1>5. CASE ~requests[i].ok /\ Handled(i, {}) /\ UNCHANGED list
  <2>1. SameShown
    BY <1>5 DEF SameShown
  <2>2. After(i, {})
    BY <1>5, NoneStarted
  <2>3. \A part : About(part)' = {}
    BY <1>2, <2>2 DEF About, After, Replaced
  <2>4. \A part : \A r \in About(part) : r = requests[i]
    BY <1>2 DEF About
  <2>5. \A part : Awaited(part) = FALSE
    BY <1>1, <1>5, <2>4 DEF Awaited, Renews
  <2>6. ListLeft
    BY <2>1, <2>3 DEF ListLeft
  <2> QED BY <1>3, <2>5, <2>6, ListLeftTrue
<1> QED BY <1>4, <1>5

\* ListMessageTrue: when an answer of the list is handled.
LEMMA ListMessageTrue ==
  ASSUME DetailsInv, Sole, ListTrue, NEW i \in DOMAIN requests, ListMessage(i),
         UNCHANGED <<selected_bucket, follow>>
  PROVE  ListTrue'
<1> USE DEF DetailsInv
<1>1. DOMAIN list = ListFields
  BY DEF ListInv, ListShape, NoList, ListFields
<1>2. InPrefix' = HereIn(list'.current_prefix) /\ InPrefix = HereIn(list.current_prefix)
  BY DEF InPrefix, HereIn
<1>3. PICK answer : answer = Answer(requests[i])
  OBVIOUS
<1>4. /\ answer.of = requests[i].of /\ answer.value = requests[i].value
      /\ answer.is = "Ok" => requests[i].ok
      /\ answer.is # "None"
  BY <1>3 DEF Answer
<1>5. ASSUME Handled(i, {})
      PROVE  /\ \A part : About(part)' \subseteq About(part)
             /\ \A part : part # requests[i].part => About(part)' = About(part)
  <2>1. After(i, {})
    BY <1>5, NoneStarted
  <2>2. \A part : About(part)' \subseteq About(part)
    BY <2>1 DEF About, After, Replaced
  <2>3. \A part : part # requests[i].part => About(part)' = About(part)
    BY <2>1, AboutAfter
  <2> QED BY <2>2, <2>3
<1>6. requests[i] \in About(requests[i].part) /\ requests[i].part \in follow
  BY DEF About, RequestsInv
<1>7. CASE ObjectsLoaded(i)
  <2>1. /\ requests[i].part = "objects" /\ requests[i].op = "load" /\ requests[i].at = "done"
        /\ list' = [list EXCEPT !.loading_objects = FALSE, !.objects = answer]
        /\ Handled(i, {}) /\ UNCHANGED <<stored, picked>>
    BY <1>3, <1>7 DEF ObjectsLoaded, Delivered
  <2>2. /\ list'.objects = answer /\ list'.current_prefix = list.current_prefix
        /\ list'.find_results = list.find_results
    BY <1>1, <2>1 DEF ListFields
  <2>3. InPrefix' = InPrefix /\ StoredHere' = StoredHere
    BY <1>2, <2>1, <2>2 DEF StoredHere
  <2>4. answer.of = InPrefix /\ (answer.is = "Ok" => answer.value = StoredHere)
    BY <1>4, <1>6, <2>1 DEF ListTrue, ListingsAsked, Answered
  <2>5. \A part : About(part)' \subseteq About(part)
    BY <1>5, <2>1
  <2>6. Commands' /\ ListingsAsked'
    BY <2>3, <2>5 DEF ListTrue, Commands, ListingsAsked
  <2>7. ListFollowed'
    BY <1>4, <1>6, <2>1, <2>2 DEF ListTrue, ListFollowed
  <2>8. ListingShown' /\ PickedHere'
    BY <2>1, <2>2, <2>3, <2>4 DEF ListTrue, ListingShown, PickedHere
  <2> QED BY <2>6, <2>7, <2>8 DEF ListTrue
<1>8. CASE FindComplete(i)
  <2>1. /\ requests[i].part = "find" /\ requests[i].op = "load" /\ requests[i].at = "done"
        /\ list' = [list EXCEPT !.finding = FALSE, !.find_results = answer]
        /\ Handled(i, {}) /\ UNCHANGED <<stored, picked>>
    BY <1>3, <1>8 DEF FindComplete, Delivered
  <2>2. /\ list'.find_results = answer /\ list'.current_prefix = list.current_prefix
        /\ list'.objects = list.objects
    BY <1>1, <2>1 DEF ListFields
  <2>3. InPrefix' = InPrefix /\ StoredHere' = StoredHere
    BY <1>2, <2>1, <2>2 DEF StoredHere
  <2>4. answer.of = InPrefix
    BY <1>4, <1>6, <2>1 DEF ListTrue, ListingsAsked
  <2>5. /\ \A part : About(part)' \subseteq About(part)
        /\ About("objects")' = About("objects") /\ About("object")' = About("object")
    BY <1>5, <2>1
  <2>6. Commands' /\ ListingsAsked'
    BY <2>3, <2>5 DEF ListTrue, Commands, ListingsAsked
  <2>7. ListFollowed'
    BY <2>2 DEF ListTrue, ListFollowed
  <2>8. Awaited("objects")' = Awaited("objects") /\ Awaited("object")' = Awaited("object")
    BY <2>5 DEF Awaited
  <2>9. ListingShown' /\ PickedHere'
    BY <2>1, <2>2, <2>3, <2>4, <2>8 DEF ListTrue, ListingShown, PickedHere
  <2> QED BY <2>6, <2>7, <2>9 DEF ListTrue
<1>9. CASE UploadDone(i)
  <2>1. /\ requests[i].part = "object" /\ UNCHANGED <<stored, picked>>
        /\ \/ requests[i].ok /\ Handled(i, {FetchObjects}) /\ list' = Loading(list)
           \/ ~requests[i].ok /\ Handled(i, {}) /\ UNCHANGED list
    BY <1>9 DEF UploadDone, Delivered
  <2> QED BY <2>1, CommandAnswered
<1> QED BY <1>7, <1>8, <1>9 DEF ListMessage

\* CreatedList: when a bucket was created, its listing alone is asked for.
LEMMA CreatedList ==
  ASSUME DetailsInv, Sole, ListTrue, NEW i \in DOMAIN requests, CreateBucketDone(i),
         follow' = follow, requests[i].ok
  PROVE  ListTrue'
<1>1. PICK b : b = requests[i].of[1]
  OBVIOUS
<1>2. PICK new : new = {Load("objects", Of(b, Root))}
  OBVIOUS
<1>3. /\ requests[i].part = "bucket" /\ requests[i].op = "create"
      /\ selected_bucket' = b /\ list' = [At(list, Root) EXCEPT !.objects = Empty]
      /\ picked' = {} /\ Handled(i, new)
  BY <1>1, <1>2 DEF CreateBucketDone, Delivered
<1>4. After(i, new) /\ \A r \in new : r.part = "objects" /\ r.of = Of(b, Root)
  BY <1>2, <1>3, OneStarted DEF DetailsInv
<1>5. DOMAIN requests = {i}
  BY <1>3 DEF Sole
<1>6. \A part : About(part)' = {r \in new : r.part = part /\ part \in follow}
  BY <1>4, <1>5 DEF About, After, Replaced
<1>7. PICK l : l = At(list, Root)
  OBVIOUS
<1>8. DOMAIN l = DOMAIN NoList /\ l.current_prefix = Root /\ l.find_results = Empty
  BY <1>7, AtFields DEF DetailsInv, ListInv, ListShape
<1>9. DOMAIN l = ListFields
  BY <1>8 DEF NoList, ListFields
<1>10. list' = [l EXCEPT !.objects = Empty]
  BY <1>3, <1>7
<1>11. list'.current_prefix = Root /\ list'.find_results = Empty /\ list'.objects = Empty
  BY <1>8, <1>9, <1>10 DEF ListFields
<1>12. InPrefix' = Of(b, Root)
  BY <1>3, <1>11 DEF InPrefix, HereIn
<1>13. \A r \in new : r.op = "load" /\ r.at = "sent" /\ r.part \notin {"find", "object", "bucket"}
  BY <1>4 DEF After, Loads
<1>14. \E r \in new : r.part = "objects"
  BY <1>2, <1>4
<1>15. ListFollowed
  BY DEF ListTrue
<1> QED BY <1>3, <1>4, <1>6, <1>11, <1>12, <1>13, <1>14, <1>15, ListAnew

\* MessageList: when an answer is handled.
LEMMA MessageList ==
  ASSUME DetailsInv, Sole, ListTrue, NEW i \in DOMAIN requests, Message(i)
  PROVE  ListTrue'
<1> USE DEF DetailsInv
<1>1. follow' = follow
  BY DEF Message, Handles
<1>2. CASE /\ UNCHANGED <<selected_bucket, selection>>
           /\ ObjectMessage(i) /\ UNCHANGED <<bucketVars, listVars>>
  <2>1. SameOf(ListingParts)
    BY <1>1, <1>2, ObjectMessageRequests, SameOfFewer DEF NotOfObjects
  <2> QED BY <1>1, <1>2, <2>1, ListSame DEF listVars
<1>3. CASE /\ UNCHANGED <<selected_bucket, selection>>
           /\ BucketMessage(i) /\ UNCHANGED <<objectVars, listVars>>
  <2>1. SameOf(ListingParts)
    BY <1>1, <1>3, BucketMessageRequests, SameOfFewer DEF NotOfBuckets
  <2> QED BY <1>1, <1>3, <2>1, ListSame DEF listVars
<1>4. CASE UNCHANGED <<selected_bucket, selection>> /\ ListMessage(i)
  BY <1>1, <1>4, ListMessageTrue
<1>5. CASE DeleteDone(i)
  <2>1. /\ requests[i].part = "object" /\ UNCHANGED <<selected_bucket, stored, picked>>
        /\ \/ requests[i].ok /\ Handled(i, {FetchObjects}) /\ list' = Loading(list)
           \/ ~requests[i].ok /\ Handled(i, {}) /\ UNCHANGED list
    BY <1>5 DEF DeleteDone, Delivered
  <2> QED BY <1>1, <2>1, CommandAnswered
<1>6. CASE CreateBucketDone(i)
  <2>1. CASE requests[i].ok
    BY <1>1, <1>6, <2>1, CreatedList
  <2>2. CASE ~requests[i].ok
    <3>1. /\ requests[i].part = "bucket" /\ UNCHANGED <<selected_bucket, stored, picked, list>>
          /\ Handled(i, {})
      BY <1>6, <2>2 DEF CreateBucketDone, Delivered
    <3> QED BY <1>1, <2>2, <3>1, CommandAnswered
  <2> QED BY <2>1, <2>2
<1> QED BY <1>2, <1>3, <1>4, <1>5, <1>6 DEF Message

\* ListingServed: when the server lists, or searches, or fails to.
LEMMA ListingServed ==
  ASSUME DetailsInv, ListTrue, NEW i \in DOMAIN requests, requests[i].at = "sent", ServeListing(i),
         UNCHANGED <<selected_bucket, follow>>
  PROVE  ListTrue'
<1>1. ServedOnly(i) /\ RequestsInv'
  BY ServeListRequests DEF DetailsInv
<1>2. /\ requests[i].part \in {"objects", "find"}
      /\ UNCHANGED <<list, stored, picked>>
  BY DEF ServeListing, listVars
<1>3. PICK keys : keys = stored[requests[i].of[1]] \intersect Inside[requests[i].of[2]]
  OBVIOUS
<1>4. requests[i].part = "objects" /\ requests'[i].ok => requests'[i].value = keys
  <2>1. PICK ok \in BOOLEAN :
          Served(i, ok, IF ~ok THEN {} ELSE IF requests[i].part = "find"
                                         THEN keys \intersect requests[i].value ELSE keys)
    BY <1>3 DEF ServeListing
  <2>2. PICK value : value = IF ~ok THEN {} ELSE IF requests[i].part = "find"
                                         THEN keys \intersect requests[i].value ELSE keys
    OBVIOUS
  <2>3. Served(i, ok, value)
    BY <2>1, <2>2
  <2>4. requests'[i].ok = ok /\ requests'[i].value = value
    BY <2>3, ServedKeeps DEF DetailsInv
  <2> QED BY <2>2, <2>4
<1>5. requests[i] \in About(requests[i].part)
  BY DEF About
<1>6. requests[i].of = InPrefix
  BY <1>2, <1>5 DEF ListTrue, ListingsAsked
<1>7. keys = StoredHere
  BY <1>3, <1>6 DEF StoredHere, InPrefix, HereIn, Of
<1>8. InPrefix' = InPrefix /\ StoredHere' = StoredHere
  BY <1>2 DEF InPrefix, StoredHere, HereIn
<1>9. /\ \A part : part # requests[i].part => About(part)' = About(part)
      /\ \A part : About(part)' \subseteq About(part) \union {requests'[i]}
  BY <1>1, AboutServed
<1>10. /\ requests'[i].of = InPrefix /\ requests'[i].part = requests[i].part
       /\ requests'[i].op = requests[i].op
  BY <1>1, <1>6 DEF ServedOnly
<1>11. Commands' /\ ListFollowed'
  BY <1>2, <1>9 DEF ListTrue, Commands, ListFollowed
<1>12. ListingsAsked'
  <2>1. \A part \in {"objects", "find"} : \A r \in About(part)' : r.of = InPrefix
    BY <1>9, <1>10 DEF ListTrue, ListingsAsked
  <2>2. \A r \in About("objects")' : Answered(r) => r.value = StoredHere
    <3>1. CASE requests[i].part = "objects"
      BY <1>4, <1>7, <1>9, <3>1 DEF ListTrue, ListingsAsked, Answered
    <3>2. CASE requests[i].part # "objects"
      BY <1>9, <3>2 DEF ListTrue, ListingsAsked
    <3> QED BY <3>1, <3>2
  <2> QED BY <1>8, <2>1, <2>2 DEF ListingsAsked
<1>13. Awaited("object")' = Awaited("object")
  BY <1>2, <1>9 DEF Awaited
<1>14. Awaited("objects") => Awaited("objects")'
  <2>1. ASSUME NEW r \in About("objects"), Renews(r)
        PROVE  Awaited("objects")'
    <3>1. PICK j \in DOMAIN requests : requests[j] = r /\ requests[j].part = "objects"
      BY <2>1 DEF About
    <3>2. CASE j = i
      <4>1. requests'[i].op = "load"
        BY <1>10, <2>1, <3>1, <3>2 DEF Renews
      <4>2. requests'[i] \in About("objects")'
        BY <1>1, <1>10, <3>1, <3>2 DEF About, ServedOnly
      <4> QED BY <4>1, <4>2 DEF Awaited, Renews
    <3>3. CASE j # i
      <4>1. r \in About("objects")'
        BY <1>1, <3>1, <3>3 DEF About, ServedOnly
      <4> QED BY <2>1, <4>1 DEF Awaited
    <3> QED BY <3>2, <3>3
  <2> QED BY <2>1 DEF Awaited
<1>15. ListingShown' /\ PickedHere'
  BY <1>2, <1>8, <1>13, <1>14 DEF ListTrue, ListingShown, PickedHere
<1> QED BY <1>11, <1>12, <1>15 DEF ListTrue

\* CommandServed: when the server carries out a command, or fails to.
LEMMA CommandServed ==
  ASSUME DetailsInv, Sole, ListTrue, ~unsure', NEW i \in DOMAIN requests, requests[i].at = "sent",
         ServeCommand(i), UNCHANGED <<selected_bucket, follow>>
  PROVE  ListTrue'
<1>1. ServedOnly(i)
  BY ServeListRequests DEF DetailsInv
<1>2. requests[i].part \in {"object", "bucket"} /\ UNCHANGED <<list, picked>>
  BY DEF ServeCommand
<1>3. requests[i] \in About(requests[i].part)
  BY DEF About
<1>4. requests[i].op # "load" /\ (requests[i].part = "bucket" => requests[i].op = "create")
  BY <1>2, <1>3 DEF ListTrue, Commands
<1>5. DOMAIN requests = {i}
  BY <1>4 DEF Sole
<1>6. \A part : /\ \A r \in About(part) : r = requests[i] /\ requests[i].part = part
                /\ \A r \in About(part)' : r = requests'[i] /\ requests[i].part = part
  BY <1>1, <1>5 DEF About, ServedOnly
<1>7. /\ requests'[i].op = requests[i].op /\ requests'[i].part = requests[i].part
      /\ requests'[i].at = "done"
  BY <1>1 DEF ServedOnly
<1>8. About("objects")' = {} /\ About("find")' = {} /\ Awaited("objects") = FALSE
  BY <1>2, <1>6 DEF Awaited
<1>9. Awaited("object") = FALSE
  BY <1>4, <1>6 DEF Awaited, Renews
<1>10. stored' = stored \/ Awaited("object")'
  <2>1. CASE Served(i, FALSE, {}) /\ UNCHANGED <<stored, unsure>>
    BY <2>1
  <2>2. CASE /\ stored' = CASE requests[i].op = "upload" ->
                              [stored EXCEPT ![requests[i].of[1]] = @ \union {requests[i].of[2]}]
                            [] requests[i].op = "delete" ->
                              [stored EXCEPT ![requests[i].of[1]] = @ \ {requests[i].of[2]}]
                            [] requests[i].op = "create" -> stored
             /\ \E ok \in BOOLEAN : Served(i, ok, {}) /\ unsure' = (unsure \/ ~ok)
    <3>1. PICK ok \in BOOLEAN : Served(i, ok, {}) /\ unsure' = (unsure \/ ~ok)
      BY <2>2
    <3>2. requests'[i].ok
      BY <3>1, ServedKeeps DEF DetailsInv
    <3>3. CASE requests[i].part = "bucket"
      <4>1. requests[i].op = "create"
        BY <1>4, <3>3
      <4> QED BY <2>2, <4>1
    <3>4. CASE requests[i].part = "object"
      <4>1. requests'[i] \in About("object")'
        BY <1>1, <1>7, <3>4 DEF About, ServedOnly
      <4> QED BY <1>7, <3>2, <4>1 DEF Awaited, Renews
    <3> QED BY <1>2, <3>3, <3>4
  <2> QED BY <2>1, <2>2 DEF ServeCommand
<1>11. InPrefix' = InPrefix /\ (stored' = stored => StoredHere' = StoredHere)
  BY <1>2 DEF InPrefix, StoredHere, HereIn
<1>12. Commands'
  BY <1>4, <1>6, <1>7 DEF Commands
<1>13. ListFollowed'
  BY <1>2 DEF ListTrue, ListFollowed
<1>14. ListingsAsked'
  BY <1>8 DEF ListingsAsked
<1>15. ListingShown' /\ PickedHere'
  BY <1>2, <1>8, <1>9, <1>10, <1>11 DEF ListTrue, ListingShown, PickedHere
<1> QED BY <1>12, <1>13, <1>14, <1>15 DEF ListTrue

\* ServeList: when the server does its work.
LEMMA ServeList ==
  ASSUME DetailsInv, Sole, ListTrue, ~unsure', NEW i \in DOMAIN requests, Serve(i)
  PROVE  ListTrue'
<1> USE DEF DetailsInv
<1>1. UNCHANGED <<selected_bucket, selection, follow>> /\ requests[i].at = "sent"
  BY DEF Serve
<1>2. CASE ServeObject(i) /\ UNCHANGED <<bucketVars, listVars>>
  <2>1. SameOf(ListingParts)
    BY <1>1, <1>2, ServeObjectRequests, SameOfFewer DEF NotOfObjects
  <2> QED BY <1>1, <1>2, <2>1, ListSame DEF listVars
<1>3. CASE ServeBucket(i) /\ UNCHANGED <<objectVars, listVars>>
  <2>1. SameOf(ListingParts)
    BY <1>1, <1>3, ServeBucketRequests, SameOfFewer DEF NotOfBuckets
  <2> QED BY <1>1, <1>3, <2>1, ListSame DEF listVars
<1> QED BY <1>1, <1>2, <1>3, ListingServed, CommandServed DEF Serve

-----------------------------------------------------------------------------
(* What the user waited for is settled *)

\* ShapeKept: what the server has, and the user wants, stays a function of the buckets.
LEMMA ShapeKept ==
  ASSUME TruthShape, [Next]_vars
  PROVE  TruthShape'
<1>1. ASSUME UNCHANGED bucketTruth
      PROVE  TruthShape'
  BY <1>1 DEF TruthShape, bucketTruth, PerKind, PerBucket
<1>2. CASE UNCHANGED vars
  BY <1>1, <1>2 DEF vars, bucketVars
<1>3. CASE Select
  <2>1. UNCHANGED bucketTruth
    BY <1>3 DEF Select, SelectBucket, NavigatePrefix, SelectObject, ClearSelection, bucketVars
  <2> QED BY <1>1, <2>1
<1>4. CASE EditSomething
  <2>1. CASE BucketEdit
    <3>1. selected_bucket' = selected_bucket
      BY <1>4 DEF EditSomething
    <3>2. /\ PerKind(texts_wished') /\ PerBucket(labels_wished')
          /\ UNCHANGED <<texts, labels, statuses>>
      BY <2>1, <3>1, WantedShape
    <3> QED BY <3>2 DEF TruthShape, PerKind, PerBucket
  <2>2. CASE UNCHANGED bucketVars
    BY <1>1, <2>2 DEF bucketVars
  <2> QED BY <1>4, <2>1, <2>2 DEF EditSomething
<1>5. ASSUME NEW i \in DOMAIN requests, Message(i)
      PROVE  TruthShape'
  <2>1. CASE BucketMessage(i)
    <3>1. ASSUME NEW kind, \/ DocumentLoaded(kind, i) \/ DocumentSaved(kind, i)
                            \/ DocumentDeleted(kind, i)
          PROVE  UNCHANGED bucketTruth
      BY <3>1 DEF DocumentLoaded, DocumentSaved, DocumentDeleted
    <3>2. ASSUME BucketTagsSaved(i) \/ BucketTagsLoaded(i)
          PROVE  UNCHANGED bucketTruth
      BY <3>2 DEF BucketTagsSaved, BucketTagsLoaded, bucketVars
    <3>3. ASSUME VersioningToggled(i) \/ BucketStatusLoaded(i)
          PROVE  UNCHANGED bucketTruth
      BY <3>3 DEF VersioningToggled, BucketStatusLoaded, bucketVars
    <3> QED BY <1>1, <2>1, <3>1, <3>2, <3>3 DEF BucketMessage
  <2>2. CASE UNCHANGED bucketVars
    BY <1>1, <2>2 DEF bucketVars
  <2>3. CASE DeleteDone(i) \/ CreateBucketDone(i)
    BY <1>1, <2>3 DEF DeleteDone, CreateBucketDone
  <2> QED BY <1>5, <2>1, <2>2, <2>3 DEF Message
<1>6. ASSUME NEW i \in DOMAIN requests, Serve(i)
      PROVE  TruthShape'
  <2>1. CASE ServeBucket(i)
    <3>1. /\ PerKind(texts') /\ PerKind(texts_wished')
          /\ PerBucket(labels') /\ PerBucket(labels_wished') /\ PerBucket(statuses')
      BY <2>1, ServedShape
    <3> QED BY <3>1 DEF TruthShape, PerKind, PerBucket
  <2>2. CASE UNCHANGED bucketVars
    BY <1>1, <2>2 DEF bucketVars
  <2> QED BY <1>6, <2>1, <2>2 DEF Serve
<1> QED BY <1>2, <1>3, <1>4, <1>5, <1>6 DEF Next

\* ServeKeepsUnsure: an answer that was lost stays lost.
LEMMA ServeKeepsUnsure ==
  ASSUME NEW i \in DOMAIN requests, Serve(i), unsure
  PROVE  unsure'
<1>1. CASE ServeObject(i)
  BY <1>1 DEF ServeObject, ServeLoad, ServeTags, ServeVersion, ServeHeal
<1>2. CASE ServeBucket(i)
  BY <1>2 DEF ServeBucket, ServeBucketLoad, ServeDocument, ServeBucketTags, ServeVersioning
<1>3. CASE ServeListing(i) \/ ServeCommand(i)
  BY <1>3 DEF ServeListing, ServeCommand
<1> QED BY <1>1, <1>2, <1>3 DEF Serve

\* SettledStep: what the user waited for stays settled after each step.
LEMMA SettledStep ==
  ASSUME DetailsInv, SettledInv, [Next]_vars
  PROVE  SettledInv'
<1>1. TruthShape /\ TruthShape'
  BY ShapeKept DEF SettledInv
<1>2. Wishes \subseteq Changed
  BY DEF Wishes, Changed
<1> SUFFICES ASSUME Calm'
             PROVE  Settled'
  BY <1>1 DEF SettledInv
<1>3. ~restless' /\ ~hasty' /\ ~unsure'
  BY DEF Calm
<1>4. ASSUME Calm
      PROVE  /\ Sole /\ ListTrue
             /\ \A part \in Changed : PartTrue(part)
             /\ \A part \in Wishes : PartMeant(part)
  BY <1>4 DEF SettledInv, Settled
<1>5. restless \in BOOLEAN /\ hasty \in BOOLEAN /\ unsure \in BOOLEAN
  BY DEF DetailsInv, SelectionInv
<1>6. ASSUME Sole', ListTrue',
             \A part \in Changed : PartTrue(part)', \A part \in Wishes : PartMeant(part)'
      PROVE  Settled'
  BY <1>6 DEF Settled
<1>7. CASE UNCHANGED vars
  <2>1. UNCHANGED <<bucketVars, listVars, selected_bucket, selection, requests, follow,
                    restless, hasty, unsure>>
    BY <1>7 DEF vars, common
  <2>2. Calm
    BY <1>3, <2>1 DEF Calm
  <2>3. SameOf(BucketParts) /\ SameOf(ListingParts)
    BY <2>1, UnchangedKeeps DEF DetailsInv
  <2>4. BucketShown' => BucketShown
    BY <2>1 DEF BucketShown
  <2>5. Sole'
    BY <1>4, <2>1, <2>2 DEF Sole
  <2>6. ListTrue'
    BY <1>4, <2>1, <2>2, <2>3, ListSame DEF listVars
  <2> QED BY <1>2, <1>4, <1>6, <2>1, <2>2, <2>3, <2>4, <2>5, <2>6, PanelFrame
<1>8. CASE Select
  <2>1. restless' = (restless \/ requests # <<>>) /\ UNCHANGED <<hasty, unsure>>
    BY <1>8 DEF Select, SelectBucket, NavigatePrefix, SelectObject, ClearSelection, Selects
  <2>2. Calm /\ requests = <<>>
    BY <1>3, <1>5, <2>1 DEF Calm
  <2>3. Sole' /\ \A part \in Changed : PartTrue(part)' /\ (PartMeant(part) => PartMeant(part)')
    BY <1>8, <2>2, SelectParts
  <2>4. ListTrue'
    BY <1>4, <1>8, <2>2, SelectList
  <2> QED BY <1>2, <1>4, <1>6, <2>2, <2>3, <2>4
<1>9. CASE EditSomething
  <2>1. hasty' = (hasty \/ requests # <<>>) /\ UNCHANGED <<restless, unsure>>
    BY <1>9 DEF EditSomething, Edits
  <2>2. Calm /\ requests = <<>>
    BY <1>3, <1>5, <2>1 DEF Calm
  <2>3. PartTrue("bucket_tags") /\ PartMeant("bucket_tags")
    BY <1>4, <2>2 DEF Changed, Wishes
  <2>4. /\ Sole'
        /\ \A part \in Changed : PartTrue(part) => PartTrue(part)'
        /\ \A part \in Wishes : PartMeant(part) => PartMeant(part)'
    BY <1>1, <1>9, <2>2, <2>3, EditParts
  <2>5. ListTrue'
    BY <1>4, <1>9, <2>2, EditList
  <2> QED BY <1>4, <1>6, <2>2, <2>4, <2>5
<1>10. ASSUME NEW i \in DOMAIN requests, Message(i)
       PROVE  Settled'
  <2>1. (restless => restless') /\ UNCHANGED <<hasty, unsure>>
    BY <1>5, <1>10 DEF Message, Handles
  <2>2. Calm
    BY <1>3, <2>1 DEF Calm
  <2>3. /\ Sole'
        /\ \A part \in Changed : /\ PartTrue(part) => PartTrue(part)'
                                 /\ PartMeant(part) => PartMeant(part)'
    BY <1>3, <1>4, <1>10, <2>2, MessageParts
  <2>4. ListTrue'
    BY <1>4, <1>10, <2>2, MessageList
  <2> QED BY <1>2, <1>4, <1>6, <2>2, <2>3, <2>4
<1>11. ASSUME NEW i \in DOMAIN requests, Serve(i)
       PROVE  Settled'
  <2>1. UNCHANGED <<restless, hasty>>
    BY <1>11 DEF Serve
  <2>2. unsure => unsure'
    BY <1>11, ServeKeepsUnsure
  <2>3. Calm
    BY <1>3, <2>1, <2>2 DEF Calm
  <2>4. ~restless
    BY <2>3 DEF Calm
  <2>5. /\ Sole'
        /\ \A part \in Changed : PartTrue(part) => PartTrue(part)'
        /\ \A part \in Wishes : PartMeant(part) => PartMeant(part)'
    BY <1>1, <1>3, <1>4, <1>11, <2>3, <2>4, ServeParts
  <2>6. ListTrue'
    BY <1>3, <1>4, <1>11, <2>3, ServeList
  <2> QED BY <1>4, <1>6, <2>3, <2>5, <2>6
<1> QED BY <1>7, <1>8, <1>9, <1>10, <1>11 DEF Next

\* SettledInit: the user has not asked for anything yet.
LEMMA SettledInit ==
  ASSUME Init
  PROVE  SettledInv
<1> USE DEF Init, CommonInit, BucketInit
<1>1. requests = <<>> /\ \A part : About(part) = {} /\ Awaited(part) = FALSE
  BY NothingAsked
<1>2. ~BucketShown
  BY DEF BucketShown, None
<1>3. TruthShape
  <2>1. \A kind \in Kinds : texts[kind] = PoliciesAtFirst
    OBVIOUS
  <2>2. PerBucket(PoliciesAtFirst) /\ PerBucket(labels) /\ PerBucket(statuses)
    BY BucketsAssumption DEF PerBucket
  <2>3. PerKind(texts)
    BY <2>1, <2>2 DEF PerKind
  <2> QED BY <2>2, <2>3 DEF TruthShape
<1>4. Sole
  <2>1. DOMAIN requests = {}
    BY <1>1
  <2> QED BY <2>1 DEF Sole
<1>5. \A part : PartTrue(part)
  BY <1>1, <1>2 DEF PartTrue, AnswersTrue, DeletesTrue, ShownTrue
<1>6. \A part \in Wishes : PartMeant(part)
  <2>1. \A part \in Wishes : Is(part)
    BY DEF Wishes, Is, Wanted, Held
  <2> QED BY <1>1, <2>1 DEF PartMeant
<1>7. ListTrue
  <2>1. list.objects = Empty /\ list.find_results = Empty
    BY DEF NoList
  <2>2. list.objects.is = "None" /\ list.objects.value = {} /\ list.find_results.is = "None"
    BY <2>1 DEF Empty
  <2> QED BY <1>1, <2>2 DEF ListTrue, Commands, ListFollowed, ListingsAsked, ListingShown,
                            PickedHere
<1> QED BY <1>3, <1>4, <1>5, <1>6, <1>7 DEF SettledInv, Settled

\* SettledMeans: with nothing under way, that is what SettledIsTrue says.
LEMMA SettledMeans ==
  ASSUME SettledInv
  PROVE  SettledIsTrue
<1> SUFFICES ASSUME requests = <<>>, ~restless, ~hasty, ~unsure
             PROVE  /\ texts = texts_wished
                    /\ created \/ labels = labels_wished
                    /\ BucketShown => \A kind \in Kinds :
                         documents[kind].loaded.is = "Ok" =>
                           documents[kind].loaded.value = texts[kind][selected_bucket]
                    /\ (BucketShown /\ ~created) =>
                         /\ bucket_tags.is = "Ok" => bucket_tags.value = labels[selected_bucket]
                         /\ bucket_status["versioning"].is = "Ok" =>
                              bucket_status["versioning"].value = statuses[selected_bucket]
                    /\ list.objects.is = "Ok" =>
                         list.objects.value =
                           stored[selected_bucket] \intersect Inside[list.current_prefix]
                    /\ picked \subseteq {HereIn(list.current_prefix)}
  BY DEF SettledIsTrue
<1>1. \A part : About(part) = {} /\ Awaited(part) = FALSE
  BY NothingAsked
<1>2. Settled /\ TruthShape
  BY DEF SettledInv, Calm
<1>3. \A part \in Wishes : Excepted(part) \/ Is(part)
  BY <1>1, <1>2 DEF Settled, PartMeant
<1>4. texts = texts_wished
  <2>1. ASSUME NEW kind \in Kinds
        PROVE  texts[kind] = texts_wished[kind]
    <3>1. Is(kind)
      BY <1>3, <2>1 DEF Wishes, Excepted
    <3>2. \A b \in Buckets : texts_wished[kind][b] = texts[kind][b]
      BY <2>1, <3>1 DEF Is, Wanted, Held
    <3>3. /\ texts[kind] = [b \in Buckets |-> texts[kind][b]]
          /\ texts_wished[kind] = [b \in Buckets |-> texts_wished[kind][b]]
      BY <1>2, <2>1 DEF TruthShape, PerKind, PerBucket
    <3> QED BY <3>2, <3>3
  <2>2. /\ texts = [kind \in Kinds |-> texts[kind]]
        /\ texts_wished = [kind \in Kinds |-> texts_wished[kind]]
    BY <1>2 DEF TruthShape, PerKind
  <2> QED BY <2>1, <2>2
<1>5. created \/ labels = labels_wished
  <2>1. created \/ \A b \in Buckets : labels_wished[b] = labels[b]
    BY <1>3 DEF Wishes, Excepted, Is, Wanted, Held, Kinds
  <2>2. /\ labels = [b \in Buckets |-> labels[b]]
        /\ labels_wished = [b \in Buckets |-> labels_wished[b]]
    BY <1>2 DEF TruthShape, PerBucket
  <2> QED BY <2>1, <2>2
<1>6. \A part \in Changed : (BucketShown /\ ~Excepted(part) /\ OnPanel(part).is = "Ok") =>
                              OnPanel(part).value = Held(part)[selected_bucket]
  BY <1>1, <1>2 DEF Settled, PartTrue, ShownTrue
<1>7. BucketShown => \A kind \in Kinds :
        documents[kind].loaded.is = "Ok" =>
          documents[kind].loaded.value = texts[kind][selected_bucket]
  BY <1>6 DEF Changed, Excepted, OnPanel, Held
<1>8. (BucketShown /\ ~created) =>
        /\ bucket_tags.is = "Ok" => bucket_tags.value = labels[selected_bucket]
        /\ bucket_status["versioning"].is = "Ok" =>
             bucket_status["versioning"].value = statuses[selected_bucket]
  BY <1>6 DEF Changed, Excepted, OnPanel, Held, Kinds
<1>9. /\ list.objects.is = "Ok" =>
           list.objects.value = stored[selected_bucket] \intersect Inside[list.current_prefix]
      /\ picked \subseteq {HereIn(list.current_prefix)}
  BY <1>1, <1>2 DEF Settled, ListTrue, ListingShown, PickedHere, StoredHere, InPrefix
<1> QED BY <1>4, <1>5, <1>7, <1>8, <1>9

-----------------------------------------------------------------------------
(* Theorems *)

\* DetailsNeverStuck: whatever is selected, edited, answered, refused or lost, and in whatever
\* order, what the panels and the list wait for is under way.
THEOREM DetailsNeverStuck == Spec => []NeverStuck
<1>1. DetailsInv => NeverStuck
  BY DEF DetailsInv, ObjectInv, BucketInv, ListInv, ObjectWaits, BucketWaits, ListWaits, NeverStuck
<1> QED BY <1>1, InductiveInv, PTL

\* DetailsShownIsSelected: what is shown is of what is selected, and a document is saved to the
\* bucket it was opened for.
THEOREM DetailsShownIsSelected == Spec => []ShownIsSelected
<1>1. ASSUME DetailsInv
      PROVE  ShownIsSelected
  <2>1. \A kind \in Kinds : documents[kind].editing => opened[kind] = selected_bucket
    BY <1>1 DEF DetailsInv, BucketInv, ShownOfBucket
  <2>2. selection.kind = "Object" =>
          /\ pane.object_inspect.of \in {SelectedObject, Nothing}
          /\ pane.heal_result \in {SelectedObject, Nothing}
    BY <1>1 DEF DetailsInv, ObjectInv, ObjectShown, OfSelected
  <2>3. (selection.kind = "Object" /\ ~restless) =>
          /\ pane.loading_detail \/ pane.detail.of \in {SelectedObject, Nothing}
          /\ {pane.object_tags.of, pane.object_versions.of, pane.object_preview.of,
              pane.share_url.of} \subseteq {SelectedObject, Nothing}
    BY <1>1 DEF DetailsInv, ObjectInv, ObjectShown, OfSelected
  <2>4. (BucketShown /\ ~restless) =>
          /\ \A kind \in Kinds : documents[kind].loaded.of \in {Here, Nothing}
          /\ created \/ {bucket_tags.of, bucket_status["ftt"].of} \subseteq {Here, Nothing}
    BY <1>1 DEF DetailsInv, BucketInv, ShownOfBucket, OfHere
  <2> QED BY <2>1, <2>2, <2>3, <2>4 DEF ShownIsSelected
<1> QED BY <1>1, InductiveInv, PTL

\* DetailsTagsAsWished: no change of an object's tags undoes another.
THEOREM DetailsTagsAsWished == Spec => []TagsAsWished
<1>1. ASSUME DetailsInv
      PROVE  TagsAsWished
  <2>1. ASSUME ~restless, ~unsure, ~UnderWay("tags", "save")
        PROVE  tags = wished
    <3>1. \A i \in DOMAIN requests : ~Unsaved(requests[i])
      BY <2>1 DEF UnderWay, Unsaved
    <3> QED BY <1>1, <2>1, <3>1 DEF DetailsInv, ObjectInv, TagsInv
  <2> QED BY <2>1 DEF TagsAsWished
<1> QED BY <1>1, InductiveInv, PTL

\* DetailsVersionsAsChosen: no version of another object is deleted or restored.
THEOREM DetailsVersionsAsChosen == Spec => []VersionsAsChosen
<1>1. DetailsInv => VersionsAsChosen
  BY DEF DetailsInv, ObjectInv, VersionsInv, VersionsAsChosen
<1> QED BY <1>1, InductiveInv, PTL

\* DetailsSettledIsTrue: when the user waited for every answer, the server has what the user
\* left, and the panel and the list show what the server has.
THEOREM DetailsSettledIsTrue == Spec => []SettledIsTrue
<1>1. Init => SettledInv
  BY SettledInit
<1>2. DetailsInv /\ SettledInv /\ [Next]_vars => SettledInv'
  BY SettledStep
<1>3. SettledInv => SettledIsTrue
  BY SettledMeans
<1> QED BY <1>1, <1>2, <1>3, InductiveInv, PTL DEF Spec
=============================================================================
