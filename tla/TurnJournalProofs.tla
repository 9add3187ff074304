-------------------------- MODULE TurnJournalProofs --------------------------
(***************************************************************************)
(* Lemmas about the operators on rows that TurnJournal and TurnQueue are   *)
(* built from: each keeps the rows distinct, and adds or removes the rows  *)
(* that it is meant to.                                                    *)
(***************************************************************************)
EXTENDS TurnJournal, FiniteSetTheorems, SequenceTheorems, TLAPS

-----------------------------------------------------------------------------
(* Sequences                                                                *)

LEMMA Elements ==
  ASSUME NEW S, NEW s \in Seq(S)
  PROVE  /\ Len(s) \in Nat /\ DOMAIN s = 1 .. Len(s) /\ \A i \in 1 .. Len(s) : s[i] \in S
         /\ ToSet(s) = {s[i] : i \in 1 .. Len(s)} /\ ToSet(s) \subseteq S
BY DEF ToSet

LEMMA SameElements ==
  ASSUME NEW S, NEW t \in Seq(S), NEW T, \A i \in 1 .. Len(t) : t[i] \in T,
         \A x \in T : \E i \in 1 .. Len(t) : t[i] = x
  PROVE  ToSet(t) = T
<1>1. ToSet(t) = {t[i] : i \in 1 .. Len(t)}
  BY Elements
<1>2. QED
  BY <1>1, Zenon

LEMMA Distinct ==
  ASSUME NEW S, NEW s \in Seq(S)
  PROVE  IsInjective(s) <=> \A i, j \in 1 .. Len(s) : s[i] = s[j] => i = j
BY Elements DEF IsInjective

\* t is s with e at place n.
LEMMA WithOneMore ==
  ASSUME NEW S, NEW s \in Seq(S), NEW t \in Seq(S), NEW e \in S, NEW n \in 1 .. Len(s) + 1,
         Len(t) = Len(s) + 1,
         \A i \in 1 .. Len(t) : t[i] = IF i < n THEN s[i] ELSE IF i = n THEN e ELSE s[i - 1]
  PROVE  /\ ToSet(t) = ToSet(s) \cup {e}
         /\ IsInjective(s) /\ e \notin ToSet(s) => IsInjective(t)
<1> DEFINE old(i) == IF i < n THEN i ELSE i - 1
           new(i) == IF i < n THEN i ELSE i + 1
<1>1. Len(s) \in Nat /\ n \in 1 .. Len(t) /\ t[n] = e
  BY Elements
<1>2. ASSUME NEW i \in 1 .. Len(t), i # n PROVE old(i) \in 1 .. Len(s) /\ t[i] = s[old(i)]
  BY <1>1, <1>2
<1>3. ASSUME NEW i \in 1 .. Len(s) PROVE new(i) \in 1 .. Len(t) /\ t[new(i)] = s[i]
  <2>1. new(i) \in 1 .. Len(t) /\ new(i) # n /\ old(new(i)) = i
    BY <1>1
  <2> HIDE DEF old, new
  <2>2. QED
    BY <1>2, <2>1
<1>4. ASSUME NEW i \in 1 .. Len(t), NEW j \in 1 .. Len(t), i # n, j # n, old(i) = old(j) PROVE i = j
  BY <1>1, <1>4
<1> HIDE DEF old, new
<1>5. ToSet(t) = ToSet(s) \cup {e}
  <2>1. \A i \in 1 .. Len(t) : t[i] \in ToSet(s) \cup {e}
    BY <1>1, <1>2, Elements
  <2>2. \A x \in ToSet(s) \cup {e} : \E i \in 1 .. Len(t) : t[i] = x
    BY <1>1, <1>3, Elements
  <2>3. QED
    BY <2>1, <2>2, SameElements
<1>6. ASSUME IsInjective(s), e \notin ToSet(s) PROVE IsInjective(t)
  <2>1. \A i \in 1 .. Len(s) : s[i] # e
    BY <1>6, Elements
  <2>2. \A i, j \in 1 .. Len(s) : s[i] = s[j] => i = j
    BY <1>6, Distinct
  <2>3. ASSUME NEW i \in 1 .. Len(t), NEW j \in 1 .. Len(t), t[i] = t[j] PROVE i = j
    BY <1>1, <1>2, <1>4, <2>1, <2>2, <2>3
  <2>4. QED
    BY <2>3, Distinct
<1>7. QED
  BY <1>5, <1>6

\* t is s without its element at place n.
LEMMA WithOneLess ==
  ASSUME NEW S, NEW s \in Seq(S), NEW t \in Seq(S), NEW n \in 1 .. Len(s), IsInjective(s),
         Len(t) = Len(s) - 1,
         \A i \in 1 .. Len(t) : t[i] = IF i < n THEN s[i] ELSE s[i + 1]
  PROVE  IsInjective(t) /\ ToSet(t) = ToSet(s) \ {s[n]}
<1> DEFINE old(i) == IF i < n THEN i ELSE i + 1
           new(i) == IF i < n THEN i ELSE i - 1
<1>1. Len(s) \in Nat /\ \A i, j \in 1 .. Len(s) : s[i] = s[j] => i = j
  BY Elements, Distinct
<1>2. ASSUME NEW i \in 1 .. Len(t) PROVE old(i) \in 1 .. Len(s) /\ old(i) # n /\ t[i] = s[old(i)]
  BY <1>1
<1>3. ASSUME NEW i \in 1 .. Len(s), i # n PROVE new(i) \in 1 .. Len(t) /\ t[new(i)] = s[i]
  <2>1. new(i) \in 1 .. Len(t) /\ old(new(i)) = i
    BY <1>1, <1>3
  <2> HIDE DEF old, new
  <2>2. QED
    BY <1>2, <2>1
<1>4. ASSUME NEW i \in 1 .. Len(t), NEW j \in 1 .. Len(t), old(i) = old(j) PROVE i = j
  BY <1>1, <1>4
<1> HIDE DEF old, new
<1>5. ToSet(t) = ToSet(s) \ {s[n]}
  <2>1. \A i \in 1 .. Len(t) : t[i] \in ToSet(s) \ {s[n]}
    BY <1>1, <1>2, Elements
  <2>2. \A x \in ToSet(s) \ {s[n]} : \E i \in 1 .. Len(t) : t[i] = x
    BY <1>3, Elements
  <2>3. QED
    BY <2>1, <2>2, SameElements
<1>6. IsInjective(t)
  <2>1. ASSUME NEW i \in 1 .. Len(t), NEW j \in 1 .. Len(t), t[i] = t[j] PROVE i = j
    BY <1>1, <1>2, <1>4, <2>1
  <2>2. QED
    BY <2>1, Distinct
<1>7. QED
  BY <1>5, <1>6

LEMMA AppendKeeps ==
  ASSUME NEW S, NEW s \in Seq(S), NEW e \in S
  PROVE  /\ Append(s, e) \in Seq(S) /\ ToSet(Append(s, e)) = ToSet(s) \cup {e}
         /\ IsInjective(s) /\ e \notin ToSet(s) => IsInjective(Append(s, e))
<1> DEFINE t == Append(s, e)
<1>1. /\ t \in Seq(S) /\ Len(t) = Len(s) + 1
      /\ \A i \in 1 .. Len(t) : t[i] = IF i <= Len(s) THEN s[i] ELSE e
  BY Elements
<1> HIDE DEF t
<1>2. \A i \in 1 .. Len(t) :
        t[i] = IF i < Len(s) + 1 THEN s[i] ELSE IF i = Len(s) + 1 THEN e ELSE s[i - 1]
  BY <1>1, Elements
<1>3. Len(s) + 1 \in 1 .. Len(s) + 1
  BY Elements
<1>4. /\ ToSet(t) = ToSet(s) \cup {e}
      /\ IsInjective(s) /\ e \notin ToSet(s) => IsInjective(t)
  BY <1>1, <1>2, <1>3, WithOneMore
<1>5. QED
  BY <1>1, <1>4 DEF t

LEMMA PrependKeeps ==
  ASSUME NEW S, NEW s \in Seq(S), NEW e \in S
  PROVE  /\ <<e>> \o s \in Seq(S) /\ ToSet(<<e>> \o s) = ToSet(s) \cup {e}
         /\ IsInjective(s) /\ e \notin ToSet(s) => IsInjective(<<e>> \o s)
<1> DEFINE t == <<e>> \o s
<1>1. /\ t \in Seq(S) /\ Len(t) = Len(s) + 1
      /\ \A i \in 1 .. Len(t) : t[i] = IF i = 1 THEN e ELSE s[i - 1]
  BY Elements
<1> HIDE DEF t
<1>2. \A i \in 1 .. Len(t) : t[i] = IF i < 1 THEN s[i] ELSE IF i = 1 THEN e ELSE s[i - 1]
  BY <1>1, Elements
<1>3. 1 \in 1 .. Len(s) + 1
  BY Elements
<1>4. /\ ToSet(t) = ToSet(s) \cup {e}
      /\ IsInjective(s) /\ e \notin ToSet(s) => IsInjective(t)
  BY <1>1, <1>2, <1>3, WithOneMore
<1>5. QED
  BY <1>1, <1>4 DEF t

LEMMA Prefix ==
  ASSUME NEW S, NEW s \in Seq(S), NEW n \in 0 .. Len(s)
  PROVE  /\ SubSeq(s, 1, n) \in Seq(S) /\ Len(SubSeq(s, 1, n)) = n
         /\ \A i \in 1 .. n : SubSeq(s, 1, n)[i] = s[i]
BY Elements, SubSeqProperties

LEMMA Suffix ==
  ASSUME NEW S, NEW s \in Seq(S), NEW n \in 0 .. Len(s)
  PROVE  /\ SubSeq(s, n + 1, Len(s)) \in Seq(S) /\ Len(SubSeq(s, n + 1, Len(s))) = Len(s) - n
         /\ \A i \in 1 .. Len(s) - n : SubSeq(s, n + 1, Len(s))[i] = s[n + i]
BY Elements, SubSeqProperties

LEMMA InsertKeeps ==
  ASSUME NEW S, NEW s \in Seq(S), NEW e \in S, NEW n \in 1 .. Len(s) + 1
  PROVE  /\ InsertAt(s, n, e) \in Seq(S) /\ ToSet(InsertAt(s, n, e)) = ToSet(s) \cup {e}
         /\ IsInjective(s) /\ e \notin ToSet(s) => IsInjective(InsertAt(s, n, e))
<1>1. PICK k \in 0 .. Len(s) : n = k + 1 /\ n - 1 = k
  BY Elements
<1> DEFINE u == SubSeq(s, 1, k)  v == SubSeq(s, k + 1, Len(s))
<1>2. u \in Seq(S) /\ Len(u) = k /\ \A i \in 1 .. k : u[i] = s[i]
  BY Prefix
<1>3. v \in Seq(S) /\ Len(v) = Len(s) - k /\ \A i \in 1 .. Len(s) - k : v[i] = s[k + i]
  BY Suffix
<1> DEFINE w == u \o <<e>>  t == w \o v
<1>4. InsertAt(s, n, e) = t
  BY <1>1 DEF InsertAt
<1> HIDE DEF u, v
<1>5. w \in Seq(S) /\ Len(w) = n /\ \A i \in 1 .. n : w[i] = IF i < n THEN s[i] ELSE e
  <2>1. u \o <<e>> = Append(u, e)
    BY <1>2
  <2>2. /\ Append(u, e) \in Seq(S) /\ Len(Append(u, e)) = n
        /\ \A i \in 1 .. n : Append(u, e)[i] = IF i < n THEN u[i] ELSE e
    BY <1>1, <1>2, Elements
  <2>3. \A i \in 1 .. n : i < n => u[i] = s[i]
    BY <1>1, <1>2
  <2>4. QED
    BY <2>1, <2>2, <2>3
<1> HIDE DEF w
<1>6. /\ t \in Seq(S) /\ Len(t) = Len(s) + 1
      /\ \A i \in 1 .. Len(s) + 1 : t[i] = IF i <= n THEN w[i] ELSE v[i - n]
  <2>1. Len(w) + Len(v) = Len(s) + 1
    BY <1>1, <1>3, <1>5, Elements
  <2>2. /\ w \o v \in Seq(S) /\ Len(w \o v) = Len(w) + Len(v)
        /\ \A i \in 1 .. Len(w) + Len(v) : (w \o v)[i] = IF i <= Len(w) THEN w[i] ELSE v[i - Len(w)]
    BY <1>3, <1>5, ConcatProperties
  <2>3. QED
    BY <1>5, <2>1, <2>2
<1> HIDE DEF t
<1>7. ASSUME NEW i \in 1 .. Len(t)
      PROVE  t[i] = IF i < n THEN s[i] ELSE IF i = n THEN e ELSE s[i - 1]
  <2>1. CASE i <= n
    BY <1>5, <1>6, <2>1
  <2>2. CASE i > n
    <3>1. i - n \in 1 .. Len(s) - k /\ k + (i - n) = i - 1
      BY <1>1, <1>6, <2>2, Elements
    <3>2. v[i - n] = s[k + (i - n)]
      BY <1>3, <3>1
    <3>3. t[i] = v[i - n]
      BY <1>6, <2>2
    <3>4. QED
      BY <2>2, <3>1, <3>2, <3>3
  <2>3. QED
    BY <2>1, <2>2, Elements
<1>8. /\ ToSet(t) = ToSet(s) \cup {e}
      /\ IsInjective(s) /\ e \notin ToSet(s) => IsInjective(t)
  BY <1>6, <1>7, WithOneMore
<1>9. QED
  BY <1>4, <1>6, <1>8

LEMMA RemoveAtKeeps ==
  ASSUME NEW S, NEW s \in Seq(S), NEW n \in 1 .. Len(s), IsInjective(s)
  PROVE  /\ RemoveAt(s, n) \in Seq(S) /\ IsInjective(RemoveAt(s, n))
         /\ ToSet(RemoveAt(s, n)) = ToSet(s) \ {s[n]}
<1>1. PICK k \in 0 .. Len(s) : n = k + 1 /\ n - 1 = k /\ n \in 0 .. Len(s)
  BY Elements
<1> DEFINE u == SubSeq(s, 1, k)  v == SubSeq(s, n + 1, Len(s))  t == u \o v
<1>2. u \in Seq(S) /\ Len(u) = k /\ \A i \in 1 .. k : u[i] = s[i]
  BY Prefix
<1>3. v \in Seq(S) /\ Len(v) = Len(s) - n /\ \A i \in 1 .. Len(s) - n : v[i] = s[n + i]
  BY <1>1, Suffix
<1>4. RemoveAt(s, n) = t
  BY <1>1 DEF RemoveAt
<1> HIDE DEF u, v
<1>5. /\ t \in Seq(S) /\ Len(t) = Len(s) - 1
      /\ \A i \in 1 .. Len(s) - 1 : t[i] = IF i < n THEN u[i] ELSE v[i - k]
  <2>1. Len(u) + Len(v) = Len(s) - 1 /\ \A i \in 1 .. Len(s) - 1 : i <= k <=> i < n
    BY <1>1, <1>2, <1>3, Elements
  <2>2. /\ u \o v \in Seq(S) /\ Len(u \o v) = Len(u) + Len(v)
        /\ \A i \in 1 .. Len(u) + Len(v) : (u \o v)[i] = IF i <= Len(u) THEN u[i] ELSE v[i - Len(u)]
    BY <1>2, <1>3, ConcatProperties
  <2>3. QED
    BY <1>2, <2>1, <2>2
<1> HIDE DEF t
<1>6. ASSUME NEW i \in 1 .. Len(t) PROVE t[i] = IF i < n THEN s[i] ELSE s[i + 1]
  <2>1. CASE i < n
    BY <1>1, <1>2, <1>5, <2>1
  <2>2. CASE i >= n
    <3>1. i - k \in 1 .. Len(s) - n /\ n + (i - k) = i + 1
      BY <1>1, <1>5, <2>2, Elements
    <3>2. v[i - k] = s[n + (i - k)]
      BY <1>3, <3>1
    <3>3. t[i] = v[i - k]
      BY <1>5, <2>2, Elements
    <3>4. QED
      BY <2>2, <3>1, <3>2, <3>3
  <2>3. QED
    BY <2>1, <2>2, Elements
<1>7. IsInjective(t) /\ ToSet(t) = ToSet(s) \ {s[n]}
  <2>1. t \in Seq(S) /\ Len(t) = Len(s) - 1
    BY <1>5
  <2>2. \A i \in 1 .. Len(t) : t[i] = IF i < n THEN s[i] ELSE s[i + 1]
    BY <1>6
  <2>3. QED
    BY <2>1, <2>2, WithOneLess, ZenonT(60)
<1>8. QED
  BY <1>4, <1>5, <1>7

LEMMA TailKeeps ==
  ASSUME NEW S, NEW s \in Seq(S), s # <<>>, IsInjective(s)
  PROVE  /\ Tail(s) \in Seq(S) /\ IsInjective(Tail(s))
         /\ Head(s) \in ToSet(s) /\ ToSet(Tail(s)) = ToSet(s) \ {Head(s)}
<1>1. /\ Head(s) = s[1] /\ 1 \in 1 .. Len(s) /\ Tail(s) \in Seq(S) /\ Len(Tail(s)) = Len(s) - 1
      /\ \A i \in 1 .. Len(s) - 1 : Tail(s)[i] = s[i + 1]
  BY Elements, HeadTailProperties
<1> DEFINE t == Tail(s)
<1> HIDE DEF t
<1>2. \A i \in 1 .. Len(t) : t[i] = IF i < 1 THEN s[i] ELSE s[i + 1]
  BY <1>1, Elements DEF t
<1>3. t \in Seq(S) /\ Len(t) = Len(s) - 1 /\ 1 \in 1 .. Len(s) /\ Head(s) = s[1]
  BY <1>1 DEF t
<1>4. IsInjective(t) /\ ToSet(t) = ToSet(s) \ {s[1]}
  BY <1>2, <1>3, WithOneLess
<1>5. s[1] \in ToSet(s)
  BY <1>3, Elements
<1>6. QED
  BY <1>3, <1>4, <1>5 DEF t

LEMMA PlaceIs ==
  ASSUME NEW S, NEW s \in Seq(S), NEW e, IsInjective(s)
  PROVE  /\ e \in ToSet(s) => Place(s, e) \in 1 .. Len(s) /\ s[Place(s, e)] = e
         /\ e \notin ToSet(s) => Place(s, e) = 0
<1>1. CASE e \notin ToSet(s)
  BY <1>1, Elements DEF Place, SelectInSeq
<1>2. CASE e \in ToSet(s)
  <2>1. PICK i \in 1 .. Len(s) : s[i] = e
    BY <1>2, Elements
  <2>2. {j \in 1 .. Len(s) : s[j] = e} = {i}
    BY <2>1, Elements DEF IsInjective
  <2>3. Min({i}) = i
    BY <2>1, Elements DEF Min
  <2>4. QED
    BY <1>2, <2>1, <2>2, <2>3 DEF Place, SelectInSeq
<1>3. QED
  BY <1>1, <1>2

LEMMA RemoveFirstKeeps ==
  ASSUME NEW S, NEW s \in Seq(S), NEW e, IsInjective(s)
  PROVE  /\ RemoveFirst(s, e) \in Seq(S) /\ IsInjective(RemoveFirst(s, e))
         /\ ToSet(RemoveFirst(s, e)) = ToSet(s) \ {e}
<1>1. CASE e \notin ToSet(s)
  <2>1. RemoveFirst(s, e) = s
    BY <1>1, Elements DEF RemoveFirst
  <2>2. QED
    BY <1>1, <2>1
<1>2. CASE e \in ToSet(s)
  <2>1. Place(s, e) \in 1 .. Len(s) /\ s[Place(s, e)] = e
    BY <1>2, PlaceIs
  <2>2. RemoveFirst(s, e) = RemoveAt(s, Place(s, e))
    BY <1>2, Elements DEF RemoveFirst, Place
  <2>3. QED
    BY <2>1, <2>2, RemoveAtKeeps
<1>3. QED
  BY <1>1, <1>2

LEMMA SwapKeeps ==
  ASSUME NEW S, NEW s \in Seq(S), IsInjective(s), NEW i \in 2 .. Len(s)
  PROVE  LET t == [s EXCEPT ![i - 1] = s[i], ![i] = s[i - 1]]
         IN  t \in Seq(S) /\ IsInjective(t) /\ ToSet(t) = ToSet(s)
<1> DEFINE t == [s EXCEPT ![i - 1] = s[i], ![i] = s[i - 1]]
           other(j) == IF j = i THEN i - 1 ELSE IF j = i - 1 THEN i ELSE j
<1>1. /\ t \in Seq(S) /\ Len(t) = Len(s)
      /\ \A j \in 1 .. Len(s) : t[j] = IF j = i THEN s[i - 1] ELSE IF j = i - 1 THEN s[i] ELSE s[j]
  BY Elements
<1> HIDE DEF t
<1>2. ASSUME NEW j \in 1 .. Len(s)
      PROVE  other(j) \in 1 .. Len(s) /\ other(other(j)) = j /\ t[j] = s[other(j)]
  BY <1>1, Elements
<1> HIDE DEF other
<1>3. ASSUME NEW j \in 1 .. Len(s) PROVE t[other(j)] = s[j]
  BY <1>2
<1>4. ToSet(t) = ToSet(s)
  <2>1. \A j \in 1 .. Len(t) : t[j] \in ToSet(s)
    BY <1>1, <1>2, Elements
  <2>2. \A x \in ToSet(s) : \E j \in 1 .. Len(t) : t[j] = x
    <3>1. TAKE x \in ToSet(s)
    <3>2. PICK j \in 1 .. Len(s) : s[j] = x
      BY Elements
    <3>3. QED
      BY <1>1, <1>2, <1>3, <3>2
  <2>3. QED
    BY <1>1, <2>1, <2>2, SameElements
<1>5. IsInjective(t)
  <2>1. \A j, k \in 1 .. Len(s) : s[j] = s[k] => j = k
    BY Distinct
  <2>2. ASSUME NEW j \in 1 .. Len(t), NEW k \in 1 .. Len(t), t[j] = t[k] PROVE j = k
    <3>1. other(j) = other(k)
      BY <1>1, <1>2, <2>1, <2>2
    <3>2. QED
      BY <1>1, <1>2, <3>1
  <2>3. QED
    BY <1>1, <2>2, Distinct
<1>6. QED
  BY <1>1, <1>4, <1>5 DEF t

LEMMA ConcatKeeps ==
  ASSUME NEW S, NEW s \in Seq(S), NEW t \in Seq(S)
  PROVE  /\ s \o t \in Seq(S) /\ ToSet(s \o t) = ToSet(s) \cup ToSet(t)
         /\ IsInjective(s) /\ IsInjective(t) /\ ToSet(s) \cap ToSet(t) = {} => IsInjective(s \o t)
<1> DEFINE w == s \o t  n == Len(s)  k == Len(t)
<1>1. /\ w \in Seq(S) /\ Len(w) = n + k /\ n \in Nat /\ k \in Nat
      /\ \A i \in 1 .. n + k : w[i] = IF i <= n THEN s[i] ELSE t[i - n]
  BY ConcatProperties, Elements
<1>2. /\ ToSet(s) = {s[i] : i \in 1 .. n} /\ ToSet(t) = {t[i] : i \in 1 .. k}
      /\ IsInjective(s) => \A i, j \in 1 .. n : s[i] = s[j] => i = j
      /\ IsInjective(t) => \A i, j \in 1 .. k : t[i] = t[j] => i = j
  <2>1. ToSet(s) = {s[i] : i \in 1 .. n} /\ ToSet(t) = {t[i] : i \in 1 .. k}
    BY Elements
  <2>2. IsInjective(s) => \A i, j \in 1 .. n : s[i] = s[j] => i = j
    BY Distinct
  <2>3. IsInjective(t) => \A i, j \in 1 .. k : t[i] = t[j] => i = j
    BY Distinct
  <2>4. QED
    BY <2>1, <2>2, <2>3
<1> HIDE DEF w, n, k
<1>3. ASSUME NEW i \in 1 .. n + k
      PROVE  \/ i \in 1 .. n /\ w[i] = s[i]
             \/ i > n /\ i - n \in 1 .. k /\ w[i] = t[i - n]
  BY <1>1
<1>4. ASSUME NEW i \in 1 .. n PROVE i \in 1 .. n + k /\ w[i] = s[i]
  BY <1>1
<1>5. ASSUME NEW i \in 1 .. k PROVE i + n \in 1 .. n + k /\ w[i + n] = t[i]
  <2>1. i + n \in 1 .. n + k /\ ~(i + n <= n) /\ (i + n) - n = i
    BY <1>1
  <2>2. QED
    BY <1>1, <2>1
<1>6. ToSet(w) = ToSet(s) \cup ToSet(t)
  <2>1. ASSUME NEW i \in 1 .. Len(w) PROVE w[i] \in ToSet(s) \cup ToSet(t)
    <3>1. i \in 1 .. n + k
      BY <1>1
    <3>2. CASE i \in 1 .. n /\ w[i] = s[i]
      BY <3>2, <1>2
    <3>3. CASE i - n \in 1 .. k /\ w[i] = t[i - n]
      BY <3>3, <1>2
    <3>4. QED
      BY <3>1, <3>2, <3>3, <1>3
  <2>2. \A x \in ToSet(s) \cup ToSet(t) : \E i \in 1 .. Len(w) : w[i] = x
    BY <1>1, <1>2, <1>4, <1>5
  <2>3. QED
    BY <1>1, <2>1, <2>2, SameElements
<1>7. ASSUME IsInjective(s), IsInjective(t), ToSet(s) \cap ToSet(t) = {} PROVE IsInjective(w)
  <2>1. ASSUME NEW i \in 1 .. n, NEW j \in 1 .. k PROVE s[i] # t[j]
    BY <1>2, <1>7
  <2>2. ASSUME NEW i \in 1 .. n + k, NEW j \in 1 .. n + k, w[i] = w[j] PROVE i = j
    <3>1. CASE i > n /\ j > n
      <4>1. i - n \in 1 .. k /\ j - n \in 1 .. k /\ t[i - n] = t[j - n]
        BY <1>1, <1>3, <2>2, <3>1
      <4>2. i - n = j - n
        BY <1>2, <1>7, <4>1
      <4>3. QED
        BY <1>1, <4>2
    <3>2. CASE i \in 1 .. n /\ j \in 1 .. n
      BY <1>2, <1>4, <1>7, <2>2, <3>2
    <3>3. CASE i > n /\ j \in 1 .. n
      BY <1>1, <1>3, <1>4, <2>1, <2>2, <3>3
    <3>4. CASE i \in 1 .. n /\ j > n
      <4>1. j - n \in 1 .. k /\ w[j] = t[j - n] /\ w[i] = s[i]
        BY <1>1, <1>3, <1>4, <3>4
      <4>2. QED
        BY <2>1, <2>2, <3>4, <4>1
    <3>5. QED
      BY <1>3, <3>1, <3>2, <3>3, <3>4
  <2>3. QED
    BY <1>1, <2>2, Distinct
<1>8. QED
  BY <1>1, <1>6, <1>7 DEF w

LEMMA OnlyKeeps ==
  ASSUME NEW S, NEW s \in Seq(S), NEW T, IsInjective(s)
  PROVE  /\ Only(s, T) \in Seq(S) /\ IsInjective(Only(s, T))
         /\ ToSet(Only(s, T)) = ToSet(s) \cap T
<1> DEFINE kept == {i \in DOMAIN s : s[i] \in T}
           upto(i) == {k \in kept : k <= i}
           c == Cardinality(kept)
           f == [i \in kept |-> Cardinality(upto(i))]
           at(n) == CHOOSE i \in kept : Cardinality(upto(i)) = n
           t == [n \in 1 .. c |-> s[at(n)]]
<1>1. IsFiniteSet(kept) /\ c \in Nat /\ kept \subseteq 1 .. Len(s) /\ Len(s) \in Nat
  <2>1. IsFiniteSet(1 .. Len(s)) /\ DOMAIN s = 1 .. Len(s) /\ Len(s) \in Nat
    BY Elements, FS_Interval
  <2>2. QED
    BY <2>1, FS_Subset, FS_CardinalityType
<1>2. ASSUME NEW i \in kept
      PROVE  IsFiniteSet(upto(i)) /\ Cardinality(upto(i)) \in 1 .. c
  <2>1. upto(i) \in SUBSET kept /\ i \in upto(i)
    BY <1>1
  <2>2. IsFiniteSet(upto(i)) /\ Cardinality(upto(i)) <= c /\ Cardinality(upto(i)) \in Nat
    BY <1>1, <2>1, FS_Subset, FS_CardinalityType
  <2>3. Cardinality(upto(i)) # 0
    BY <2>1, <2>2, FS_EmptySet
  <2>4. QED
    BY <1>1, <2>2, <2>3
<1>3. ASSUME NEW i \in kept, NEW j \in kept, i < j PROVE Cardinality(upto(i)) # Cardinality(upto(j))
  <2>1. upto(i) \in SUBSET upto(j) /\ j \in upto(j) \ upto(i)
    BY <1>1, <1>3
  <2>2. QED
    BY <1>2, <2>1, FS_Subset
<1>4. ASSUME NEW i \in kept, NEW j \in kept, Cardinality(upto(i)) = Cardinality(upto(j)) PROVE i = j
  <2>1. i \in Nat /\ j \in Nat
    BY <1>1
  <2> HIDE DEF upto
  <2>2. ~(i < j) /\ ~(j < i)
    BY <1>3, <1>4
  <2>3. QED
    BY <2>1, <2>2
<1>5. \A n \in 1 .. c : \E i \in kept : Cardinality(upto(i)) = n
  <2>1. f \in [kept -> 1 .. c]
    BY <1>2
  <2>2. f \in Injection(kept, 1 .. c)
    BY <1>4, <2>1 DEF Injection, IsInjective
  <2>3. IsFiniteSet(1 .. c) /\ Cardinality(1 .. c) = c
    BY <1>1, FS_Interval
  <2>4. f \in Surjection(kept, 1 .. c)
    BY <2>2, <2>3, FS_Injection
  <2>5. QED
    BY <2>4 DEF Surjection
<1>6. Only(s, T) = t
  BY DEF Only
<1> HIDE DEF upto, c, f
<1>7. ASSUME NEW n \in 1 .. c PROVE at(n) \in kept /\ Cardinality(upto(at(n))) = n
  BY <1>5
<1>8. ASSUME NEW i \in kept PROVE Cardinality(upto(i)) \in 1 .. c /\ at(Cardinality(upto(i))) = i
  BY <1>2, <1>4, <1>7
<1>9. \A i \in kept : i \in 1 .. Len(s) /\ s[i] \in S /\ s[i] \in T
  BY <1>1, Elements
<1>10. \A x \in ToSet(s) \cap T : \E i \in kept : s[i] = x
  BY Elements
<1>11. \A i, j \in kept : s[i] = s[j] => i = j
  BY <1>9, Distinct
<1> HIDE DEF kept
<1>12. t \in Seq(S) /\ Len(t) = c /\ \A n \in 1 .. c : t[n] = s[at(n)]
  <2>1. \A n \in 1 .. c : s[at(n)] \in S
    BY <1>7, <1>9
  <2> HIDE DEF at
  <2>2. QED
    BY <1>1, <2>1
<1> HIDE DEF t, at
<1>13. ToSet(t) = ToSet(s) \cap T
  <2>1. \A n \in 1 .. Len(t) : t[n] \in ToSet(s) \cap T
    BY <1>7, <1>9, <1>12, Elements
  <2>2. \A x \in ToSet(s) \cap T : \E n \in 1 .. Len(t) : t[n] = x
    <3>1. TAKE x \in ToSet(s) \cap T
    <3>2. PICK i \in kept : s[i] = x
      BY <1>10
    <3>3. QED
      BY <1>8, <1>12, <3>2
  <2>3. QED
    BY <1>12, <2>1, <2>2, SameElements
<1>14. IsInjective(t)
  <2>1. ASSUME NEW n \in 1 .. Len(t), NEW k \in 1 .. Len(t), t[n] = t[k] PROVE n = k
    <3>1. at(n) = at(k)
      BY <1>7, <1>11, <1>12, <2>1
    <3>2. QED
      BY <1>7, <1>12, <3>1
  <2>2. QED
    BY <1>12, <2>1, Distinct
<1>15. QED
  BY <1>6, <1>12, <1>13, <1>14

-----------------------------------------------------------------------------
(* The journal                                                              *)

\* A journal of rows of S: each waits once, marks are on rows that wait, and a
\* fence is also a hold.
Sound(j, S) ==
  /\ j \in [order : Seq(S), held : SUBSET S, fenced : SUBSET S]
  /\ IsInjective(j.order)
  /\ j.held \subseteq Waiting(j) /\ j.fenced \subseteq j.held

LEMMA QueuedKeeps ==
  ASSUME NEW S, NEW j, Sound(j, S), NEW m \in S
  PROVE  LET k == Queued(j, m)
         IN  /\ Sound(k, S) /\ Waiting(k) = Waiting(j) \cup {m}
             /\ k.held = j.held \ {m} /\ k.fenced = j.fenced \ {m}
<1> DEFINE k == Queued(j, m)  w == j.order
<1>1. w \in Seq(S) /\ IsInjective(w) /\ Waiting(j) = ToSet(w)
  BY DEF Sound, Waiting
<1> DEFINE o == IF m \in ToSet(w) THEN w ELSE Append(w, m)
<1>2. o \in Seq(S) /\ IsInjective(o) /\ ToSet(o) = ToSet(w) \cup {m}
  <2>1. CASE m \in ToSet(w)
    BY <1>1, <2>1
  <2>2. CASE m \notin ToSet(w)
    BY <1>1, <2>2, AppendKeeps
  <2>3. QED
    BY <2>1, <2>2
<1>3. k = [order |-> o, held |-> j.held \ {m}, fenced |-> j.fenced \ {m}]
  BY <1>1 DEF Queued
<1> HIDE DEF o
<1>4. QED
  BY <1>1, <1>2, <1>3 DEF Sound, Waiting

LEMMA PausedKeeps ==
  ASSUME NEW S, NEW j, Sound(j, S), NEW ms
  PROVE  LET k == Paused(j, ms)
         IN  /\ Sound(k, S) /\ Waiting(k) = Waiting(j)
             /\ k.held = j.held \cup (ms \cap Waiting(j)) /\ k.fenced = j.fenced
<1>1. Waiting(j) \subseteq S
  BY Elements DEF Sound, Waiting
<1>2. Paused(j, ms) = [order |-> j.order, held |-> j.held \cup (ms \cap Waiting(j)), fenced |-> j.fenced]
  <2>1. j = [order |-> j.order, held |-> j.held, fenced |-> j.fenced]
    BY DEF Sound
  <2>2. QED
    BY <2>1 DEF Paused
<1>3. QED
  BY <1>1, <1>2 DEF Sound, Waiting

LEMMA ConsumedKeeps ==
  ASSUME NEW S, NEW j, Sound(j, S), NEW m
  PROVE  LET k == Consumed(j, m)
         IN  /\ Sound(k, S) /\ Waiting(k) = Waiting(j) \ {m}
             /\ k.held = j.held \ {m} /\ k.fenced = j.fenced \ {m}
<1> DEFINE o == RemoveFirst(j.order, m)
<1>1. o \in Seq(S) /\ IsInjective(o) /\ ToSet(o) = ToSet(j.order) \ {m}
  BY RemoveFirstKeeps DEF Sound
<1>2. Consumed(j, m) = [order |-> o, held |-> j.held \ {m}, fenced |-> j.fenced \ {m}]
  BY DEF Consumed
<1> HIDE DEF o
<1>3. QED
  BY <1>1, <1>2 DEF Sound, Waiting

LEMMA DeliveryFencedKeeps ==
  ASSUME NEW S, NEW j, Sound(j, S), NEW m \in S, NEW place \in Nat \ {0}
  PROVE  LET k == DeliveryFenced(j, m, place)
         IN  /\ Sound(k, S) /\ Waiting(k) = Waiting(j) \cup {m}
             /\ k.held = j.held \cup {m} /\ k.fenced = j.fenced \cup {m}
<1> DEFINE rest == RemoveFirst(j.order, m)
           at == IF place > Len(rest) THEN Len(rest) + 1 ELSE place
           o == InsertAt(rest, at, m)
<1>1. rest \in Seq(S) /\ IsInjective(rest) /\ ToSet(rest) = ToSet(j.order) \ {m}
  BY RemoveFirstKeeps DEF Sound
<1>2. DeliveryFenced(j, m, place) = [order |-> o, held |-> j.held \cup {m}, fenced |-> j.fenced \cup {m}]
  BY DEF DeliveryFenced
<1> HIDE DEF rest
<1>3. at \in 1 .. Len(rest) + 1
  BY <1>1, Elements
<1> HIDE DEF at
<1>4. o \in Seq(S) /\ IsInjective(o) /\ ToSet(o) = ToSet(j.order) \cup {m}
  BY <1>1, <1>3, InsertKeeps
<1> HIDE DEF o
<1>5. QED
  BY <1>2, <1>4 DEF Sound, Waiting

LEMMA RunNextKeeps ==
  ASSUME NEW S, NEW j, Sound(j, S), NEW m \in S
  PROVE  LET k == RunNext(j, m)
         IN  /\ Sound(k, S) /\ Waiting(k) = Waiting(j)
             /\ k.held = j.held \ {m} /\ k.fenced = j.fenced \ {m}
<1>1. CASE m \notin Waiting(j)
  BY <1>1 DEF RunNext, Sound
<1>2. CASE m \in Waiting(j)
  <2> DEFINE rest == RemoveFirst(j.order, m)  o == <<m>> \o rest
  <2>1. rest \in Seq(S) /\ IsInjective(rest) /\ ToSet(rest) = ToSet(j.order) \ {m}
    BY RemoveFirstKeeps DEF Sound
  <2>2. RunNext(j, m) = [order |-> o, held |-> j.held \ {m}, fenced |-> j.fenced \ {m}]
    BY <1>2 DEF RunNext
  <2> HIDE DEF rest
  <2>3. m \in ToSet(j.order)
    BY <1>2 DEF Waiting
  <2>4. o \in Seq(S) /\ (m \notin ToSet(rest) => IsInjective(o)) /\ ToSet(o) = ToSet(rest) \cup {m}
    BY <2>1, PrependKeeps
  <2> HIDE DEF o
  <2>5. ToSet(o) = ToSet(j.order) /\ IsInjective(o) /\ o \in Seq(S)
    BY <2>1, <2>3, <2>4
  <2> HIDE DEF rest
  <2>6. QED
    BY <2>2, <2>5 DEF Sound, Waiting
<1>3. QED
  BY <1>1, <1>2

LEMMA ReorderedKeeps ==
  ASSUME NEW S, NEW j, Sound(j, S), NEW rows \in Seq(S), IsInjective(rows)
  PROVE  LET k == Reordered(j, rows)
         IN  /\ Sound(k, S) /\ Waiting(k) = Waiting(j)
             /\ k.held = j.held /\ k.fenced = j.fenced
<1> DEFINE first == Only(rows, Waiting(j))
           rest == Only(j.order, Waiting(j) \ ToSet(rows))
           o == first \o rest
<1>1. first \in Seq(S) /\ IsInjective(first) /\ ToSet(first) = ToSet(rows) \cap Waiting(j)
  BY OnlyKeeps
<1>2. rest \in Seq(S) /\ IsInjective(rest) /\ ToSet(rest) = Waiting(j) \ ToSet(rows)
  BY OnlyKeeps DEF Sound, Waiting
<1>3. Reordered(j, rows) = [order |-> o, held |-> j.held, fenced |-> j.fenced]
  <2>1. j = [order |-> j.order, held |-> j.held, fenced |-> j.fenced]
    BY DEF Sound
  <2> HIDE DEF first, rest
  <2>2. Reordered(j, rows) = [j EXCEPT !.order = o]
    BY DEF Reordered, first, rest
  <2>3. QED
    BY <2>1, <2>2
<1> HIDE DEF first, rest
<1>4. /\ o \in Seq(S) /\ ToSet(o) = ToSet(first) \cup ToSet(rest)
      /\ ToSet(first) \cap ToSet(rest) = {} => IsInjective(o)
  BY <1>1, <1>2, ConcatKeeps
<1> HIDE DEF o
<1>5. ToSet(first) \cap ToSet(rest) = {} /\ ToSet(o) = Waiting(j)
  BY <1>1, <1>2, <1>4
<1>6. QED
  BY <1>3, <1>4, <1>5 DEF Sound, Waiting

=============================================================================
