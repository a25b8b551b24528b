-------------------------- MODULE ValueFolds_proofs --------------------------
(***************************************************************************)
(* For any engines, values and memory for folds, and any number of Go      *)
(* functions in progress one inside the other: the lists of folds are      *)
(* whole and in order, an owned fold is the first, engines stay as long as *)
(* they are needed, Init is called once and in time, and Changed reaches   *)
(* every object its value had.                                             *)
(***************************************************************************)
EXTENDS ValueFolds, FiniteSetTheorems, TLAPS

-----------------------------------------------------------------------------
(* Lists in memory *)

(* s lists the folds of live from first on, as their links in fs say.  It is
   IsList with what Cardinality(live) stands for there: s has all of live. *)
IsChain(fs, live, first, n, s) ==
  /\ n \in Nat
  /\ s \in [1 .. n -> live]
  /\ \A g \in live : \E i \in 1 .. n : s[i] = g
  /\ \A i, j \in 1 .. n : s[i] = s[j] => i = j
  /\ first = IF n = 0 THEN nil ELSE s[1]
  /\ \A i \in 1 .. n : /\ fs[s[i]].prev = IF i = 1 THEN nil ELSE s[i - 1]
                       /\ fs[s[i]].next = IF i = n THEN nil ELSE s[i + 1]

Prepended(f, n, s) == [i \in 1 .. n + 1 |-> IF i = 1 THEN f ELSE s[i - 1]]
Appended(f, n, s) == [i \in 1 .. n + 1 |-> IF i = n + 1 THEN f ELSE s[i]]
Removed(k, n, s) == [i \in 1 .. n - 1 |-> IF i < k THEN s[i] ELSE s[i + 1]]

(* A list stays one as long as the links of its folds do. *)
LEMMA KeptChain ==
  ASSUME NEW fs, NEW fs2, NEW live, NEW first, NEW n, NEW s,
         IsChain(fs, live, first, n, s),
         \A g \in live : fs2[g].prev = fs[g].prev /\ fs2[g].next = fs[g].next
  PROVE  IsChain(fs2, live, first, n, s)
  BY DEF IsChain

(* wrapGoValue: the new fold before the first. *)
LEMMA PrependedChain ==
  ASSUME NEW fs, NEW fs2, NEW live, NEW first, NEW n, NEW s, NEW f,
         IsChain(fs, live, first, n, s), f \notin live, nil \notin live,
         fs2[f].prev = nil, fs2[f].next = first,
         \A g \in live : /\ fs2[g].next = fs[g].next
                         /\ fs2[g].prev = IF g = first THEN f ELSE fs[g].prev
  PROVE  IsChain(fs2, live \cup {f}, f, n + 1, Prepended(f, n, s))
<1> DEFINE t == Prepended(f, n, s)
<1>1. n \in Nat /\ DOMAIN s = 1 .. n /\ \A i \in 1 .. n : s[i] \in live
  BY DEF IsChain
<1>2. /\ t \in [1 .. n + 1 -> live \cup {f}]
      /\ t[1] = f
      /\ \A i \in 2 .. n + 1 : t[i] = s[i - 1] /\ i - 1 \in 1 .. n
      /\ \A i \in 1 .. n : t[i + 1] = s[i] /\ i + 1 \in 2 .. n + 1
  BY <1>1 DEF Prepended
<1> HIDE DEF t
<1>3. \A g \in live \cup {f} : \E i \in 1 .. n + 1 : t[i] = g
  <2>1. 1 \in 1 .. n + 1 /\ t[1] = f
    BY <1>1, <1>2
  <2>2. ASSUME NEW g \in live PROVE \E i \in 1 .. n + 1 : t[i] = g
    <3>1. PICK i \in 1 .. n : s[i] = g
      BY DEF IsChain
    <3>2. t[i + 1] = g /\ i + 1 \in 1 .. n + 1
      BY <1>1, <1>2, <3>1
    <3> QED
      BY <3>2
  <2> QED
    BY <2>1, <2>2
<1>4. ASSUME NEW i \in 1 .. n + 1, NEW j \in 1 .. n + 1, t[i] = t[j] PROVE i = j
  <2>1. CASE i = 1 \/ j = 1
    BY <1>1, <1>2, <1>4, <2>1
  <2>2. CASE i # 1 /\ j # 1
    BY <1>1, <1>2, <1>4, <2>2 DEF IsChain
  <2> QED
    BY <2>1, <2>2
<1>5. ASSUME NEW i \in 1 .. n + 1
      PROVE  /\ fs2[t[i]].prev = IF i = 1 THEN nil ELSE t[i - 1]
             /\ fs2[t[i]].next = IF i = n + 1 THEN nil ELSE t[i + 1]
  <2>1. CASE i = 1
    <3>1. n = 0 => first = nil
      BY DEF IsChain
    <3>2. n # 0 => first = s[1] /\ t[2] = s[1]
      BY <1>1, <1>2 DEF IsChain
    <3> QED
      BY <1>1, <1>2, <2>1, <3>1, <3>2
  <2>2. CASE i # 1
    <3>1. /\ i - 1 \in 1 .. n /\ t[i] = s[i - 1] /\ t[i] \in live
          /\ fs[s[i - 1]].prev = (IF i - 1 = 1 THEN nil ELSE s[i - 2])
          /\ fs[s[i - 1]].next = (IF i - 1 = n THEN nil ELSE s[i])
      BY <1>1, <1>2, <2>2 DEF IsChain
    <3>2. fs2[t[i]].next = IF i = n + 1 THEN nil ELSE t[i + 1]
      BY <1>1, <1>2, <2>2, <3>1
    <3>3. fs2[t[i]].prev = t[i - 1]
      <4>1. CASE i = 2
        BY <1>1, <1>2, <3>1, <4>1 DEF IsChain
      <4>2. CASE i # 2
        <5>1. first = s[1] /\ s[i - 1] # s[1]
          BY <1>1, <3>1, <4>2 DEF IsChain
        <5>2. t[i - 1] = s[i - 2]
          BY <1>1, <1>2, <2>2, <4>2
        <5> QED
          BY <1>1, <3>1, <4>2, <5>1, <5>2
      <4> QED
        BY <4>1, <4>2
    <3> QED
      BY <2>2, <3>2, <3>3
  <2> QED
    BY <2>1, <2>2
<1> QED
  <2>1. IsChain(fs2, live \cup {f}, f, n + 1, t)
    BY <1>1, <1>2, <1>3, <1>4, <1>5 DEF IsChain
  <2> QED
    BY <2>1 DEF t

(* ensureEngine: the new fold after the last. *)
LEMMA AppendedChain ==
  ASSUME NEW fs, NEW fs2, NEW live, NEW first, NEW n, NEW s, NEW f,
         IsChain(fs, live, first, n, s), f \notin live, n # 0,
         fs2[f].prev = s[n], fs2[f].next = nil,
         \A g \in live : /\ fs2[g].prev = fs[g].prev
                         /\ fs2[g].next = IF g = s[n] THEN f ELSE fs[g].next
  PROVE  IsChain(fs2, live \cup {f}, first, n + 1, Appended(f, n, s))
<1> DEFINE t == Appended(f, n, s)
<1>1. n \in Nat /\ DOMAIN s = 1 .. n /\ \A i \in 1 .. n : s[i] \in live
  BY DEF IsChain
<1>2. /\ t \in [1 .. n + 1 -> live \cup {f}]
      /\ t[n + 1] = f
      /\ \A i \in 1 .. n : t[i] = s[i] /\ i # n + 1 /\ i \in 1 .. n + 1
  BY <1>1 DEF Appended
<1> HIDE DEF t
<1>3. \A g \in live \cup {f} : \E i \in 1 .. n + 1 : t[i] = g
  <2>1. n + 1 \in 1 .. n + 1 /\ t[n + 1] = f
    BY <1>1, <1>2
  <2>2. ASSUME NEW g \in live PROVE \E i \in 1 .. n + 1 : t[i] = g
    BY <1>1, <1>2 DEF IsChain
  <2> QED
    BY <2>1, <2>2
<1>4. ASSUME NEW i \in 1 .. n + 1, NEW j \in 1 .. n + 1, t[i] = t[j] PROVE i = j
  <2>1. CASE i = n + 1 \/ j = n + 1
    BY <1>1, <1>2, <1>4, <2>1
  <2>2. CASE i # n + 1 /\ j # n + 1
    <3>1. i \in 1 .. n /\ j \in 1 .. n
      BY <1>1, <2>2
    <3>2. s[i] = s[j]
      BY <1>2, <1>4, <3>1
    <3> QED
      BY <3>1, <3>2 DEF IsChain
  <2> QED
    BY <2>1, <2>2
<1>5. ASSUME NEW i \in 1 .. n + 1
      PROVE  /\ fs2[t[i]].prev = IF i = 1 THEN nil ELSE t[i - 1]
             /\ fs2[t[i]].next = IF i = n + 1 THEN nil ELSE t[i + 1]
  <2>1. CASE i = n + 1
    BY <1>1, <1>2, <2>1
  <2>2. CASE i # n + 1
    <3>1. /\ i \in 1 .. n /\ t[i] = s[i] /\ t[i] \in live
          /\ fs[s[i]].prev = (IF i = 1 THEN nil ELSE s[i - 1])
          /\ fs[s[i]].next = (IF i = n THEN nil ELSE s[i + 1])
          /\ s[i] = s[n] => i = n
      BY <1>1, <1>2, <2>2 DEF IsChain
    <3>2. i # n => t[i + 1] = s[i + 1]
      BY <1>1, <1>2, <3>1
    <3>3. i # 1 => t[i - 1] = s[i - 1]
      BY <1>1, <1>2, <3>1
    <3> QED
      BY <1>1, <1>2, <2>2, <3>1, <3>2, <3>3
  <2> QED
    BY <2>1, <2>2
<1>6. first = t[1]
  BY <1>1, <1>2 DEF IsChain
<1> QED
  <2>1. IsChain(fs2, live \cup {f}, first, n + 1, t)
    BY <1>1, <1>2, <1>3, <1>4, <1>5, <1>6 DEF IsChain
  <2> QED
    BY <2>1 DEF t

(* hookGoValueDestroyed: the k-th fold out of the list. *)
LEMMA RemovedChain ==
  ASSUME NEW fs, NEW fs2, NEW live, NEW first, NEW n, NEW s, NEW k \in 1 .. n,
         IsChain(fs, live, first, n, s), nil \notin live,
         \A g \in live \ {s[k]} :
           /\ fs2[g].next = IF g = fs[s[k]].prev THEN fs[s[k]].next ELSE fs[g].next
           /\ fs2[g].prev = IF g # fs[s[k]].prev /\ g = fs[s[k]].next
                            THEN fs[s[k]].prev ELSE fs[g].prev
  PROVE  IsChain(fs2, live \ {s[k]},
                 IF fs[s[k]].prev = nil THEN fs[s[k]].next ELSE first,
                 n - 1, Removed(k, n, s))
<1> DEFINE t == Removed(k, n, s)
           f == s[k]
           newFirst == IF fs[f].prev = nil THEN fs[f].next ELSE first
<1>1. /\ n \in Nat /\ n # 0 /\ n - 1 \in Nat /\ k \in 1 .. n
      /\ \A i \in 1 .. n : s[i] \in live
      /\ \A i, j \in 1 .. n : s[i] = s[j] => i = j
      /\ \A i \in 1 .. n : /\ fs[s[i]].prev = IF i = 1 THEN nil ELSE s[i - 1]
                           /\ fs[s[i]].next = IF i = n THEN nil ELSE s[i + 1]
  BY DEF IsChain
<1>2. \A i \in 1 .. n : i # k => s[i] \in live \ {f}
  BY <1>1
<1>3. /\ fs[f].prev = IF k = 1 THEN nil ELSE s[k - 1]
      /\ fs[f].next = IF k = n THEN nil ELSE s[k + 1]
  BY <1>1
<1>4. /\ \A i \in 1 .. n - 1 : /\ i < k => t[i] = s[i] /\ i \in 1 .. n /\ i # k
                               /\ ~(i < k) => t[i] = s[i + 1] /\ i + 1 \in 1 .. n
                                             /\ i + 1 # k
      /\ t \in [1 .. n - 1 -> live \ {f}]
  BY <1>1, <1>2 DEF Removed
<1> HIDE DEF t
<1>5. \A g \in live \ {f} : \E i \in 1 .. n - 1 : t[i] = g
  <2>1. SUFFICES ASSUME NEW g \in live \ {f} PROVE \E i \in 1 .. n - 1 : t[i] = g
    OBVIOUS
  <2>2. PICK i \in 1 .. n : s[i] = g
    BY DEF IsChain
  <2>3. CASE i < k
    <3>1. i \in 1 .. n - 1 /\ t[i] = g
      BY <1>1, <1>4, <2>2, <2>3
    <3> QED
      BY <3>1
  <2>4. CASE ~(i < k)
    <3>1. i # k
      BY <2>2
    <3>2. i - 1 \in 1 .. n - 1 /\ ~(i - 1 < k) /\ (i - 1) + 1 = i
      BY <1>1, <2>4, <3>1
    <3>3. t[i - 1] = g
      BY <1>4, <2>2, <3>2
    <3> QED
      BY <3>2, <3>3
  <2> QED
    BY <2>3, <2>4
<1>6. ASSUME NEW i \in 1 .. n - 1, NEW j \in 1 .. n - 1, t[i] = t[j] PROVE i = j
  <2> DEFINE p(x) == IF x < k THEN x ELSE x + 1
  <2>1. p(i) \in 1 .. n /\ p(j) \in 1 .. n /\ s[p(i)] = s[p(j)]
    BY <1>4, <1>6
  <2>2. p(i) = p(j)
    BY <1>1, <2>1
  <2> QED
    BY <1>1, <2>2
<1>7. newFirst = IF n - 1 = 0 THEN nil ELSE t[1]
  <2>1. CASE k = 1
    BY <1>1, <1>3, <1>4, <2>1
  <2>2. CASE k # 1
    <3>1. s[k - 1] \in live /\ first = s[1] /\ n - 1 # 0 /\ t[1] = s[1]
      BY <1>1, <1>4, <2>2 DEF IsChain
    <3> QED
      BY <1>3, <2>2, <3>1
  <2> QED
    BY <2>1, <2>2
<1>8. ASSUME NEW i \in 1 .. n - 1
      PROVE  /\ fs2[t[i]].prev = IF i = 1 THEN nil ELSE t[i - 1]
             /\ fs2[t[i]].next = IF i = n - 1 THEN nil ELSE t[i + 1]
  <2>1. CASE i < k - 1
    <3>1. /\ i \in 1 .. n /\ t[i] = s[i] /\ t[i + 1] = s[i + 1] /\ i # n - 1 /\ i # n
          /\ i # 1 => t[i - 1] = s[i - 1]
          /\ i # k - 1 /\ i # k + 1
      BY <1>1, <1>4, <2>1
    <3>2. s[i] # fs[f].prev /\ s[i] # fs[f].next
      BY <1>1, <1>3, <2>1, <3>1
    <3> QED
      BY <1>1, <1>2, <2>1, <3>1, <3>2
  <2>2. CASE i = k - 1
    <3>1. /\ i \in 1 .. n /\ t[i] = s[i] /\ k # 1 /\ i # k
          /\ i # n - 1 => t[i + 1] = s[k + 1]
          /\ i # 1 => t[i - 1] = s[i - 1]
      BY <1>1, <1>4, <2>2
    <3>2. s[i] = fs[f].prev
      BY <1>3, <2>2, <3>1
    <3> QED
      BY <1>1, <1>2, <1>3, <2>2, <3>1, <3>2
  <2>3. CASE i = k
    <3>1. /\ i + 1 \in 1 .. n /\ t[i] = s[i + 1] /\ k # n /\ i + 1 # k
          /\ i # n - 1 => t[i + 1] = s[i + 2]
          /\ i # 1 => t[i - 1] = s[i - 1]
      BY <1>1, <1>4, <2>3
    <3>2. s[i + 1] = fs[f].next /\ s[i + 1] \in live
      BY <1>1, <1>3, <2>3, <3>1
    <3>3. s[i + 1] # fs[f].prev
      BY <1>1, <1>3, <2>3, <3>1, <3>2
    <3>4. fs2[s[i + 1]].prev = fs[f].prev /\ fs2[s[i + 1]].next = fs[s[i + 1]].next
      BY <1>1, <1>2, <3>1, <3>2, <3>3
    <3> QED
      BY <1>1, <1>3, <2>3, <3>1, <3>4
  <2>4. CASE i > k
    <3>1. /\ i + 1 \in 1 .. n /\ t[i] = s[i + 1] /\ t[i - 1] = s[i] /\ i # 1
          /\ i # n - 1 => t[i + 1] = s[i + 2]
          /\ i + 1 # k /\ i + 1 # k - 1 /\ i + 1 # k + 1
      <4>1. i - 1 \in 1 .. n - 1 /\ ~(i - 1 < k) /\ (i - 1) + 1 = i /\ i # 1
        BY <1>1, <2>4
      <4>2. t[i - 1] = s[i]
        BY <1>4, <4>1
      <4>3. i # n - 1 => i + 1 \in 1 .. n - 1 /\ ~(i + 1 < k) /\ (i + 1) + 1 = i + 2
        BY <1>1, <2>4
      <4>4. i # n - 1 => t[i + 1] = s[i + 2]
        BY <1>4, <4>3
      <4> QED
        BY <1>1, <1>4, <2>4, <4>1, <4>2, <4>4
    <3>2. s[i + 1] \in live
      BY <1>1, <3>1
    <3>3. s[i + 1] # fs[f].prev /\ s[i + 1] # fs[f].next
      BY <1>1, <1>3, <2>4, <3>1, <3>2
    <3>4. fs2[s[i + 1]].prev = fs[s[i + 1]].prev /\ fs2[s[i + 1]].next = fs[s[i + 1]].next
      BY <1>1, <1>2, <3>1, <3>2, <3>3
    <3> QED
      BY <1>1, <2>4, <3>1, <3>4
  <2> QED
    BY <1>1, <2>1, <2>2, <2>3, <2>4
<1> QED
  <2>1. IsChain(fs2, live \ {f}, newFirst, n - 1, t)
    BY <1>1, <1>4, <1>5, <1>6, <1>7, <1>8 DEF IsChain
  <2> QED
    BY <2>1 DEF t

(* A list has as many folds as there are. *)
LEMMA ChainLength ==
  ASSUME NEW fs, NEW live, NEW first, NEW n, NEW s, IsChain(fs, live, first, n, s)
  PROVE  Cardinality(live) = n
<1>1. n \in Nat /\ s \in Bijection(1 .. n, live)
  BY DEF IsChain, Bijection, Injection, Surjection, IsInjective
<1> QED
  BY <1>1, FS_CountingElements DEF ExistsBijection

-----------------------------------------------------------------------------
(* The store: what C++ holds, and the lists of it *)

FoldRecord ==
  [engine : Engines \cup {NoEngine}, gvalue : Values,
   owner : {"cppOwner", "jsOwner"}, init : BOOLEAN,
   prev : Folds \cup {nil}, next : Folds \cup {nil}]

(* Only the folds of a list have neighbours. *)
StoreTyped ==
  /\ cgoFolds \subseteq Ids /\ Ids \subseteq Folds
  /\ folds \in [Ids -> FoldRecord]
  /\ values \in [Engines -> [Values -> Folds \cup {nil}]]
  /\ typeNew = {f \in cgoFolds : folds[f].engine = NoEngine}
  /\ \A f \in Ids : f \in typeNew \/ f \notin cgoFolds
                    => folds[f].prev = nil /\ folds[f].next = nil

ChainOf(e, v, n, s) == IsChain(folds, LiveFolds(e, v), values[e][v], n, s)

StoreInv ==
  /\ StoreTyped
  /\ \A e \in Engines, v \in Values : \E n, s : ChainOf(e, v, n, s)

(* What a step with a Go function in progress makes of a list: nothing, or
   one more fold, new to C++, in front, or one more at the end. *)
Grows(e, v, n, s) ==
  \/ ChainOf(e, v, n, s)'
  \/ \E f \in Folds \ cgoFolds : ChainOf(e, v, n + 1, Prepended(f, n, s))'
  \/ \E f \in Folds : ChainOf(e, v, n + 1, Appended(f, n, s))'

AllGrow ==
  \A e \in Engines, v \in Values : \A n, s : ChainOf(e, v, n, s) => Grows(e, v, n, s)

LEMMA GrownStore ==
  ASSUME StoreInv, StoreTyped', AllGrow
  PROVE  StoreInv'
  BY DEF StoreInv, AllGrow, Grows

(* The values map has the first fold of each list, or nil for none. *)
LEMMA FirstFold ==
  ASSUME StoreInv, NEW e \in Engines, NEW v \in Values
  PROVE  /\ nil \notin LiveFolds(e, v)
         /\ values[e][v] = nil <=> LiveFolds(e, v) = {}
         /\ values[e][v] # nil => values[e][v] \in LiveFolds(e, v)
<1>1. PICK n, s : ChainOf(e, v, n, s)
  BY DEF StoreInv
<1>2. nil \notin LiveFolds(e, v)
  BY ValueFoldsAssumption DEF StoreInv, StoreTyped, LiveFolds
<1>3. n = 0 => values[e][v] = nil /\ LiveFolds(e, v) = {}
  BY <1>1 DEF ChainOf, IsChain
<1>4. n # 0 => values[e][v] \in LiveFolds(e, v)
  BY <1>1 DEF ChainOf, IsChain
<1> QED
  BY <1>2, <1>3, <1>4

(* The folds of one list are in no other. *)
LEMMA InOneList ==
  ASSUME NEW e \in Engines, NEW v \in Values, NEW f \in LiveFolds(e, v),
         NEW e2 \in Engines, NEW v2 \in Values, f \in LiveFolds(e2, v2)
  PROVE  e2 = e /\ v2 = v
  BY DEF LiveFolds

LEMMA WrapStore ==
  ASSUME StoreInv, NEW f \in Folds, NEW e \in Engines, NEW v \in Values,
         NEW owner \in {"cppOwner", "jsOwner"}, NewFold(f, e, v, owner, FALSE, values[e][v]),
         values' = [values EXCEPT ![e][v] = f], UNCHANGED typeNew
  PROVE  StoreTyped' /\ AllGrow
<1> DEFINE first == values[e][v]
<1>1. /\ f \notin Ids /\ f \notin cgoFolds /\ f # nil
      /\ cgoFolds' = cgoFolds \cup {f}
      /\ DOMAIN folds' = Ids \cup {f}
      /\ folds'[f] = [engine |-> e, gvalue |-> v, owner |-> owner, init |-> FALSE,
                      prev |-> nil, next |-> first]
      /\ \A g \in Ids : folds'[g] = IF g = first THEN [folds[g] EXCEPT !.prev = f] ELSE folds[g]
  BY ValueFoldsAssumption DEF NewFold, Ids, StoreInv, StoreTyped
<1>2. /\ \A g \in Ids : folds[g] \in FoldRecord
      /\ first \in Folds \cup {nil}
      /\ NoEngine \notin Engines
  BY ValueFoldsAssumption DEF StoreInv, StoreTyped
<1>3. \A g \in Ids :
        /\ folds'[g] \in FoldRecord
        /\ folds'[g].engine = folds[g].engine /\ folds'[g].gvalue = folds[g].gvalue
        /\ folds'[g].next = folds[g].next
        /\ folds'[g].prev = IF g = first THEN f ELSE folds[g].prev
  BY <1>1, <1>2 DEF FoldRecord
<1>4. first # nil => first \in LiveFolds(e, v)
  BY FirstFold
<1>5. StoreTyped'
  <2>1. folds' \in [DOMAIN folds' -> FoldRecord]
    <3>1. folds'[f] \in FoldRecord
      BY <1>1, <1>2 DEF FoldRecord
    <3>2. folds' = [g \in DOMAIN folds' |-> folds'[g]]
      BY DEF NewFold
    <3> QED
      BY <1>1, <1>3, <3>1, <3>2
  <2>2. values' \in [Engines -> [Values -> Folds \cup {nil}]]
    BY DEF StoreInv, StoreTyped
  <2>3. typeNew' = {g \in cgoFolds' : folds'[g].engine = NoEngine}
    BY <1>1, <1>2, <1>3 DEF StoreInv, StoreTyped
  <2>4. ASSUME NEW g \in DOMAIN folds', g \in typeNew' \/ g \notin cgoFolds'
        PROVE  folds'[g].prev = nil /\ folds'[g].next = nil
    <3>1. g \in Ids /\ folds[g].prev = nil /\ folds[g].next = nil
      BY <1>1, <2>4 DEF StoreInv, StoreTyped
    <3>2. g # first
      <4>1. g # nil
        BY <3>1, ValueFoldsAssumption DEF StoreInv, StoreTyped
      <4>2. g \notin LiveFolds(e, v)
        BY <1>1, <1>2, <2>4, <3>1 DEF LiveFolds, StoreInv, StoreTyped
      <4> QED
        BY <1>4, <4>1, <4>2
    <3> QED
      BY <1>3, <3>1, <3>2
  <2> QED
    BY <1>1, <2>1, <2>2, <2>3, <2>4 DEF StoreInv, StoreTyped, Ids
<1>6. AllGrow
  <2>1. SUFFICES ASSUME NEW e2 \in Engines, NEW v2 \in Values, NEW n, NEW s,
                        ChainOf(e2, v2, n, s)
                 PROVE  Grows(e2, v2, n, s)
    BY DEF AllGrow
  <2>2. cgoFolds \subseteq Ids
    BY DEF StoreInv, StoreTyped
  <2>3. CASE e2 = e /\ v2 = v
    <3>1. LiveFolds(e, v)' = LiveFolds(e, v) \cup {f}
      BY <1>1, <1>3, <2>2 DEF LiveFolds
    <3>2. values'[e][v] = f
      BY DEF StoreInv, StoreTyped
    <3>3. IsChain(folds', LiveFolds(e, v) \cup {f}, f, n + 1, Prepended(f, n, s))
      <4>1. f \notin LiveFolds(e, v) /\ nil \notin LiveFolds(e, v) /\ LiveFolds(e, v) \subseteq Ids
        BY <1>1, <2>2, FirstFold DEF LiveFolds
      <4>2. /\ folds'[f].prev = nil /\ folds'[f].next = first
            /\ \A g \in LiveFolds(e, v) :
                 /\ folds'[g].next = folds[g].next
                 /\ folds'[g].prev = IF g = first THEN f ELSE folds[g].prev
        BY <1>1, <1>3, <4>1
      <4>3. IsChain(folds, LiveFolds(e, v), first, n, s)
        BY <2>1, <2>3 DEF ChainOf
      <4> QED
        BY <4>1, <4>2, <4>3, PrependedChain
    <3> QED
      BY <1>1, <2>3, <3>1, <3>2, <3>3 DEF Grows, ChainOf
  <2>4. CASE ~(e2 = e /\ v2 = v)
    <3>1. LiveFolds(e2, v2)' = LiveFolds(e2, v2)
      BY <1>1, <1>3, <2>2, <2>4 DEF LiveFolds
    <3>2. values'[e2][v2] = values[e2][v2]
      BY <2>4 DEF StoreInv, StoreTyped
    <3>3. first \notin LiveFolds(e2, v2)
      BY <1>4, <2>4, FirstFold, InOneList
    <3>4. IsChain(folds', LiveFolds(e2, v2), values[e2][v2], n, s)
      <4>1. \A g \in LiveFolds(e2, v2) :
              folds'[g].prev = folds[g].prev /\ folds'[g].next = folds[g].next
        BY <1>3, <2>2, <3>3 DEF LiveFolds
      <4> QED
        BY <2>1, <4>1, KeptChain DEF ChainOf
    <3> QED
      BY <3>1, <3>2, <3>4 DEF Grows, ChainOf
  <2> QED
    BY <2>3, <2>4
<1> QED
  BY <1>5, <1>6

LEMMA TypeNewStore ==
  ASSUME StoreInv, NEW f \in Folds, NEW v \in Values,
         NewFold(f, NoEngine, v, "jsOwner", TRUE, nil),
         typeNew' = typeNew \cup {f}, UNCHANGED values
  PROVE  StoreTyped' /\ AllGrow
<1>1. /\ f \notin Ids /\ f \notin cgoFolds
      /\ cgoFolds' = cgoFolds \cup {f}
      /\ DOMAIN folds' = Ids \cup {f}
      /\ folds'[f] = [engine |-> NoEngine, gvalue |-> v, owner |-> "jsOwner", init |-> TRUE,
                      prev |-> nil, next |-> nil]
      /\ \A g \in Ids : folds'[g] = folds[g]
  BY ValueFoldsAssumption DEF NewFold, Ids, StoreInv, StoreTyped
<1>2. folds' \in [DOMAIN folds' -> FoldRecord]
  <2>1. folds'[f] \in FoldRecord
    BY <1>1 DEF FoldRecord
  <2>2. folds' = [g \in DOMAIN folds' |-> folds'[g]]
    BY DEF NewFold
  <2> QED
    BY <1>1, <2>1, <2>2 DEF StoreInv, StoreTyped
<1>3. StoreTyped'
  BY <1>1, <1>2 DEF StoreInv, StoreTyped, Ids
<1>4. ASSUME NEW e \in Engines, NEW w \in Values, NEW n, NEW s, ChainOf(e, w, n, s)
      PROVE  Grows(e, w, n, s)
  <2>1. LiveFolds(e, w)' = LiveFolds(e, w)
    BY <1>1, ValueFoldsAssumption DEF LiveFolds, StoreInv, StoreTyped
  <2>2. \A g \in LiveFolds(e, w) :
          folds'[g].prev = folds[g].prev /\ folds'[g].next = folds[g].next
    BY <1>1 DEF LiveFolds, StoreInv, StoreTyped
  <2>3. IsChain(folds', LiveFolds(e, w), values[e][w], n, s)
    BY <1>4, <2>2, KeptChain DEF ChainOf
  <2> QED
    BY <2>1, <2>3 DEF Grows, ChainOf
<1> QED
  BY <1>3, <1>4 DEF AllGrow

(* The last fold of a list is the only one without a next. *)
LEMMA LastFold ==
  ASSUME StoreInv, NEW e \in Engines, NEW v \in Values, NEW n, NEW s,
         ChainOf(e, v, n, s), n # 0
  PROVE  Last(values[e][v]) = s[n] /\ s[n] \in LiveFolds(e, v)
<1>1. values[e][v] \in LiveFolds(e, v) /\ s[n] \in LiveFolds(e, v)
  BY DEF ChainOf, IsChain
<1>2. \A f \in LiveFolds(e, v) : folds[f].next = nil <=> f = s[n]
  <2>1. SUFFICES ASSUME NEW f \in LiveFolds(e, v) PROVE folds[f].next = nil <=> f = s[n]
    OBVIOUS
  <2>2. PICK i \in 1 .. n : s[i] = f
    BY DEF ChainOf, IsChain
  <2>3. i # n => s[i + 1] \in LiveFolds(e, v) /\ folds[f].next = s[i + 1]
    BY <2>2 DEF ChainOf, IsChain
  <2>4. i = n => folds[f].next = nil
    BY <2>2 DEF ChainOf, IsChain
  <2>5. i = n <=> f = s[n]
    BY <2>2 DEF ChainOf, IsChain
  <2> QED
    BY <2>3, <2>4, <2>5, FirstFold
<1> DEFINE P(f) == /\ folds[f].engine = folds[values[e][v]].engine
                   /\ folds[f].gvalue = folds[values[e][v]].gvalue
                   /\ folds[f].next = nil
<1>3. \A f \in cgoFolds : P(f) <=> f = s[n]
  BY <1>1, <1>2 DEF LiveFolds
<1>4. s[n] \in cgoFolds /\ P(s[n])
  BY <1>1, <1>3 DEF LiveFolds
<1>5. Last(values[e][v]) = CHOOSE f \in cgoFolds : P(f)
  BY DEF Last
<1> HIDE DEF P
<1>6. (CHOOSE f \in cgoFolds : P(f)) \in cgoFolds /\ P(CHOOSE f \in cgoFolds : P(f))
  BY <1>4
<1> QED
  BY <1>1, <1>3, <1>5, <1>6

LEMMA AttachStore ==
  ASSUME StoreInv, NEW f \in cgoFolds, NEW e \in Engines,
         folds[f].engine = NoEngine, Attach(f, e), UNCHANGED cgoFolds
  PROVE  StoreTyped' /\ AllGrow
<1> DEFINE v == folds[f].gvalue
           first == values[e][v]
           last == IF first = nil THEN nil ELSE Last(first)
<1>1. /\ f \in Ids /\ f \in Folds /\ v \in Values /\ f # nil
      /\ folds[f].prev = nil /\ folds[f].next = nil
      /\ NoEngine \notin Engines
      /\ \A g \in Ids : folds[g] \in FoldRecord
  BY ValueFoldsAssumption DEF StoreInv, StoreTyped, FoldRecord
<1>2. /\ DOMAIN folds' = Ids
      /\ folds' = [g \in Ids |-> folds'[g]]
      /\ folds'[f] = [folds[f] EXCEPT !.engine = e, !.prev = last]
      /\ \A g \in Ids : g # f => folds'[g] = IF g = last THEN [folds[g] EXCEPT !.next = f]
                                             ELSE folds[g]
      /\ typeNew' = typeNew \ {f}
      /\ values' = IF first = nil THEN [values EXCEPT ![e][v] = f] ELSE values
  BY <1>1 DEF Attach
<1>3. PICK m, l : ChainOf(e, v, m, l)
  BY <1>1 DEF StoreInv
<1>4. /\ m = 0 => first = nil /\ last = nil
      /\ m # 0 => first # nil /\ last = l[m] /\ last \in LiveFolds(e, v)
  <2>1. m = 0 => first = nil
    BY <1>3 DEF ChainOf, IsChain
  <2>2. m # 0 => first \in LiveFolds(e, v)
    BY <1>3 DEF ChainOf, IsChain
  <2>3. nil \notin LiveFolds(e, v)
    BY <1>1, FirstFold
  <2>4. m # 0 => Last(first) = l[m] /\ l[m] \in LiveFolds(e, v)
    BY <1>1, <1>3, LastFold
  <2> QED
    BY <2>1, <2>2, <2>3, <2>4
<1>5. f \notin LiveFolds(e, v) /\ f # last
  BY <1>1, <1>4 DEF LiveFolds
<1> HIDE DEF last
<1>6. /\ folds'[f].engine = e /\ folds'[f].gvalue = v
      /\ folds'[f].prev = last /\ folds'[f].next = nil
      /\ last \in Folds \cup {nil}
      /\ folds'[f] \in FoldRecord
  <2>1. last \in Folds \cup {nil}
    BY <1>4 DEF LiveFolds, StoreInv, StoreTyped
  <2> QED
    BY <1>1, <1>2, <2>1 DEF FoldRecord
<1>7. \A g \in Ids \ {f} :
        /\ folds'[g].engine = folds[g].engine /\ folds'[g].gvalue = folds[g].gvalue
        /\ folds'[g].prev = folds[g].prev
        /\ folds'[g].next = IF g = last THEN f ELSE folds[g].next
        /\ folds'[g] \in FoldRecord
  BY <1>1, <1>2 DEF FoldRecord
<1>8. StoreTyped'
  <2>1. folds' \in [DOMAIN folds' -> FoldRecord]
    BY <1>2, <1>6, <1>7
  <2>2. values' \in [Engines -> [Values -> Folds \cup {nil}]]
    BY <1>1, <1>2 DEF StoreInv, StoreTyped
  <2>3. typeNew' = {g \in cgoFolds' : folds'[g].engine = NoEngine}
    <3>1. typeNew' = {g \in cgoFolds : folds[g].engine = NoEngine} \ {f} /\ cgoFolds \subseteq Ids
      BY <1>2 DEF StoreInv, StoreTyped
    <3>2. \A g \in cgoFolds : folds'[g].engine = NoEngine <=> folds[g].engine = NoEngine /\ g # f
      BY <1>1, <1>6, <1>7, <3>1
    <3> QED
      BY <3>1, <3>2
  <2>4. ASSUME NEW g \in Ids, g \in typeNew' \/ g \notin cgoFolds'
        PROVE  folds'[g].prev = nil /\ folds'[g].next = nil
    <3>1. g # f /\ (g \in typeNew \/ g \notin cgoFolds)
      BY <1>2, <2>4
    <3>2. g # last
      <4>1. g \notin LiveFolds(e, v) /\ g # nil
        BY <1>1, <3>1, ValueFoldsAssumption DEF LiveFolds, StoreInv, StoreTyped
      <4> QED
        BY <1>4, <4>1
    <3> QED
      BY <1>7, <3>1, <3>2 DEF StoreInv, StoreTyped
  <2> QED
    BY <1>2, <2>1, <2>2, <2>3, <2>4 DEF StoreInv, StoreTyped, Ids
<1>9. ASSUME NEW e2 \in Engines, NEW v2 \in Values, NEW n, NEW s, ChainOf(e2, v2, n, s)
      PROVE  Grows(e2, v2, n, s)
  <2>1. LiveFolds(e2, v2) \subseteq Ids
    BY DEF LiveFolds, StoreInv, StoreTyped
  <2>2. CASE e2 = e /\ v2 = v
    <3>1. LiveFolds(e2, v2)' = LiveFolds(e2, v2) \cup {f}
      BY <1>1, <1>6, <1>7, <2>2 DEF LiveFolds, StoreInv, StoreTyped
    <3>2. nil \notin LiveFolds(e2, v2)
      BY <1>1, FirstFold
    <3>3. CASE n = 0
      <4>1. LiveFolds(e2, v2) = {} /\ first = nil
        BY <1>9, <2>2, <3>3 DEF ChainOf, IsChain
      <4>2. last = nil /\ values'[e2][v2] = f
        BY <1>1, <1>2, <2>2, <4>1 DEF last, StoreInv, StoreTyped
      <4>3. IsChain(folds, LiveFolds(e2, v2), first, n, s)
        BY <1>9, <2>2 DEF ChainOf
      <4>4. IsChain(folds', LiveFolds(e2, v2) \cup {f}, f, n + 1, Prepended(f, n, s))
        <5>1. folds'[f].prev = nil /\ folds'[f].next = first
          BY <1>6, <4>1, <4>2
        <5>2. \A g \in LiveFolds(e2, v2) :
                /\ folds'[g].next = folds[g].next
                /\ folds'[g].prev = IF g = first THEN f ELSE folds[g].prev
          BY <4>1
        <5> QED
          BY <1>5, <2>2, <3>2, <4>3, <5>1, <5>2, PrependedChain
      <4>5. Prepended(f, n, s) = Appended(f, n, s)
        BY <3>3 DEF Prepended, Appended
      <4> QED
        <5>1. ChainOf(e2, v2, n + 1, Appended(f, n, s))'
          BY <3>1, <4>2, <4>4, <4>5 DEF ChainOf
        <5> QED
          BY <1>1, <2>2, <5>1 DEF Grows
    <3>4. CASE n # 0
      <4>1. first # nil /\ last = s[n]
        <5>1. first # nil
          BY <1>9, <2>2, <3>2, <3>4 DEF ChainOf, IsChain
        <5>2. Last(first) = s[n]
          BY <1>9, <2>2, <3>4, LastFold
        <5> QED
          BY <5>1, <5>2 DEF last
      <4>2. IsChain(folds, LiveFolds(e2, v2), first, n, s)
        BY <1>9, <2>2 DEF ChainOf
      <4>3. \A g \in LiveFolds(e2, v2) :
              /\ folds'[g].prev = folds[g].prev
              /\ folds'[g].next = IF g = s[n] THEN f ELSE folds[g].next
        BY <1>5, <1>7, <2>1, <2>2, <4>1
      <4>4. IsChain(folds', LiveFolds(e2, v2) \cup {f}, first, n + 1, Appended(f, n, s))
        BY <1>5, <1>6, <2>2, <3>4, <4>1, <4>2, <4>3, AppendedChain
      <4> QED
        <5>1. values' = values
          BY <1>2, <4>1
        <5>2. ChainOf(e2, v2, n + 1, Appended(f, n, s))'
          BY <2>2, <3>1, <4>4, <5>1 DEF ChainOf
        <5> QED
          BY <1>1, <2>2, <5>2 DEF Grows
    <3> QED
      BY <3>3, <3>4
  <2>3. CASE ~(e2 = e /\ v2 = v)
    <3>1. LiveFolds(e2, v2)' = LiveFolds(e2, v2) /\ f \notin LiveFolds(e2, v2)
      BY <1>1, <1>6, <1>7, <2>3 DEF LiveFolds, StoreInv, StoreTyped
    <3>2. values'[e2][v2] = values[e2][v2]
      BY <1>1, <1>2, <2>3 DEF StoreInv, StoreTyped
    <3>3. last \notin LiveFolds(e2, v2)
      <4>1. nil \notin LiveFolds(e2, v2)
        BY FirstFold
      <4> QED
        BY <1>1, <1>4, <2>3, <4>1, InOneList
    <3>4. IsChain(folds', LiveFolds(e2, v2), values[e2][v2], n, s)
      <4>1. \A g \in LiveFolds(e2, v2) :
              folds'[g].prev = folds[g].prev /\ folds'[g].next = folds[g].next
        BY <1>7, <2>1, <3>1, <3>3
      <4> QED
        BY <1>9, <4>1, KeptChain DEF ChainOf
    <3> QED
      BY <3>1, <3>2, <3>4 DEF Grows, ChainOf
  <2> QED
    BY <2>2, <2>3
<1> QED
  BY <1>8, <1>9 DEF AllGrow

(* Init returning, or a goroutine giving its fold up, leaves the lists. *)
LEMMA KeptStore ==
  ASSUME StoreInv, UNCHANGED <<values, cgoFolds, typeNew>>,
         folds' \in [DOMAIN folds' -> FoldRecord],
         cgoFolds \subseteq DOMAIN folds', DOMAIN folds' \subseteq Ids,
         \A g \in DOMAIN folds' :
           /\ folds'[g].engine = folds[g].engine /\ folds'[g].gvalue = folds[g].gvalue
           /\ folds'[g].prev = folds[g].prev /\ folds'[g].next = folds[g].next
  PROVE  StoreTyped' /\ AllGrow
<1>1. StoreTyped'
  BY DEF StoreInv, StoreTyped, Ids
<1>2. ASSUME NEW e \in Engines, NEW v \in Values, NEW n, NEW s, ChainOf(e, v, n, s)
      PROVE  Grows(e, v, n, s)
  <2>1. LiveFolds(e, v)' = LiveFolds(e, v)
    BY DEF LiveFolds
  <2>2. IsChain(folds', LiveFolds(e, v), values[e][v], n, s)
    <3>1. \A g \in LiveFolds(e, v) :
            folds'[g].prev = folds[g].prev /\ folds'[g].next = folds[g].next
      BY DEF LiveFolds
    <3> QED
      BY <1>2, <3>1, KeptChain DEF ChainOf
  <2> QED
    BY <2>1, <2>2 DEF Grows, ChainOf
<1> QED
  BY <1>1, <1>2 DEF AllGrow

LEMMA UnchangedStore ==
  ASSUME StoreInv, UNCHANGED foldVars
  PROVE  StoreTyped' /\ AllGrow
<1>1. /\ UNCHANGED <<values, cgoFolds, typeNew>> /\ folds' = folds
      /\ folds \in [Ids -> FoldRecord] /\ cgoFolds \subseteq Ids
  BY DEF foldVars, StoreInv, StoreTyped
<1> QED
  BY <1>1, KeptStore DEF Ids

(* What is left of the store when C++ drops a fold of which nothing but the
   links of its neighbours has changed. *)
LEMMA DroppedStore ==
  ASSUME StoreInv, NEW f \in cgoFolds, NEW fs, destroyRef(f, fs),
         DOMAIN fs = Ids,
         \A g \in Ids : /\ fs[g] \in FoldRecord
                        /\ fs[g].engine = folds[g].engine
                        /\ fs[g].gvalue = folds[g].gvalue
                        /\ g \in typeNew \/ g \notin cgoFolds => fs[g] = folds[g],
         typeNew' = typeNew \ {f},
         values' \in [Engines -> [Values -> Folds \cup {nil}]]
  PROVE  /\ StoreTyped'
         /\ \A g \in cgoFolds' : g \in cgoFolds /\ folds'[g] = fs[g]
         /\ \A e \in Engines, v \in Values : LiveFolds(e, v)' = LiveFolds(e, v) \ {f}
<1>1. f \in Ids /\ cgoFolds \subseteq Ids /\ Ids \subseteq Folds /\ cgoFolds' = cgoFolds \ {f}
  BY DEF StoreInv, StoreTyped, destroyRef
<1>2. /\ DOMAIN folds' = IF f \in scheduled THEN Ids ELSE Ids \ {f}
      /\ \A g \in Ids \ {f} : folds'[g] = fs[g]
      /\ f \in scheduled => folds'[f] = [fs[f] EXCEPT !.prev = nil, !.next = nil]
      /\ folds' = [g \in DOMAIN folds' |-> folds'[g]]
  <2>1. CASE f \in scheduled
    BY <1>1, <2>1 DEF destroyRef, FoldRecord
  <2>2. CASE f \notin scheduled
    BY <1>1, <2>2 DEF destroyRef, Without
  <2> QED
    BY <2>1, <2>2
<1>3. f \in scheduled => /\ folds'[f] \in FoldRecord
                         /\ folds'[f].prev = nil /\ folds'[f].next = nil
  BY <1>1, <1>2 DEF FoldRecord
<1>4. folds' \in [DOMAIN folds' -> FoldRecord]
  BY <1>1, <1>2, <1>3
<1>5. typeNew' = {g \in cgoFolds' : folds'[g].engine = NoEngine}
  BY <1>1, <1>2 DEF StoreInv, StoreTyped
<1>6. ASSUME NEW g \in DOMAIN folds', g \in typeNew' \/ g \notin cgoFolds'
      PROVE  folds'[g].prev = nil /\ folds'[g].next = nil
  <2>1. CASE g = f
    BY <1>2, <1>3, <2>1
  <2>2. CASE g # f
    BY <1>1, <1>2, <1>6, <2>2 DEF StoreInv, StoreTyped
  <2> QED
    BY <2>1, <2>2
<1>7. StoreTyped'
  BY <1>1, <1>2, <1>4, <1>5, <1>6 DEF StoreTyped, Ids
<1>8. \A e \in Engines, v \in Values : LiveFolds(e, v)' = LiveFolds(e, v) \ {f}
  BY <1>1, <1>2 DEF LiveFolds
<1> QED
  BY <1>1, <1>2, <1>7, <1>8

LEMMA DestroyedStore ==
  ASSUME StoreInv, engines \subseteq Engines, NEW f \in Ids, hookGoValueDestroyed(f)
  PROVE  StoreInv'
<1> DEFINE e == folds[f].engine
           v == folds[f].gvalue
<1>1. /\ f \in cgoFolds /\ f \in Folds /\ v \in Values /\ cgoFolds \subseteq Ids
      /\ NoEngine \notin Engines /\ nil \notin Ids
      /\ \A g \in Ids : folds[g] \in FoldRecord
      /\ values \in [Engines -> [Values -> Folds \cup {nil}]]
  BY ValueFoldsAssumption DEF hookGoValueDestroyed, StoreInv, StoreTyped, FoldRecord
<1>2. CASE e = NoEngine /\ typeNew' = typeNew \ {f} /\ destroyRef(f, folds) /\ UNCHANGED values
  <2>1. /\ StoreTyped'
        /\ \A g \in cgoFolds' : g \in cgoFolds /\ folds'[g] = folds[g]
        /\ \A x \in Engines, w \in Values : LiveFolds(x, w)' = LiveFolds(x, w) \ {f}
    BY <1>1, <1>2, DroppedStore DEF Ids
  <2>2. ASSUME NEW x \in Engines, NEW w \in Values PROVE \E n, s : ChainOf(x, w, n, s)'
    <3>1. PICK n, s : ChainOf(x, w, n, s)
      BY DEF StoreInv
    <3>2. LiveFolds(x, w)' = LiveFolds(x, w)
      BY <1>1, <1>2, <2>1 DEF LiveFolds
    <3>3. \A g \in LiveFolds(x, w) :
            folds'[g].prev = folds[g].prev /\ folds'[g].next = folds[g].next
      BY <2>1, <3>2 DEF LiveFolds
    <3>4. IsChain(folds', LiveFolds(x, w), values[x][w], n, s)
      BY <3>1, <3>3, KeptChain DEF ChainOf
    <3> QED
      BY <1>2, <3>2, <3>4 DEF ChainOf
  <2> QED
    BY <2>1, <2>2 DEF StoreInv
<1>3. CASE UNCHANGED foldVars
  BY <1>3, UnchangedStore, GrownStore
<1>4. CASE /\ e \in engines
           /\ destroyRef(f, Unlinked(f))
           /\ values' = IF folds[f].prev = nil
                        THEN [values EXCEPT ![e][v] = folds[f].next] ELSE values
           /\ UNCHANGED typeNew
  <2>1. e \in Engines /\ f \in LiveFolds(e, v) /\ f \notin typeNew
    BY <1>1, <1>4 DEF LiveFolds, StoreInv, StoreTyped
  <2>2. PICK m, l : ChainOf(e, v, m, l)
    BY <1>1, <2>1 DEF StoreInv
  <2>3. PICK k \in 1 .. m : l[k] = f
    BY <2>1, <2>2 DEF ChainOf, IsChain
  <2>4. /\ folds[f].prev = nil \/ folds[f].prev \in LiveFolds(e, v)
        /\ folds[f].next = nil \/ folds[f].next \in LiveFolds(e, v)
    <3>1. /\ m \in Nat /\ \A i \in 1 .. m : l[i] \in LiveFolds(e, v)
          /\ folds[f].prev = IF k = 1 THEN nil ELSE l[k - 1]
          /\ folds[f].next = IF k = m THEN nil ELSE l[k + 1]
      BY <2>2, <2>3 DEF ChainOf, IsChain
    <3>2. /\ k # 1 => k - 1 \in 1 .. m
          /\ k # m => k + 1 \in 1 .. m
      BY <3>1
    <3> QED
      BY <3>1, <3>2
  <2>5. /\ DOMAIN Unlinked(f) = Ids
        /\ \A g \in Ids :
             Unlinked(f)[g] =
               IF g = folds[f].prev THEN [folds[g] EXCEPT !.next = folds[f].next]
               ELSE IF g = folds[f].next THEN [folds[g] EXCEPT !.prev = folds[f].prev]
               ELSE folds[g]
    BY DEF Unlinked
  <2>6. \A g \in Ids :
          /\ Unlinked(f)[g] \in FoldRecord
          /\ Unlinked(f)[g].engine = folds[g].engine
          /\ Unlinked(f)[g].gvalue = folds[g].gvalue
          /\ Unlinked(f)[g].next = IF g = folds[f].prev THEN folds[f].next ELSE folds[g].next
          /\ Unlinked(f)[g].prev = IF g # folds[f].prev /\ g = folds[f].next
                                   THEN folds[f].prev ELSE folds[g].prev
    BY <1>1, <2>5 DEF FoldRecord
  <2>7. \A g \in Ids : g \in typeNew \/ g \notin cgoFolds => Unlinked(f)[g] = folds[g]
    BY <1>1, <2>1, <2>4, <2>5 DEF LiveFolds, StoreInv, StoreTyped
  <2>8. values' \in [Engines -> [Values -> Folds \cup {nil}]]
    <3>1. folds[f].next \in Folds \cup {nil}
      BY <1>1 DEF FoldRecord
    <3> QED
      BY <1>1, <1>4, <2>1, <3>1
  <2>9. /\ StoreTyped'
        /\ \A g \in cgoFolds' : g \in cgoFolds /\ folds'[g] = Unlinked(f)[g]
        /\ \A x \in Engines, w \in Values : LiveFolds(x, w)' = LiveFolds(x, w) \ {f}
    <3>1. typeNew' = typeNew \ {f}
      BY <1>4, <2>1
    <3> QED
      BY <1>1, <1>4, <2>5, <2>6, <2>7, <2>8, <3>1, DroppedStore
  <2>10. ASSUME NEW x \in Engines, NEW w \in Values PROVE \E n, s : ChainOf(x, w, n, s)'
    <3>1. PICK n, s : ChainOf(x, w, n, s)
      BY DEF StoreInv
    <3>2. LiveFolds(x, w) \subseteq cgoFolds /\ LiveFolds(x, w)' = LiveFolds(x, w) \ {f}
      BY <2>9 DEF LiveFolds
    <3>3. \A g \in LiveFolds(x, w) \ {f} : g \in Ids /\ folds'[g] = Unlinked(f)[g]
      BY <1>1, <2>9, <3>2 DEF LiveFolds
    <3>4. CASE x = e /\ w = v
      <4>1. nil \notin LiveFolds(x, w)
        BY FirstFold
      <4>2. PICK i \in 1 .. n : s[i] = f
        BY <2>1, <3>1, <3>4 DEF ChainOf, IsChain
      <4>3. IsChain(folds', LiveFolds(x, w) \ {f},
                    IF folds[f].prev = nil THEN folds[f].next ELSE values[x][w],
                    n - 1, Removed(i, n, s))
        <5>1. IsChain(folds, LiveFolds(x, w), values[x][w], n, s)
          BY <3>1 DEF ChainOf
        <5>2. \A g \in LiveFolds(x, w) \ {s[i]} :
                /\ folds'[g].next = IF g = folds[s[i]].prev THEN folds[s[i]].next ELSE folds[g].next
                /\ folds'[g].prev = IF g # folds[s[i]].prev /\ g = folds[s[i]].next
                                    THEN folds[s[i]].prev ELSE folds[g].prev
          BY <2>6, <3>3, <4>2
        <5>3. IsChain(folds', LiveFolds(x, w) \ {s[i]},
                      IF folds[s[i]].prev = nil THEN folds[s[i]].next ELSE values[x][w],
                      n - 1, Removed(i, n, s))
          BY <4>1, <5>1, <5>2, RemovedChain
        <5> QED
          BY <4>2, <5>3
      <4>4. values'[x][w] = IF folds[f].prev = nil THEN folds[f].next ELSE values[x][w]
        BY <1>1, <1>4, <2>1, <3>4
      <4>5. ChainOf(x, w, n - 1, Removed(i, n, s))'
        BY <3>2, <4>3, <4>4 DEF ChainOf
      <4> QED
        BY <4>5
    <3>5. CASE ~(x = e /\ w = v)
      <4>1. f \notin LiveFolds(x, w) /\ nil \notin LiveFolds(x, w)
        BY <1>1, <2>1, <3>5, FirstFold, InOneList
      <4>2. folds[f].prev \notin LiveFolds(x, w) /\ folds[f].next \notin LiveFolds(x, w)
        BY <1>1, <2>1, <2>4, <3>5, <4>1, InOneList
      <4>3. \A g \in LiveFolds(x, w) :
              folds'[g].prev = folds[g].prev /\ folds'[g].next = folds[g].next
        BY <2>6, <3>3, <4>1, <4>2
      <4>4. values'[x][w] = values[x][w]
        BY <1>1, <1>4, <2>1, <3>5
      <4>5. IsChain(folds', LiveFolds(x, w), values[x][w], n, s)
        BY <3>1, <4>3, KeptChain DEF ChainOf
      <4>6. ChainOf(x, w, n, s)'
        <5>1. LiveFolds(x, w)' = LiveFolds(x, w)
          BY <3>2, <4>1
        <5> QED
          BY <4>4, <4>5, <5>1 DEF ChainOf
      <4> QED
        BY <4>6
    <3> QED
      BY <3>4, <3>5
  <2> QED
    BY <2>9, <2>10 DEF StoreInv
<1> QED
  BY <1>2, <1>3, <1>4 DEF hookGoValueDestroyed, Panics

-----------------------------------------------------------------------------
(* The frames *)

ChangedRecord ==
  [kind : {"Changed"}, value : Values, walked : SUBSET Engines, at : Folds \cup {nil},
   later : SUBSET Folds, listed : BOOLEAN, due : SUBSET Folds, reached : SUBSET Folds,
   found : SUBSET Engines]

FrameRecord == [kind : {"Init"}, fold : Folds] \cup [kind : {"Paint"}] \cup ChangedRecord

(* The Go functions in progress know only folds C++ holds.  The exception is
   a fold C++ dropped before its goroutine called Init: then that is the
   outermost call, and the last to know the fold. *)
FrameHolds(i) ==
  /\ frames[i].kind = "Init" =>
       \/ frames[i].fold \in cgoFolds
       \/ i = 1 /\ frames[i].fold \in Ids /\ frames[i].fold \notin scheduled
  /\ frames[i].kind = "Changed" =>
       /\ frames[i].at \in cgoFolds \cup {nil}
       /\ frames[i].listed => frames[i].at # nil
       /\ frames[i].later \subseteq cgoFolds
       /\ frames[i].due \subseteq cgoFolds
       /\ frames[i].reached \subseteq cgoFolds

FramesInv ==
  /\ frames \in Seq(FrameRecord)
  /\ \A i \in 1 .. Len(frames) : FrameHolds(i)
  /\ Ids = cgoFolds \cup scheduled \cup {f \in Folds : InInit(f)}

EnginesTyped ==
  /\ qmlEngines \subseteq Engines /\ engines \subseteq Engines
  /\ destroyed \subseteq Engines
  /\ qmlEngines \ destroyed \subseteq engines

IsInit(frame, f) == frame.kind = "Init" /\ frame.fold = f

LEMMA CallFacts ==
  ASSUME frames \in Seq(FrameRecord), NEW frame \in FrameRecord, Call(frame)
  PROVE  /\ frames' \in Seq(FrameRecord)
         /\ Len(frames) \in Nat /\ Len(frames') = Len(frames) + 1
         /\ \A i \in 1 .. Len(frames) : frames'[i] = frames[i]
         /\ frames'[Len(frames')] = frame
         /\ \A f : InInit(f)' <=> InInit(f) \/ IsInit(frame, f)
<1>1. /\ frames' \in Seq(FrameRecord)
      /\ Len(frames) \in Nat /\ Len(frames') = Len(frames) + 1
      /\ \A i \in 1 .. Len(frames) : frames'[i] = frames[i]
      /\ frames'[Len(frames')] = frame
      /\ DOMAIN frames = 1 .. Len(frames) /\ DOMAIN frames' = 1 .. Len(frames')
  BY DEF Call
<1>2. \A i : i \in DOMAIN frames' <=> i \in DOMAIN frames \/ i = Len(frames')
  BY <1>1
<1> QED
  BY <1>1, <1>2 DEF InInit, IsInit

LEMMA BecomeFacts ==
  ASSUME frames \in Seq(FrameRecord), frames # <<>>, NEW frame \in FrameRecord, Become(frame)
  PROVE  /\ frames' \in Seq(FrameRecord)
         /\ Len(frames) \in Nat \ {0} /\ Len(frames') = Len(frames)
         /\ \A i \in 1 .. Len(frames) :
              frames'[i] = IF i = Len(frames) THEN frame ELSE frames[i]
         /\ Top.kind # "Init" /\ frame.kind # "Init" => \A f : InInit(f)' <=> InInit(f)
<1>1. /\ frames' \in Seq(FrameRecord)
      /\ Len(frames) \in Nat \ {0} /\ Len(frames') = Len(frames)
      /\ \A i \in 1 .. Len(frames) :
           frames'[i] = IF i = Len(frames) THEN frame ELSE frames[i]
      /\ DOMAIN frames = 1 .. Len(frames) /\ DOMAIN frames' = 1 .. Len(frames)
  BY DEF Become
<1>2. Top.kind # "Init" /\ frame.kind # "Init" => \A f : InInit(f)' <=> InInit(f)
  BY <1>1 DEF InInit, IsInit, Top
<1> QED
  BY <1>1, <1>2

LEMMA ReturnFacts ==
  ASSUME frames \in Seq(FrameRecord), frames # <<>>, Return
  PROVE  /\ frames' \in Seq(FrameRecord)
         /\ Len(frames) \in Nat \ {0} /\ Len(frames') = Len(frames) - 1
         /\ \A i \in 1 .. Len(frames') : frames'[i] = frames[i]
         /\ \A f : InInit(f) <=> InInit(f)' \/ IsInit(Top, f)
<1>1. Len(frames) \in Nat \ {0}
  OBVIOUS
<1> DEFINE n == Len(frames) - 1
<1>2. n \in Nat /\ n < Len(frames) /\ frames' = SubSeq(frames, 1, n)
  BY <1>1 DEF Return
<1> HIDE DEF n
<1>3. Len(frames') = n /\ \A i \in 1 .. n : frames'[i] = frames[i] /\ frames[i] \in FrameRecord
  BY <1>1, <1>2
<1>4. frames' \in Seq(FrameRecord)
  BY <1>1, <1>2
<1>5. DOMAIN frames = 1 .. Len(frames) /\ DOMAIN frames' = 1 .. n
  BY <1>3, <1>4
<1>6. \A i : i \in DOMAIN frames <=> i \in DOMAIN frames' \/ i = Len(frames)
  BY <1>1, <1>5 DEF n
<1>7. \A f : InInit(f) <=> InInit(f)' \/ IsInit(Top, f)
  BY <1>3, <1>5, <1>6 DEF InInit, IsInit, Top
<1> QED
  BY <1>1, <1>3, <1>4, <1>7 DEF n

LEMMA TopFacts ==
  ASSUME FramesInv, frames # <<>>
  PROVE  /\ frames \in Seq(FrameRecord)
         /\ Len(frames) \in Nat \ {0} /\ Len(frames) \in 1 .. Len(frames)
         /\ Top = frames[Len(frames)] /\ Top \in FrameRecord
         /\ Top.kind = "Init" =>
              \/ Top.fold \in cgoFolds
              \/ Len(frames) = 1 /\ Top.fold \in Ids /\ Top.fold \notin scheduled
         /\ Top.kind = "Changed" =>
              /\ Top \in ChangedRecord
              /\ Top.at \in cgoFolds \cup {nil}
              /\ Top.listed => Top.at # nil
              /\ Top.later \subseteq cgoFolds
              /\ Top.due \subseteq cgoFolds
              /\ Top.reached \subseteq cgoFolds
<1>1. /\ frames \in Seq(FrameRecord)
      /\ Len(frames) \in Nat \ {0} /\ Len(frames) \in 1 .. Len(frames)
      /\ Top = frames[Len(frames)] /\ Top \in FrameRecord
  BY DEF Top, FramesInv
<1>2. FrameHolds(Len(frames))
  BY <1>1 DEF FramesInv
<1>3. Top.kind = "Changed" => Top \in ChangedRecord
  BY <1>1 DEF FrameRecord
<1> QED
  BY <1>1, <1>2, <1>3 DEF FrameHolds

(* A fold that is known stays known while C++ holds on to its folds. *)
StillKnown ==
  /\ cgoFolds \subseteq cgoFolds'
  /\ \A f \in Ids \ scheduled : f \in cgoFolds' \/ f \in Ids' \ scheduled'

LEMMA HeldFrame ==
  ASSUME NEW i, FrameHolds(i), frames'[i] = frames[i], StillKnown
  PROVE  FrameHolds(i)'
  BY DEF FrameHolds, StillKnown

(* The three things that happen to the frames, apart from the folds. *)
LEMMA FramesKept ==
  ASSUME FramesInv, UNCHANGED frames, StillKnown,
         Ids' = cgoFolds' \cup scheduled' \cup {f \in Folds : InInit(f)}
  PROVE  FramesInv'
<1>1. \A i \in 1 .. Len(frames') : FrameHolds(i)'
  BY HeldFrame DEF FramesInv
<1>2. \A f : InInit(f)' <=> InInit(f)
  BY DEF InInit, IsInit
<1> QED
  BY <1>1, <1>2 DEF FramesInv

LEMMA FramesCall ==
  ASSUME FramesInv, NEW frame \in FrameRecord, Call(frame), StillKnown,
         \A i : i = Len(frames') => FrameHolds(i)',
         Ids' = cgoFolds' \cup scheduled' \cup
                {f \in Folds : InInit(f) \/ IsInit(frame, f)}
  PROVE  FramesInv'
<1>1. frames \in Seq(FrameRecord)
  BY DEF FramesInv
<1>2. \A i \in 1 .. Len(frames) : FrameHolds(i)'
  BY <1>1, CallFacts, HeldFrame DEF FramesInv
<1>3. \A i \in 1 .. Len(frames') : i \in 1 .. Len(frames) \/ i = Len(frames')
  BY <1>1, CallFacts
<1> QED
  <2>1. \A f : InInit(f)' <=> InInit(f) \/ IsInit(frame, f)
    BY <1>1, CallFacts
  <2>2. Ids' = cgoFolds' \cup scheduled' \cup {f \in Folds : InInit(f)'}
    BY <2>1
  <2>3. \A i \in 1 .. Len(frames') : FrameHolds(i)'
    BY <1>2, <1>3
  <2> QED
    BY <1>1, <2>2, <2>3, CallFacts DEF FramesInv

LEMMA FramesBecome ==
  ASSUME FramesInv, frames # <<>>, Top.kind # "Init", NEW frame \in FrameRecord,
         frame.kind # "Init", Become(frame), FrameHolds(Len(frames))',
         UNCHANGED <<cgoFolds, scheduled, folds>>
  PROVE  FramesInv'
<1>1. frames \in Seq(FrameRecord)
  BY DEF FramesInv
<1>2. StillKnown
  BY DEF StillKnown, Ids
<1>3. \A i \in 1 .. Len(frames) : i # Len(frames) => FrameHolds(i)'
  BY <1>1, <1>2, BecomeFacts, HeldFrame DEF FramesInv
<1> QED
  BY <1>1, <1>3, BecomeFacts DEF FramesInv, Ids

LEMMA FramesReturn ==
  ASSUME FramesInv, frames # <<>>, Top.kind # "Init", Return,
         UNCHANGED <<cgoFolds, scheduled, folds>>
  PROVE  FramesInv'
<1>1. frames \in Seq(FrameRecord)
  BY DEF FramesInv
<1>2. StillKnown
  BY DEF StillKnown, Ids
<1>3. \A i \in 1 .. Len(frames') : i \in 1 .. Len(frames)
  BY <1>1, ReturnFacts
<1>4. \A i \in 1 .. Len(frames') : FrameHolds(i)'
  BY <1>1, <1>2, <1>3, ReturnFacts, HeldFrame DEF FramesInv
<1>5. \A f : InInit(f)' <=> InInit(f)
  BY <1>1, ReturnFacts DEF IsInit
<1> QED
  BY <1>1, <1>4, <1>5, ReturnFacts DEF FramesInv, Ids

LEMMA ChangedBecome ==
  ASSUME FramesInv, frames # <<>>, Top.kind = "Changed", NEW frame \in ChangedRecord,
         frame.at \in cgoFolds \cup {nil}, frame.listed => frame.at # nil,
         frame.later \subseteq cgoFolds, frame.due \subseteq cgoFolds,
         frame.reached \subseteq cgoFolds,
         Become(frame), UNCHANGED <<cgoFolds, scheduled, folds>>
  PROVE  FramesInv'
<1>1. frame \in FrameRecord /\ frame.kind = "Changed" /\ Top.kind # "Init"
  BY DEF FrameRecord, ChangedRecord
<1>2. frames \in Seq(FrameRecord)
  BY DEF FramesInv
<1>3. ASSUME NEW i, i = Len(frames') PROVE frames'[i] = frame
  BY <1>1, <1>2, <1>3, BecomeFacts
<1>4. \A i : i = Len(frames') => FrameHolds(i)'
  BY <1>1, <1>3 DEF FrameHolds
<1> QED
  BY <1>1, <1>4, FramesBecome

(* C++ holds the neighbours of the folds it holds. *)
LEMMA Neighbours ==
  ASSUME StoreInv, NEW f \in cgoFolds
  PROVE  folds[f].prev \in cgoFolds \cup {nil} /\ folds[f].next \in cgoFolds \cup {nil}
<1>1. /\ f \in Ids /\ folds[f] \in FoldRecord
      /\ f \in typeNew => folds[f].prev = nil /\ folds[f].next = nil
      /\ f \notin typeNew => folds[f].engine \in Engines
      /\ folds[f].gvalue \in Values
  BY DEF StoreInv, StoreTyped, FoldRecord
<1>2. CASE f \notin typeNew
  <2> DEFINE live == LiveFolds(folds[f].engine, folds[f].gvalue)
  <2>1. f \in live /\ live \subseteq cgoFolds
    BY DEF LiveFolds
  <2>2. PICK n, s : ChainOf(folds[f].engine, folds[f].gvalue, n, s)
    BY <1>1, <1>2 DEF StoreInv
  <2>3. IsChain(folds, live, values[folds[f].engine][folds[f].gvalue], n, s)
    BY <2>2 DEF ChainOf
  <2> HIDE DEF live
  <2>4. PICK i \in 1 .. n : s[i] = f
    BY <2>1, <2>3 DEF IsChain
  <2>5. n \in Nat /\ \A j \in 1 .. n : s[j] \in live
    BY <2>3 DEF IsChain
  <2>6. /\ i # n => i + 1 \in 1 .. n
        /\ i # 1 => i - 1 \in 1 .. n
    BY <2>5
  <2>7. /\ folds[f].prev = IF i = 1 THEN nil ELSE s[i - 1]
        /\ folds[f].next = IF i = n THEN nil ELSE s[i + 1]
    BY <2>3, <2>4 DEF IsChain
  <2> QED
    BY <2>1, <2>5, <2>6, <2>7
<1> QED
  BY <1>1, <1>2

LEMMA GoToFacts ==
  ASSUME FramesInv, StoreInv, NEW fold \in cgoFolds \cup {nil}, NEW frame \in ChangedRecord,
         frame.at \in cgoFolds \cup {nil}, frame.later \subseteq cgoFolds,
         frame.due \subseteq cgoFolds, frame.reached \subseteq cgoFolds
  PROVE  LET next == GoTo(fold, frame) IN
         /\ next \in ChangedRecord
         /\ next.at = fold
         /\ next.listed <=> fold # nil
         /\ next.later = IF fold = nil THEN frame.later \cup WithValue(frame.value, typeNew)
                         ELSE frame.later
         /\ next.reached = IF fold = nil THEN frame.reached ELSE frame.reached \cup {fold}
         /\ next.value = frame.value /\ next.walked = frame.walked
         /\ next.due = frame.due /\ next.found = frame.found
         /\ next.later \subseteq cgoFolds /\ next.reached \subseteq cgoFolds
<1>1. cgoFolds \subseteq Folds /\ WithValue(frame.value, typeNew) \subseteq cgoFolds
  BY DEF StoreInv, StoreTyped, WithValue
<1>2. CASE fold = nil
  BY <1>1, <1>2 DEF GoTo, ChangedRecord
<1>3. CASE fold # nil
  BY <1>1, <1>3 DEF GoTo, ChangedRecord
<1> QED
  BY <1>2, <1>3

LEMMA GoToFrames ==
  ASSUME FramesInv, StoreInv, frames # <<>>, Top.kind = "Changed",
         NEW fold \in cgoFolds \cup {nil}, NEW frame \in ChangedRecord,
         frame.at \in cgoFolds \cup {nil}, frame.later \subseteq cgoFolds,
         frame.due \subseteq cgoFolds, frame.reached \subseteq cgoFolds,
         Become(GoTo(fold, frame)), UNCHANGED <<cgoFolds, scheduled, folds>>
  PROVE  FramesInv'
<1> DEFINE next == GoTo(fold, frame)
<1>1. /\ next \in ChangedRecord
      /\ next.at = fold
      /\ next.listed <=> fold # nil
      /\ next.due = frame.due
      /\ next.later \subseteq cgoFolds /\ next.reached \subseteq cgoFolds
      /\ Become(next)
  BY GoToFacts
<1> HIDE DEF next
<1> QED
  BY <1>1, ChangedBecome

LEMMA PanicFrames ==
  ASSUME FramesInv, NEW message, Panics(message)
  PROVE  FramesInv'
<1>1. StillKnown
  BY DEF StillKnown, Panics, foldVars, Ids
<1>2. CASE Painting
  BY <1>2, FramesReturn DEF Panics, Painting, foldVars
<1>3. CASE ~Painting
  <2>1. UNCHANGED frames /\ UNCHANGED <<cgoFolds, scheduled, folds>>
    BY <1>3 DEF Panics, foldVars
  <2>2. Ids' = cgoFolds' \cup scheduled' \cup {f \in Folds : InInit(f)}
    BY <2>1 DEF FramesInv, Ids
  <2> QED
    BY <1>1, <2>1, <2>2, FramesKept
<1> QED
  BY <1>2, <1>3

(* Init is called for a fold C++ holds, now or by a goroutine. *)
LEMMA InitGoTypeFrames ==
  ASSUME FramesInv, StoreInv, NEW f \in cgoFolds, initGoType(f), Ids' = Ids, UNCHANGED cgoFolds
  PROVE  FramesInv'
<1>1. f \in Folds
  BY DEF StoreInv, StoreTyped
<1>2. CASE Painting \/ ~folds[f].init
  <2>1. UNCHANGED frames /\ (UNCHANGED scheduled \/ scheduled' = scheduled \cup {f})
    BY <1>2 DEF initGoType, _initGoType
  <2>2. StillKnown
    BY <2>1 DEF StillKnown
  <2>3. Ids' = cgoFolds' \cup scheduled' \cup {g \in Folds : InInit(g)}
    BY <2>1 DEF FramesInv
  <2> QED
    BY <2>1, <2>2, <2>3, FramesKept
<1>3. CASE ~Painting /\ folds[f].init
  <2> DEFINE frame == [kind |-> "Init", fold |-> f]
  <2>1. /\ frame \in FrameRecord /\ frame.kind = "Init" /\ frame.fold = f
        /\ Call(frame) /\ UNCHANGED scheduled
    BY <1>1, <1>3 DEF initGoType, _initGoType, FrameRecord
  <2>2. StillKnown
    BY <2>1 DEF StillKnown
  <2>3. Ids' = cgoFolds' \cup scheduled' \cup {g \in Folds : InInit(g) \/ IsInit(frame, g)}
    BY <1>1, <2>1 DEF FramesInv, IsInit
  <2> HIDE DEF frame
  <2>4. \A i : i = Len(frames') => FrameHolds(i)'
    BY <2>1, CallFacts DEF FramesInv, FrameHolds
  <2> QED
    BY <2>1, <2>2, <2>3, <2>4, FramesCall
<1> QED
  BY <1>2, <1>3

-----------------------------------------------------------------------------
(* Every step keeps the shape of the engines, the store and the frames. *)

ShapeInv == EnginesTyped /\ StoreInv /\ FramesInv

LEMMA InitShape == Init => ShapeInv
<1> SUFFICES ASSUME Init PROVE ShapeInv
  OBVIOUS
<1> USE DEF Init
<1>1. EnginesTyped
  BY DEF EnginesTyped
<1>2. Ids = {} /\ cgoFolds = {}
  BY DEF Ids
<1>3. StoreTyped
  BY <1>2 DEF StoreTyped
<1>4. ASSUME NEW e \in Engines, NEW v \in Values PROVE \E n, s : ChainOf(e, v, n, s)
  <2>1. LiveFolds(e, v) = {} /\ values[e][v] = nil
    BY DEF LiveFolds
  <2>2. ChainOf(e, v, 0, [i \in 1 .. 0 |-> nil])
    BY <2>1 DEF ChainOf, IsChain
  <2> QED
    BY <2>2
<1>5. FramesInv
  <2>1. frames \in Seq(FrameRecord) /\ Len(frames) = 0 /\ DOMAIN frames = {}
    OBVIOUS
  <2> QED
    BY <1>2, <2>1 DEF FramesInv, InInit
<1> QED
  BY <1>1, <1>3, <1>4, <1>5 DEF ShapeInv, StoreInv

LEMMA StillShape ==
  ASSUME ShapeInv, UNCHANGED <<foldVars, frames, scheduled>>
  PROVE  StoreInv' /\ FramesInv' /\ AllGrow
<1>1. StoreInv' /\ AllGrow
  BY UnchangedStore, GrownStore DEF ShapeInv
<1>2. StillKnown /\ Ids' = Ids
  BY DEF StillKnown, foldVars, Ids
<1>3. FramesInv'
  BY <1>2, FramesKept DEF ShapeInv, FramesInv, foldVars
<1> QED
  BY <1>1, <1>3

LEMMA NewFoldFrames ==
  ASSUME ShapeInv, NEW f \in Folds, NEW e, NEW v, NEW owner, NEW typed, NEW next,
         NewFold(f, e, v, owner, typed, next), UNCHANGED <<frames, scheduled>>
  PROVE  FramesInv'
<1>1. f \notin Ids /\ Ids' = Ids \cup {f} /\ cgoFolds' = cgoFolds \cup {f}
  BY DEF NewFold, Ids
<1> QED
  BY <1>1, FramesKept DEF StillKnown, ShapeInv, FramesInv

LEMMA EnginesStep ==
  ASSUME ShapeInv, NEW e \in Engines, NewEngine(e) \/ Destroy(e) \/ EngineDeleted(e)
  PROVE  ShapeInv' /\ AllGrow
<1>1. UNCHANGED <<foldVars, frames, scheduled>> /\ EnginesTyped'
  BY DEF NewEngine, Destroy, EngineDeleted, ShapeInv, EnginesTyped
<1> QED
  BY <1>1, StillShape DEF ShapeInv

LEMMA WrapStep ==
  ASSUME ShapeInv, NEW f \in Folds, NEW e \in Engines, NEW v \in Values,
         NEW owner \in {"cppOwner", "jsOwner"}, wrapGoValue(f, e, v, owner)
  PROVE  ShapeInv' /\ AllGrow
<1>1. CASE Panics("cannot allocate new objects while painting")
  <2>1. UNCHANGED engineVars /\ UNCHANGED foldVars
    BY <1>1 DEF Panics
  <2> QED
    BY <1>1, <2>1, UnchangedStore, GrownStore, PanicFrames
    DEF ShapeInv, EnginesTyped, engineVars
<1>2. CASE /\ NewFold(f, e, v, owner, FALSE, values[e][v])
           /\ values' = [values EXCEPT ![e][v] = f]
           /\ UNCHANGED <<engineVars, typeNew, frames, scheduled, panicked>>
  <2>1. EnginesTyped'
    BY <1>2 DEF ShapeInv, EnginesTyped, engineVars
  <2>2. StoreInv' /\ AllGrow
    BY <1>2, WrapStore, GrownStore DEF ShapeInv
  <2>3. FramesInv'
    BY <1>2, NewFoldFrames
  <2> QED
    BY <2>1, <2>2, <2>3 DEF ShapeInv
<1> QED
  BY <1>1, <1>2 DEF wrapGoValue

LEMMA TypeNewStep ==
  ASSUME ShapeInv, NEW f \in Folds, NEW v \in Values, hookGoValueTypeNew(f, v)
  PROVE  ShapeInv' /\ AllGrow
<1>1. EnginesTyped'
  BY DEF hookGoValueTypeNew, ShapeInv, EnginesTyped, engineVars
<1>2. StoreInv' /\ AllGrow
  BY TypeNewStore, GrownStore DEF hookGoValueTypeNew, ShapeInv
<1>3. FramesInv'
  BY NewFoldFrames DEF hookGoValueTypeNew
<1> QED
  BY <1>1, <1>2, <1>3 DEF ShapeInv

LEMMA UseStep ==
  ASSUME ShapeInv, NEW f \in Ids, NEW e \in Engines, Use(f, e)
  PROVE  ShapeInv' /\ AllGrow
<1>1. f \in cgoFolds
  BY DEF Use
<1>2. CASE initGoType(f) /\ UNCHANGED <<engineVars, foldVars, panicked>>
  <2>1. EnginesTyped' /\ Ids' = Ids /\ UNCHANGED cgoFolds
    BY <1>2 DEF ShapeInv, EnginesTyped, engineVars, foldVars, Ids
  <2>2. StoreInv' /\ AllGrow
    BY <1>2, UnchangedStore, GrownStore DEF ShapeInv
  <2>3. FramesInv'
    BY <1>1, <1>2, <2>1, InitGoTypeFrames DEF ShapeInv
  <2> QED
    BY <2>1, <2>2, <2>3 DEF ShapeInv
<1>3. CASE /\ folds[f].engine = NoEngine /\ Attach(f, e)
           /\ initGoType(f) /\ UNCHANGED <<engineVars, cgoFolds, panicked>>
  <2>1. EnginesTyped' /\ Ids' = Ids /\ UNCHANGED cgoFolds
    BY <1>3 DEF ShapeInv, EnginesTyped, engineVars, Attach, Ids
  <2>2. StoreInv' /\ AllGrow
    BY <1>1, <1>3, AttachStore, GrownStore DEF ShapeInv
  <2>3. FramesInv'
    BY <1>1, <1>3, <2>1, InitGoTypeFrames DEF ShapeInv
  <2> QED
    BY <2>1, <2>2, <2>3 DEF ShapeInv
<1>4. CASE Panics("unknown engine pointer")
  <2>1. UNCHANGED engineVars /\ UNCHANGED foldVars
    BY <1>4 DEF Panics
  <2> QED
    BY <1>4, <2>1, UnchangedStore, GrownStore, PanicFrames
    DEF ShapeInv, EnginesTyped, engineVars
<1> QED
  BY <1>2, <1>3, <1>4 DEF Use, ensureEngine

LEMMA PaintStep ==
  ASSUME ShapeInv, NEW f \in Ids, NEW e \in Engines, hookGoValuePaint(f, e)
  PROVE  ShapeInv' /\ AllGrow
<1>1. f \in cgoFolds /\ EnginesTyped'
  BY DEF hookGoValuePaint, ShapeInv, EnginesTyped, engineVars
<1>2. CASE Call([kind |-> "Paint"]) /\ UNCHANGED <<foldVars, scheduled>>
  <2> DEFINE frame == [kind |-> "Paint"]
  <2>1. /\ frame \in FrameRecord /\ frame.kind = "Paint" /\ ~ \E g : IsInit(frame, g)
        /\ Call(frame) /\ StillKnown /\ Ids' = Ids
    BY <1>2 DEF FrameRecord, IsInit, StillKnown, foldVars, Ids
  <2> HIDE DEF frame
  <2>2. \A i : i = Len(frames') => FrameHolds(i)'
    BY <2>1, CallFacts DEF ShapeInv, FramesInv, FrameHolds
  <2>3. Ids' = cgoFolds' \cup scheduled' \cup {g \in Folds : InInit(g) \/ IsInit(frame, g)}
    BY <1>2, <2>1 DEF ShapeInv, FramesInv, foldVars
  <2>4. FramesInv'
    BY <2>1, <2>2, <2>3, FramesCall DEF ShapeInv
  <2> QED
    BY <1>1, <1>2, <2>4, UnchangedStore, GrownStore DEF ShapeInv
<1>3. CASE /\ \/ UNCHANGED <<values, folds, typeNew>>
              \/ folds[f].engine = NoEngine /\ Attach(f, e)
           /\ scheduled' = scheduled \cup {f}
           /\ UNCHANGED <<cgoFolds, frames>>
  <2>1. StoreInv' /\ AllGrow
    <3>1. CASE UNCHANGED <<values, folds, typeNew>>
      BY <1>3, <3>1, UnchangedStore, GrownStore DEF ShapeInv, foldVars
    <3>2. CASE folds[f].engine = NoEngine /\ Attach(f, e)
      BY <1>1, <1>3, <3>2, AttachStore, GrownStore DEF ShapeInv
    <3> QED
      BY <1>3, <3>1, <3>2
  <2>2. Ids' = Ids
    BY <1>3 DEF Attach, Ids
  <2>3. FramesInv'
    <3>1. StillKnown
      BY <1>1, <1>3, <2>2 DEF StillKnown
    <3>2. Ids' = cgoFolds' \cup scheduled' \cup {g \in Folds : InInit(g)}
      BY <1>1, <1>3, <2>2 DEF ShapeInv, FramesInv
    <3> QED
      BY <1>3, <3>1, <3>2, FramesKept DEF ShapeInv
  <2> QED
    BY <1>1, <2>1, <2>3 DEF ShapeInv
<1> QED
  BY <1>2, <1>3 DEF hookGoValuePaint

(* With no Go function in progress nobody is in Init. *)
LEMMA LoopFacts ==
  ASSUME ShapeInv, frames = <<>>
  PROVE  /\ Len(frames) = 0 /\ \A f : ~InInit(f)
         /\ Ids = cgoFolds \cup scheduled
  BY DEF ShapeInv, FramesInv, InInit

LEMMA EmptyFrames ==
  ASSUME frames' = <<>>, Ids' = cgoFolds' \cup scheduled'
  PROVE  FramesInv'
<1>1. frames' \in Seq(FrameRecord) /\ Len(frames') = 0 /\ DOMAIN frames' = {}
  OBVIOUS
<1> QED
  BY <1>1 DEF FramesInv, InInit

LEMMA WithoutFacts ==
  ASSUME StoreInv, NEW f \in Ids \ cgoFolds, folds' = Without(f, folds),
         UNCHANGED <<values, cgoFolds, typeNew>>
  PROVE  StoreInv' /\ AllGrow /\ Ids' = Ids \ {f}
<1>1. /\ DOMAIN folds' = Ids \ {f} /\ folds' = [g \in DOMAIN folds' |-> folds[g]]
      /\ folds \in [Ids -> FoldRecord] /\ cgoFolds \subseteq Ids
  BY DEF Without, Ids, StoreInv, StoreTyped
<1>2. folds' \in [DOMAIN folds' -> FoldRecord]
  BY <1>1
<1>3. StoreTyped' /\ AllGrow
  BY <1>1, <1>2, KeptStore
<1> QED
  BY <1>1, <1>3, GrownStore DEF Ids

LEMMA ScheduledInitStep ==
  ASSUME ShapeInv, NEW f \in Ids, ScheduledInit(f)
  PROVE  ShapeInv'
<1>1. /\ frames = <<>> /\ f \in scheduled /\ scheduled' = scheduled \ {f}
      /\ UNCHANGED <<values, cgoFolds, typeNew>>
      /\ EnginesTyped'
  BY DEF ScheduledInit, InLoop, ShapeInv, EnginesTyped, engineVars
<1>2. Len(frames) = 0 /\ Ids = cgoFolds \cup scheduled /\ \A g : ~InInit(g)
  BY <1>1, LoopFacts
<1>3. CASE folds[f].init
  <2> DEFINE frame == [kind |-> "Init", fold |-> f]
  <2>1. /\ folds' = folds /\ Ids' = Ids
        /\ frame \in FrameRecord /\ frame.kind = "Init" /\ frame.fold = f
        /\ Call(frame)
    BY <1>3 DEF ScheduledInit, _initGoType, Ids, FrameRecord, ShapeInv, StoreInv, StoreTyped
  <2> HIDE DEF frame
  <2>2. StoreInv'
    BY <1>1, <2>1, UnchangedStore, GrownStore DEF ShapeInv, foldVars
  <2>3. /\ frames' \in Seq(FrameRecord) /\ Len(frames') = 1 /\ frames'[1] = frame
        /\ \A g : InInit(g)' <=> g = f
    BY <1>2, <2>1, CallFacts DEF ShapeInv, FramesInv, IsInit
  <2>4. \A i \in 1 .. Len(frames') : FrameHolds(i)'
    BY <1>1, <1>2, <2>1, <2>3 DEF FrameHolds
  <2>5. Ids' = cgoFolds' \cup scheduled' \cup {g \in Folds : InInit(g)'}
    BY <1>1, <1>2, <2>1, <2>3 DEF ShapeInv, StoreInv, StoreTyped
  <2> QED
    BY <1>1, <2>2, <2>3, <2>4, <2>5 DEF ShapeInv, FramesInv
<1>4. CASE ~folds[f].init
  <2>1. frames' = <<>>
    BY <1>1, <1>4 DEF ScheduledInit, _initGoType
  <2>2. CASE f \in cgoFolds
    <3>1. folds' = folds /\ Ids' = Ids
      BY <2>2 DEF ScheduledInit, Ids
    <3>2. Ids' = cgoFolds' \cup scheduled'
      BY <1>1, <1>2, <2>2, <3>1
    <3> QED
      BY <1>1, <2>1, <3>1, <3>2, UnchangedStore, GrownStore, EmptyFrames DEF ShapeInv, foldVars
  <2>3. CASE f \notin cgoFolds
    <3>1. folds' = Without(f, folds)
      BY <1>4, <2>3 DEF ScheduledInit
    <3>2. StoreInv' /\ Ids' = Ids \ {f}
      BY <1>1, <2>3, <3>1, WithoutFacts DEF ShapeInv
    <3>3. Ids' = cgoFolds' \cup scheduled'
      BY <1>1, <1>2, <2>3, <3>2
    <3> QED
      BY <1>1, <2>1, <3>2, <3>3, EmptyFrames DEF ShapeInv
  <2> QED
    BY <2>2, <2>3
<1> QED
  BY <1>3, <1>4

LEMMA InitReturnsStep ==
  ASSUME ShapeInv, InitReturns
  PROVE  ShapeInv' /\ AllGrow
<1> DEFINE f == Top.fold
<1>1. /\ frames # <<>> /\ Top.kind = "Init" /\ Return
      /\ UNCHANGED <<values, cgoFolds, typeNew, scheduled>>
      /\ EnginesTyped'
  BY DEF InitReturns, ShapeInv, EnginesTyped, engineVars
<1>2. /\ frames \in Seq(FrameRecord)
      /\ f \in cgoFolds \/ (Len(frames) = 1 /\ f \in Ids /\ f \notin scheduled)
  BY <1>1, TopFacts DEF ShapeInv
<1>3. CASE f \in cgoFolds
  <2>1. /\ folds' = [folds EXCEPT ![f].init = FALSE]
        /\ folds \in [Ids -> FoldRecord] /\ f \in Ids /\ cgoFolds \subseteq Ids
    BY <1>3 DEF InitReturns, ShapeInv, StoreInv, StoreTyped
  <2> HIDE DEF f
  <2>2. /\ Ids' = Ids /\ folds' \in [Ids -> FoldRecord]
        /\ \A g \in Ids :
             /\ folds'[g].engine = folds[g].engine /\ folds'[g].gvalue = folds[g].gvalue
             /\ folds'[g].prev = folds[g].prev /\ folds'[g].next = folds[g].next
    BY <2>1 DEF Ids, FoldRecord
  <2>3. StoreInv' /\ AllGrow
    BY <1>1, <2>1, <2>2, KeptStore, GrownStore DEF ShapeInv, Ids
  <2>4. StillKnown
    BY <1>1, <2>2 DEF StillKnown
  <2>5. \A i \in 1 .. Len(frames') : i \in 1 .. Len(frames)
    BY <1>1, <1>2, ReturnFacts
  <2>6. \A i \in 1 .. Len(frames') : FrameHolds(i)'
    BY <1>1, <1>2, <2>4, <2>5, ReturnFacts, HeldFrame DEF ShapeInv, FramesInv
  <2>7. \A g : InInit(g) <=> InInit(g)' \/ g = f
    BY <1>1, <1>2, ReturnFacts DEF IsInit, f
  <2>8. Ids' = cgoFolds' \cup scheduled' \cup {g \in Folds : InInit(g)'}
    BY <1>1, <1>3, <2>2, <2>7 DEF ShapeInv, FramesInv
  <2> QED
    BY <1>1, <1>2, <2>3, <2>6, <2>8, ReturnFacts DEF ShapeInv, FramesInv
<1>4. CASE f \notin cgoFolds
  <2>1. folds' = Without(f, folds) /\ f \in Ids \ cgoFolds /\ f \notin scheduled
    BY <1>2, <1>4 DEF InitReturns
  <2> HIDE DEF f
  <2>2. StoreInv' /\ AllGrow /\ Ids' = Ids \ {f}
    BY <1>1, <2>1, WithoutFacts DEF ShapeInv
  <2>3. frames' \in Seq(FrameRecord) /\ Len(frames') = 0 /\ frames' = <<>>
    BY <1>1, <1>2, <1>4, ReturnFacts
  <2>4. \A g : InInit(g) => g = f
    <3>1. \A g : ~InInit(g)'
      BY <2>3 DEF InInit
    <3> QED
      BY <1>1, <1>2, <3>1, ReturnFacts DEF IsInit, f
  <2>5. Ids' = cgoFolds' \cup scheduled'
    BY <1>1, <1>4, <2>1, <2>2, <2>4 DEF ShapeInv, FramesInv
  <2> QED
    BY <1>1, <2>2, <2>3, <2>5, EmptyFrames DEF ShapeInv
<1> QED
  BY <1>3, <1>4

LEMMA DestroyedStep ==
  ASSUME ShapeInv, NEW f \in Ids, hookGoValueDestroyed(f)
  PROVE  ShapeInv'
<1>1. frames = <<>> /\ f \in cgoFolds
  BY DEF hookGoValueDestroyed, InLoop
<1>2. StoreInv'
  BY DestroyedStore DEF ShapeInv, EnginesTyped
<1>3. Ids = cgoFolds \cup scheduled
  BY <1>1, LoopFacts
<1>4. CASE Panics("engine was released while its values were still alive")
  <2>1. EnginesTyped'
    BY <1>4 DEF Panics, ShapeInv, EnginesTyped, engineVars
  <2>2. FramesInv'
    BY <1>4, PanicFrames DEF ShapeInv
  <2> QED
    BY <1>2, <2>1, <2>2 DEF ShapeInv
<1>5. ASSUME NEW fs, destroyRef(f, fs), DOMAIN fs = Ids, UNCHANGED <<frames, scheduled>>
      PROVE  FramesInv'
  <2>1. cgoFolds' = cgoFolds \ {f} /\ Ids' = IF f \in scheduled THEN Ids ELSE Ids \ {f}
    BY <1>5 DEF destroyRef, Without, Ids
  <2>2. Ids' = cgoFolds' \cup scheduled'
    BY <1>1, <1>3, <1>5, <2>1
  <2> QED
    BY <1>1, <1>5, <2>2, EmptyFrames
<1>6. CASE /\ destroyRef(f, folds)
           /\ UNCHANGED <<engineVars, values, frames, scheduled, panicked, inited>>
  <2>1. EnginesTyped'
    BY <1>6 DEF ShapeInv, EnginesTyped, engineVars
  <2>2. FramesInv'
    BY <1>5, <1>6 DEF Ids
  <2> QED
    BY <1>2, <2>1, <2>2 DEF ShapeInv
<1>7. CASE /\ destroyRef(f, Unlinked(f))
           /\ engines' = IF folds[f].engine \in destroyed /\ ~HasValues(folds[f].engine, values')
                         THEN engines \ {folds[f].engine} ELSE engines
           /\ UNCHANGED <<qmlEngines, destroyed, typeNew, frames, scheduled, panicked, inited>>
  <2>1. EnginesTyped'
    BY <1>7 DEF ShapeInv, EnginesTyped
  <2>2. DOMAIN Unlinked(f) = Ids
    BY DEF Unlinked
  <2>3. FramesInv'
    BY <1>5, <1>7, <2>2
  <2> QED
    BY <1>2, <2>1, <2>3 DEF ShapeInv
<1> QED
  BY <1>4, <1>6, <1>7 DEF hookGoValueDestroyed

LEMMA PaintReturnsStep ==
  ASSUME ShapeInv, PaintReturns
  PROVE  ShapeInv' /\ AllGrow
<1>1. EnginesTyped' /\ StoreInv' /\ AllGrow
  BY UnchangedStore, GrownStore DEF PaintReturns, ShapeInv, EnginesTyped, engineVars
<1>2. FramesInv'
  BY FramesReturn DEF PaintReturns, Painting, ShapeInv, foldVars
<1> QED
  BY <1>1, <1>2 DEF ShapeInv

LEMMA ChangedShape ==
  ASSUME ShapeInv, NEW v \in Values, Changed(v)
  PROVE  ShapeInv' /\ AllGrow
<1> DEFINE frame == [kind |-> "Changed", value |-> v, walked |-> {}, at |-> nil, later |-> {},
                     listed |-> FALSE, due |-> WithValue(v, cgoFolds), reached |-> {},
                     found |-> engines]
<1>1. EnginesTyped' /\ StoreInv' /\ AllGrow
  BY UnchangedStore, GrownStore DEF Changed, ShapeInv, EnginesTyped, engineVars
<1>2. WithValue(v, cgoFolds) \subseteq cgoFolds
  BY DEF WithValue
<1>3. /\ frame \in FrameRecord /\ frame.kind = "Changed" /\ Call(frame)
      /\ frame.at = nil /\ ~frame.listed /\ frame.later = {} /\ frame.reached = {}
      /\ frame.due \subseteq cgoFolds
  BY <1>2 DEF Changed, FrameRecord, ChangedRecord, ShapeInv, EnginesTyped, StoreInv, StoreTyped
<1>4. /\ UNCHANGED <<cgoFolds, scheduled, folds>> /\ StillKnown
  BY DEF Changed, foldVars, StillKnown, Ids
<1> HIDE DEF frame
<1>5. \A i : i = Len(frames') => FrameHolds(i)'
  BY <1>3, <1>4, CallFacts DEF ShapeInv, FramesInv, FrameHolds
<1>6. Ids' = cgoFolds' \cup scheduled' \cup {f \in Folds : InInit(f) \/ IsInit(frame, f)}
  BY <1>3, <1>4 DEF ShapeInv, FramesInv, IsInit, Ids
<1>7. FramesInv'
  BY <1>3, <1>4, <1>5, <1>6, FramesCall DEF ShapeInv
<1> QED
  BY <1>1, <1>7 DEF ShapeInv

LEMMA ChangedStepShape ==
  ASSUME ShapeInv, ChangedStep
  PROVE  ShapeInv' /\ AllGrow
<1>1. /\ frames # <<>> /\ Top.kind = "Changed"
      /\ UNCHANGED <<engineVars, foldVars, scheduled>>
  BY DEF ChangedStep, ChangedNextEngine, ChangedNextFold, ChangedDeferred, ChangedReturns,
         InChanged
<1>2. EnginesTyped' /\ StoreInv' /\ AllGrow /\ UNCHANGED <<cgoFolds, scheduled, folds>>
  BY <1>1, UnchangedStore, GrownStore DEF ShapeInv, EnginesTyped, engineVars, foldVars
<1>3. /\ Top \in ChangedRecord /\ Top.at \in cgoFolds \cup {nil}
      /\ Top.listed => Top.at # nil
      /\ Top.later \subseteq cgoFolds /\ Top.due \subseteq cgoFolds
      /\ Top.reached \subseteq cgoFolds
  BY <1>1, TopFacts DEF ShapeInv
<1>4. ASSUME NEW e \in Engines, ChangedNextEngine(e) PROVE FramesInv'
  <2> DEFINE frame == [Top EXCEPT !.walked = @ \cup {e}]
             fold == values[e][Top.value]
  <2>1. /\ frame \in ChangedRecord /\ frame.at = Top.at /\ frame.later = Top.later
        /\ frame.due = Top.due /\ frame.reached = Top.reached
    BY <1>3 DEF ChangedRecord
  <2>2. fold \in cgoFolds \cup {nil}
    BY <1>3, FirstFold DEF ChangedRecord, LiveFolds, ShapeInv
  <2>3. Become(GoTo(fold, frame))
    BY <1>4 DEF ChangedNextEngine
  <2> HIDE DEF frame, fold
  <2> QED
    BY <1>1, <1>2, <1>3, <2>1, <2>2, <2>3, GoToFrames DEF ShapeInv
<1>5. ASSUME ChangedNextFold PROVE FramesInv'
  <2> DEFINE fold == folds[Top.at].next
  <2>1. fold \in cgoFolds \cup {nil}
    BY <1>3, <1>5, Neighbours DEF ChangedNextFold, ShapeInv
  <2>2. Become(GoTo(fold, Top))
    BY <1>5 DEF ChangedNextFold
  <2> HIDE DEF fold
  <2> QED
    BY <1>1, <1>2, <1>3, <2>1, <2>2, GoToFrames DEF ShapeInv
<1>6. ASSUME NEW f \in Ids, ChangedDeferred(f) PROVE FramesInv'
  <2> DEFINE frame == [Top EXCEPT !.at = f, !.later = @ \ {f}, !.reached = @ \cup {f}]
  <2>1. /\ f \in cgoFolds /\ f \in Folds /\ f # nil /\ Become(frame)
    BY <1>3, <1>6, ValueFoldsAssumption
    DEF ChangedDeferred, ShapeInv, StoreInv, StoreTyped
  <2>2. /\ frame \in ChangedRecord /\ frame.at = f /\ frame.later = Top.later \ {f}
        /\ frame.due = Top.due /\ frame.reached = Top.reached \cup {f}
        /\ frame.listed = Top.listed
    BY <1>3, <2>1 DEF ChangedRecord
  <2> HIDE DEF frame
  <2> QED
    BY <1>1, <1>2, <1>3, <2>1, <2>2, ChangedBecome DEF ShapeInv
<1>7. ASSUME ChangedReturns PROVE FramesInv'
  BY <1>1, <1>2, <1>7, FramesReturn DEF ChangedReturns, ShapeInv
<1> QED
  BY <1>2, <1>4, <1>5, <1>6, <1>7 DEF ChangedStep, ShapeInv

LEMMA ShapeStep ==
  ASSUME ShapeInv, [Next]_vars
  PROVE  ShapeInv' /\ (frames # <<>> => AllGrow)
<1>1. CASE UNCHANGED vars
  BY <1>1, StillShape DEF vars, ShapeInv, EnginesTyped, engineVars
<1>2. ASSUME NEW f \in Ids, ScheduledInit(f) \/ hookGoValueDestroyed(f)
      PROVE  ShapeInv' /\ frames = <<>>
  BY <1>2, ScheduledInitStep, DestroyedStep DEF ScheduledInit, hookGoValueDestroyed, InLoop
<1> QED
  BY <1>1, <1>2, EnginesStep, WrapStep, TypeNewStep, UseStep, PaintStep, InitReturnsStep,
     PaintReturnsStep, ChangedShape, ChangedStepShape DEF Next

THEOREM ShapeInvariance == Spec => []ShapeInv
  BY InitShape, ShapeStep, PTL DEF Spec

OutcomeTyped ==
  /\ inited \subseteq Folds
  /\ panicked \in {"no", "unknown engine pointer",
                   "engine was released while its values were still alive"}

LEMMA OutcomeStep ==
  ASSUME ShapeInv, OutcomeTyped, [Next]_vars
  PROVE  OutcomeTyped'
<1> USE DEF OutcomeTyped
<1>1. Ids \subseteq Folds
  BY DEF ShapeInv, StoreInv, StoreTyped
<1>2. CASE UNCHANGED vars
  BY <1>2 DEF vars
<1>3. ASSUME NEW e \in Engines, NewEngine(e) \/ Destroy(e) \/ EngineDeleted(e)
      PROVE  OutcomeTyped'
  BY <1>3 DEF NewEngine, Destroy, EngineDeleted
<1>4. ASSUME NEW f \in Folds, NEW v \in Values, NEW e \in Engines, NEW owner,
             wrapGoValue(f, e, v, owner)
      PROVE  OutcomeTyped'
  BY <1>4 DEF wrapGoValue, Panics, NewFold
<1>5. ASSUME NEW f \in Folds, NEW v \in Values, hookGoValueTypeNew(f, v)
      PROVE  OutcomeTyped'
  BY <1>5 DEF hookGoValueTypeNew, NewFold
<1>6. ASSUME NEW f \in Ids, NEW e \in Engines, Use(f, e)
      PROVE  OutcomeTyped'
  BY <1>1, <1>6 DEF Use, ensureEngine, Panics, initGoType, _initGoType
<1>7. ASSUME NEW f \in Ids, NEW e \in Engines, hookGoValuePaint(f, e)
      PROVE  OutcomeTyped'
  BY <1>7 DEF hookGoValuePaint
<1>8. ASSUME NEW f \in Ids, ScheduledInit(f)
      PROVE  OutcomeTyped'
  BY <1>1, <1>8 DEF ScheduledInit, _initGoType
<1>9. ASSUME NEW f \in Ids, hookGoValueDestroyed(f)
      PROVE  OutcomeTyped'
  BY <1>9 DEF hookGoValueDestroyed, Panics
<1>10. ASSUME NEW v \in Values, Changed(v)
       PROVE  OutcomeTyped'
  BY <1>10 DEF Changed
<1>11. ASSUME InitReturns \/ PaintReturns \/ ChangedStep
       PROVE  OutcomeTyped'
  BY <1>11 DEF InitReturns, PaintReturns, ChangedStep, ChangedNextEngine, ChangedNextFold,
               ChangedDeferred, ChangedReturns
<1> QED
  BY <1>2, <1>3, <1>4, <1>5, <1>6, <1>7, <1>8, <1>9, <1>10, <1>11 DEF Next

LEMMA ShapeIsTyped ==
  ASSUME ShapeInv, OutcomeTyped
  PROVE  TypeOK
<1>1. /\ cgoFolds \subseteq Ids /\ Ids \subseteq Folds
      /\ typeNew \subseteq cgoFolds
      /\ \A f \in Ids : folds[f] \in FoldRecord
      /\ \A f \in Ids : f \notin cgoFolds => folds[f].prev = nil /\ folds[f].next = nil
      /\ values \in [Engines -> [Values -> Folds \cup {nil}]]
  BY DEF ShapeInv, StoreInv, StoreTyped
<1>2. values \in [Engines -> [Values -> Ids \cup {nil}]]
  <2>1. \A e \in Engines, v \in Values : values[e][v] \in Ids \cup {nil}
    BY <1>1, FirstFold DEF ShapeInv, LiveFolds
  <2> QED
    BY <1>1, <2>1
<1>3. ASSUME NEW f \in Ids
      PROVE  folds[f] \in [engine : Engines \cup {NoEngine}, gvalue : Values,
                           owner : {"cppOwner", "jsOwner"}, init : BOOLEAN,
                           prev : Ids \cup {nil}, next : Ids \cup {nil}]
  <2>1. folds[f].prev \in Ids \cup {nil} /\ folds[f].next \in Ids \cup {nil}
    BY <1>1, Neighbours DEF ShapeInv
  <2> QED
    BY <1>1, <2>1 DEF FoldRecord
<1>4. ASSUME NEW i \in DOMAIN frames PROVE frames[i] \in Frame
  <2>1. i \in 1 .. Len(frames) /\ frames[i] \in FrameRecord /\ FrameHolds(i)
    BY DEF ShapeInv, FramesInv
  <2>2. CASE frames[i] \in [kind : {"Init"}, fold : Folds]
    BY <1>1, <2>1, <2>2 DEF Frame, FrameHolds
  <2>3. CASE frames[i] \in [kind : {"Paint"}]
    BY <2>3 DEF Frame
  <2>4. CASE frames[i] \in ChangedRecord
    BY <1>1, <2>1, <2>4 DEF Frame, FrameHolds, ChangedRecord
  <2> QED
    BY <2>1, <2>2, <2>3, <2>4 DEF FrameRecord
<1> QED
  BY <1>1, <1>2, <1>3, <1>4
  DEF TypeOK, ShapeInv, EnginesTyped, FramesInv, OutcomeTyped

(* Also that the folds kept are those of C++, those of goroutines that are to
   call Init, and those Init is running for, and nothing dangles. *)
THEOREM TypeCorrect == Spec => []TypeOK
<1>1. Init => OutcomeTyped
  BY DEF Init, OutcomeTyped
<1> QED
  BY <1>1, ShapeInvariance, OutcomeStep, ShapeIsTyped, PTL DEF Spec

LEMMA ShapeHasLists ==
  ASSUME ShapeInv
  PROVE  ListsHoldLiveFolds
<1>1. typeNew = {f \in cgoFolds : folds[f].engine = NoEngine}
  BY DEF ShapeInv, StoreInv, StoreTyped
<1>2. ASSUME NEW e \in Engines, NEW v \in Values
      PROVE  \E s \in [1 .. Cardinality(LiveFolds(e, v)) -> LiveFolds(e, v)] :
               IsList(s, Cardinality(LiveFolds(e, v)), values[e][v])
  <2>1. PICK n, s : IsChain(folds, LiveFolds(e, v), values[e][v], n, s)
    BY DEF ShapeInv, StoreInv, ChainOf
  <2>2. Cardinality(LiveFolds(e, v)) = n
    BY <2>1, ChainLength
  <2>3. s \in [1 .. n -> LiveFolds(e, v)] /\ IsList(s, n, values[e][v])
    BY <2>1 DEF IsChain, IsList
  <2> QED
    BY <2>2, <2>3
<1> QED
  BY <1>1, <1>2 DEF ListsHoldLiveFolds

(* The list of an engine and a value has each living fold once, forwards and
   backwards, however the folds came and went. *)
THEOREM ListsAreWhole == Spec => []ListsHoldLiveFolds
  BY ShapeInvariance, ShapeHasLists, PTL

-----------------------------------------------------------------------------
(* What the operations on the store do to a fold, its links apart *)

SameFold(g) ==
  /\ folds'[g].engine = folds[g].engine /\ folds'[g].gvalue = folds[g].gvalue
  /\ folds'[g].owner = folds[g].owner /\ folds'[g].init = folds[g].init

LEMMA NewFoldFacts ==
  ASSUME StoreInv, NEW f \in Folds, NEW e, NEW v, NEW owner, NEW typed, NEW next,
         NewFold(f, e, v, owner, typed, next)
  PROVE  /\ f \notin Ids /\ f \notin cgoFolds /\ f \notin typeNew
         /\ Ids' = Ids \cup {f} /\ cgoFolds' = cgoFolds \cup {f}
         /\ folds'[f].engine = e /\ folds'[f].gvalue = v
         /\ folds'[f].owner = owner /\ folds'[f].init = typed
         /\ \A g \in Ids : SameFold(g)
<1>1. /\ f \notin Ids /\ DOMAIN folds' = Ids \cup {f}
      /\ folds'[f] = [engine |-> e, gvalue |-> v, owner |-> owner, init |-> typed,
                      prev |-> nil, next |-> next]
      /\ \A g \in Ids : folds'[g] = IF g = next THEN [folds[g] EXCEPT !.prev = f] ELSE folds[g]
      /\ cgoFolds' = cgoFolds \cup {f}
  BY DEF NewFold, Ids
<1>2. /\ \A g \in Ids : folds[g] \in FoldRecord
      /\ cgoFolds \subseteq Ids /\ typeNew \subseteq cgoFolds
  BY DEF StoreInv, StoreTyped
<1>3. \A g \in Ids : SameFold(g)
  BY <1>1, <1>2 DEF SameFold, FoldRecord
<1> QED
  BY <1>1, <1>2, <1>3 DEF Ids

LEMMA AttachFacts ==
  ASSUME StoreInv, NEW f \in cgoFolds, NEW e \in Engines, Attach(f, e)
  PROVE  /\ Ids' = Ids /\ typeNew' = typeNew \ {f}
         /\ folds'[f].engine = e /\ folds'[f].gvalue = folds[f].gvalue
         /\ folds'[f].owner = folds[f].owner /\ folds'[f].init = folds[f].init
         /\ \A g \in Ids : g # f => SameFold(g)
         /\ values' = values \/ values' = [values EXCEPT ![e][folds[f].gvalue] = f]
         /\ \A x \in Engines, w \in Values :
              values[x][w] # nil => values'[x][w] = values[x][w]
<1>1. /\ \A g \in Ids : folds[g] \in FoldRecord
      /\ f \in Ids /\ folds[f].gvalue \in Values
      /\ values \in [Engines -> [Values -> Folds \cup {nil}]]
  BY DEF StoreInv, StoreTyped, FoldRecord
<1>2. PICK last :
        /\ DOMAIN folds' = Ids
        /\ folds'[f] = [folds[f] EXCEPT !.engine = e, !.prev = last]
        /\ \A g \in Ids : g # f => folds'[g] = IF g = last THEN [folds[g] EXCEPT !.next = f]
                                               ELSE folds[g]
  <2> DEFINE last == IF values[e][folds[f].gvalue] = nil THEN nil
                     ELSE Last(values[e][folds[f].gvalue])
  <2>1. /\ DOMAIN folds' = Ids
        /\ folds'[f] = [folds[f] EXCEPT !.engine = e, !.prev = last]
        /\ \A g \in Ids : g # f => folds'[g] = IF g = last THEN [folds[g] EXCEPT !.next = f]
                                               ELSE folds[g]
    BY <1>1 DEF Attach
  <2> HIDE DEF last
  <2> QED
    BY <2>1
<1>3. \A g \in Ids : g # f => SameFold(g)
  BY <1>1, <1>2 DEF SameFold, FoldRecord
<1>4. /\ folds'[f].engine = e /\ folds'[f].gvalue = folds[f].gvalue
      /\ folds'[f].owner = folds[f].owner /\ folds'[f].init = folds[f].init
  BY <1>1, <1>2 DEF FoldRecord
<1>5. /\ typeNew' = typeNew \ {f}
      /\ values' = IF values[e][folds[f].gvalue] = nil
                   THEN [values EXCEPT ![e][folds[f].gvalue] = f] ELSE values
  BY DEF Attach
<1>6. \A x \in Engines, w \in Values : values[x][w] # nil => values'[x][w] = values[x][w]
  BY <1>1, <1>5
<1> QED
  BY <1>2, <1>3, <1>4, <1>5, <1>6 DEF Ids

LEMMA DestroyRefFacts ==
  ASSUME StoreInv, NEW f \in cgoFolds, destroyRef(f, folds) \/ destroyRef(f, Unlinked(f))
  PROVE  /\ cgoFolds' = cgoFolds \ {f} /\ Ids' \subseteq Ids
         /\ \A g \in Ids' : folds'[g].init = folds[g].init
         /\ \A g \in cgoFolds' : SameFold(g)
<1>1. /\ \A g \in Ids : folds[g] \in FoldRecord
      /\ cgoFolds \subseteq Ids
  BY DEF StoreInv, StoreTyped
<1>2. ASSUME NEW fs, destroyRef(f, fs), DOMAIN fs = Ids,
             \A g \in Ids :
               /\ fs[g] \in FoldRecord
               /\ fs[g].engine = folds[g].engine /\ fs[g].gvalue = folds[g].gvalue
               /\ fs[g].owner = folds[g].owner /\ fs[g].init = folds[g].init
      PROVE  /\ cgoFolds' = cgoFolds \ {f} /\ Ids' \subseteq Ids
             /\ \A g \in Ids' : folds'[g].init = folds[g].init
             /\ \A g \in cgoFolds' : SameFold(g)
  <2>1. CASE f \in scheduled
    <3>1. /\ cgoFolds' = cgoFolds \ {f} /\ DOMAIN folds' = Ids
          /\ \A g \in Ids \ {f} : folds'[g] = fs[g]
          /\ folds'[f] = [fs[f] EXCEPT !.prev = nil, !.next = nil]
      BY <1>1, <1>2, <2>1 DEF destroyRef, FoldRecord
    <3>2. folds'[f].init = fs[f].init
      BY <1>1, <1>2, <3>1 DEF FoldRecord
    <3> QED
      BY <1>1, <1>2, <3>1, <3>2 DEF SameFold, Ids
  <2>2. CASE f \notin scheduled
    <3>1. /\ cgoFolds' = cgoFolds \ {f} /\ DOMAIN folds' = Ids \ {f}
          /\ \A g \in Ids \ {f} : folds'[g] = fs[g]
      BY <1>2, <2>2 DEF destroyRef, Without
    <3> QED
      BY <1>1, <1>2, <3>1 DEF SameFold, Ids
  <2> QED
    BY <2>1, <2>2
<1>3. CASE destroyRef(f, folds)
  BY <1>1, <1>2, <1>3 DEF Ids
<1>4. CASE destroyRef(f, Unlinked(f))
  <2>1. /\ DOMAIN Unlinked(f) = Ids
        /\ \A g \in Ids :
             Unlinked(f)[g] =
               IF g = folds[f].prev THEN [folds[g] EXCEPT !.next = folds[f].next]
               ELSE IF g = folds[f].next THEN [folds[g] EXCEPT !.prev = folds[f].prev]
               ELSE folds[g]
    BY DEF Unlinked
  <2>2. folds[f].prev \in Folds \cup {nil} /\ folds[f].next \in Folds \cup {nil}
    BY <1>1 DEF FoldRecord
  <2>3. \A g \in Ids :
          /\ Unlinked(f)[g] \in FoldRecord
          /\ Unlinked(f)[g].engine = folds[g].engine /\ Unlinked(f)[g].gvalue = folds[g].gvalue
          /\ Unlinked(f)[g].owner = folds[g].owner /\ Unlinked(f)[g].init = folds[g].init
    BY <1>1, <2>1, <2>2 DEF FoldRecord
  <2> QED
    BY <1>2, <1>4, <2>1, <2>3
<1> QED
  BY <1>3, <1>4

-----------------------------------------------------------------------------
(* Engines *)

EmptyIsNil ==
  \A e \in Engines, v \in Values : values[e][v] = nil <=> LiveFolds(e, v) = {}

LEMMA StoreEmptyIsNil == ShapeInv => EmptyIsNil
  BY FirstFold DEF ShapeInv, EmptyIsNil

(* An engine with a living fold has values. *)
LEMMA NeededHasValues ==
  ASSUME ShapeInv, NEW f \in cgoFolds \ typeNew
  PROVE  folds[f].engine \in Engines /\ HasValues(folds[f].engine, values)
<1>1. folds[f].engine \in Engines /\ folds[f].gvalue \in Values
  BY DEF ShapeInv, StoreInv, StoreTyped, FoldRecord
<1>2. f \in LiveFolds(folds[f].engine, folds[f].gvalue)
  BY DEF LiveFolds
<1>3. values[folds[f].engine][folds[f].gvalue] # nil
  BY <1>1, <1>2, StoreEmptyIsNil DEF EmptyIsNil
<1> QED
  BY <1>1, <1>3 DEF HasValues

NeededAreThere == \A f \in cgoFolds \ typeNew : HasValues(folds[f].engine, values)

LEMMA NextNeeded == ShapeInv' => NeededAreThere'
<1>1. ShapeInv => NeededAreThere
  BY NeededHasValues DEF NeededAreThere
<1> QED
  BY <1>1, PTL

(* An owned fold has an engine and is the first of its list. *)
OwnedInv ==
  \A f \in cgoFolds : folds[f].owner = "cppOwner" =>
    /\ f \notin typeNew
    /\ values[folds[f].engine][folds[f].gvalue] = f

UseInv == EngineKeptWhileNeeded /\ OwnedInv

LEMMA InitUse == Init => UseInv
  BY DEF Init, UseInv, EngineKeptWhileNeeded, OwnedInv

(* The folds and the engines as they were. *)
LEMMA SameUse ==
  ASSUME UseInv, UNCHANGED <<values, cgoFolds, typeNew, engines, destroyed>>,
         \A g \in cgoFolds : SameFold(g), panicked' = panicked
  PROVE  UseInv'
  BY DEF UseInv, EngineKeptWhileNeeded, OwnedInv, SameFold, HasValues

LEMMA WrapUse ==
  ASSUME ShapeInv, UseInv, NEW f \in Folds, NEW e \in Engines, NEW v \in Values,
         NEW owner \in {"cppOwner", "jsOwner"}, wrapGoValue(f, e, v, owner)
  PROVE  UseInv'
<1>1. CASE Painting /\ Panics("cannot allocate new objects while painting")
  BY <1>1, SameUse DEF Panics, engineVars, foldVars, SameFold
<1>2. CASE /\ ~Painting
           /\ NewFold(f, e, v, owner, FALSE, values[e][v])
           /\ values' = [values EXCEPT ![e][v] = f]
           /\ UNCHANGED <<engineVars, typeNew, frames, scheduled, panicked>>
  <2>1. /\ f \notin cgoFolds /\ f # nil /\ cgoFolds' = cgoFolds \cup {f} /\ cgoFolds \subseteq Ids
        /\ folds'[f].engine = e /\ folds'[f].gvalue = v /\ folds'[f].owner = owner
        /\ \A g \in cgoFolds : SameFold(g)
    BY <1>2, NewFoldFacts, ValueFoldsAssumption DEF ShapeInv, StoreInv, StoreTyped
  <2>2. /\ values'[e][v] = f
        /\ \A x \in Engines, w \in Values : ~(x = e /\ w = v) => values'[x][w] = values[x][w]
    BY <1>2 DEF ShapeInv, StoreInv, StoreTyped
  <2>3. e \in engines
    <3>1. e \in qmlEngines /\ (e \notin destroyed \/ \E g \in cgoFolds : folds[g].engine = e)
      BY DEF wrapGoValue, MayWrap
    <3>2. CASE e \notin destroyed
      BY <3>1, <3>2 DEF ShapeInv, EnginesTyped
    <3>3. ASSUME NEW g \in cgoFolds, folds[g].engine = e PROVE e \in engines
      BY <3>3, ValueFoldsAssumption
      DEF ShapeInv, StoreInv, StoreTyped, UseInv, EngineKeptWhileNeeded
    <3> QED
      BY <3>1, <3>2, <3>3
  <2>4. EngineKeptWhileNeeded'
    <3>1. \A g \in cgoFolds' \ typeNew' : folds'[g].engine \in engines'
      BY <1>2, <2>1, <2>3 DEF UseInv, EngineKeptWhileNeeded, engineVars, SameFold
    <3>2. \A x \in engines' \cap destroyed' : HasValues(x, values')
      <4>1. SUFFICES ASSUME NEW x \in engines \cap destroyed PROVE HasValues(x, values')
        BY <1>2 DEF engineVars
      <4>2. PICK w \in Values : values[x][w] # nil
        BY DEF UseInv, EngineKeptWhileNeeded, HasValues
      <4>3. x \in Engines
        BY DEF ShapeInv, EnginesTyped
      <4>4. values'[x][w] # nil
        BY <2>1, <2>2, <4>2, <4>3
      <4> QED
        BY <4>4 DEF HasValues
    <3> QED
      BY <1>2, <3>1, <3>2 DEF UseInv, EngineKeptWhileNeeded
  <2>5. OwnedInv'
    <3>1. SUFFICES ASSUME NEW g \in cgoFolds', folds'[g].owner = "cppOwner"
                   PROVE  /\ g \notin typeNew'
                          /\ values'[folds'[g].engine][folds'[g].gvalue] = g
      BY DEF OwnedInv
    <3>2. CASE g = f
      BY <1>2, <2>1, <2>2, <3>2 DEF ShapeInv, StoreInv, StoreTyped
    <3>3. CASE g # f
      <4>1. /\ g \in cgoFolds /\ folds[g].owner = "cppOwner" /\ g \notin typeNew
            /\ values[folds[g].engine][folds[g].gvalue] = g
            /\ folds'[g].engine = folds[g].engine /\ folds'[g].gvalue = folds[g].gvalue
        BY <2>1, <3>1, <3>3 DEF SameFold, UseInv, OwnedInv
      <4>2. /\ folds[g].engine \in Engines /\ folds[g].gvalue \in Values /\ g # nil
        BY <2>1, <4>1, ValueFoldsAssumption DEF ShapeInv, StoreInv, StoreTyped, FoldRecord
      <4>3. ~(folds[g].engine = e /\ folds[g].gvalue = v)
        BY <4>1, <4>2 DEF wrapGoValue, Reusable
      <4> QED
        BY <1>2, <2>2, <4>1, <4>2, <4>3
    <3> QED
      BY <3>2, <3>3
  <2> QED
    BY <2>4, <2>5 DEF UseInv
<1> QED
  BY <1>1, <1>2 DEF wrapGoValue

LEMMA TypeNewUse ==
  ASSUME ShapeInv, UseInv, NEW f \in Folds, NEW v \in Values, hookGoValueTypeNew(f, v)
  PROVE  UseInv'
<1>1. /\ f \notin cgoFolds /\ cgoFolds' = cgoFolds \cup {f} /\ cgoFolds \subseteq Ids
      /\ folds'[f].owner = "jsOwner" /\ typeNew' = typeNew \cup {f}
      /\ \A g \in cgoFolds : SameFold(g)
      /\ UNCHANGED <<values, engines, destroyed, panicked>>
  BY NewFoldFacts DEF hookGoValueTypeNew, engineVars, ShapeInv, StoreInv, StoreTyped
<1> QED
  BY <1>1 DEF UseInv, EngineKeptWhileNeeded, OwnedInv, SameFold, HasValues

LEMMA AttachUse ==
  ASSUME ShapeInv, UseInv, NEW f \in cgoFolds, NEW e \in Engines, e \in engines,
         folds[f].engine = NoEngine, Attach(f, e),
         UNCHANGED <<cgoFolds, engines, destroyed, panicked>>
  PROVE  UseInv'
<1>1. /\ typeNew' = typeNew \ {f} /\ cgoFolds \subseteq Ids
      /\ folds'[f].engine = e /\ folds'[f].owner = folds[f].owner
      /\ \A g \in cgoFolds : g # f => SameFold(g)
      /\ \A x \in Engines, w \in Values : values[x][w] # nil => values'[x][w] = values[x][w]
  BY AttachFacts DEF ShapeInv, StoreInv, StoreTyped
<1>2. EngineKeptWhileNeeded'
  <2>1. \A g \in cgoFolds \ typeNew' : folds'[g].engine \in engines
    BY <1>1 DEF UseInv, EngineKeptWhileNeeded, SameFold
  <2>2. ASSUME NEW x \in engines \cap destroyed PROVE HasValues(x, values')
    <3>1. PICK w \in Values : values[x][w] # nil
      BY DEF UseInv, EngineKeptWhileNeeded, HasValues
    <3> QED
      BY <1>1, <3>1 DEF ShapeInv, EnginesTyped, HasValues
  <2> QED
    BY <2>1, <2>2 DEF UseInv, EngineKeptWhileNeeded
<1>3. f \in typeNew
  BY DEF ShapeInv, StoreInv, StoreTyped
<1>4. OwnedInv'
  <2>1. SUFFICES ASSUME NEW g \in cgoFolds, folds'[g].owner = "cppOwner"
                 PROVE  /\ g \notin typeNew'
                        /\ values'[folds'[g].engine][folds'[g].gvalue] = g
    BY DEF OwnedInv
  <2>2. /\ g # f /\ SameFold(g) /\ folds[g].owner = "cppOwner" /\ g \notin typeNew
        /\ values[folds[g].engine][folds[g].gvalue] = g
    BY <1>1, <1>3, <2>1 DEF SameFold, UseInv, OwnedInv
  <2>3. /\ folds[g].engine \in Engines /\ folds[g].gvalue \in Values /\ g # nil
    BY <1>1, <2>2, ValueFoldsAssumption DEF ShapeInv, StoreInv, StoreTyped, FoldRecord
  <2> QED
    BY <1>1, <2>2, <2>3 DEF SameFold
<1> QED
  BY <1>2, <1>4 DEF UseInv

(* Of a list, all but the first fold have one before them. *)
LEMMA NotFirst ==
  ASSUME StoreInv, NEW e \in Engines, NEW v \in Values, NEW f \in LiveFolds(e, v),
         values[e][v] # f
  PROVE  folds[f].prev # nil
<1>1. PICK n, s : ChainOf(e, v, n, s)
  BY DEF StoreInv
<1>2. PICK i \in 1 .. n : s[i] = f
  BY <1>1 DEF ChainOf, IsChain
<1>3. n \in Nat /\ n # 0 /\ values[e][v] = s[1] /\ i # 1
  BY <1>1, <1>2 DEF ChainOf, IsChain
<1>4. i - 1 \in 1 .. n /\ folds[f].prev = s[i - 1] /\ s[i - 1] \in LiveFolds(e, v)
  BY <1>1, <1>2, <1>3 DEF ChainOf, IsChain
<1> QED
  BY <1>4, FirstFold

LEMMA DestroyedUse ==
  ASSUME ShapeInv, UseInv, NEW f \in Ids, hookGoValueDestroyed(f)
  PROVE  UseInv'
<1> DEFINE e == folds[f].engine
           v == folds[f].gvalue
<1>1. /\ f \in cgoFolds /\ folds[f] \in FoldRecord /\ cgoFolds \subseteq Ids /\ nil \notin Ids
      /\ typeNew = {g \in cgoFolds : folds[g].engine = NoEngine}
      /\ values \in [Engines -> [Values -> Folds \cup {nil}]]
      /\ engines \subseteq Engines /\ NoEngine \notin Engines
  BY ValueFoldsAssumption
  DEF hookGoValueDestroyed, ShapeInv, EnginesTyped, StoreInv, StoreTyped
<1>2. CASE /\ e = NoEngine /\ typeNew' = typeNew \ {f} /\ destroyRef(f, folds)
           /\ UNCHANGED <<engineVars, values, frames, scheduled, panicked, inited>>
  <2>1. cgoFolds' = cgoFolds \ {f} /\ \A g \in cgoFolds' : SameFold(g)
    BY <1>1, <1>2, DestroyRefFacts DEF ShapeInv
  <2> QED
    BY <1>2, <2>1 DEF UseInv, EngineKeptWhileNeeded, OwnedInv, SameFold, HasValues, engineVars
<1>3. ~(e \in Engines \ engines)
  BY <1>1 DEF UseInv, EngineKeptWhileNeeded
<1>4. CASE /\ e \in engines
           /\ destroyRef(f, Unlinked(f))
           /\ values' = IF folds[f].prev = nil
                        THEN [values EXCEPT ![e][v] = folds[f].next] ELSE values
           /\ engines' = IF e \in destroyed /\ ~HasValues(e, values')
                         THEN engines \ {e} ELSE engines
           /\ UNCHANGED <<qmlEngines, destroyed, typeNew, frames, scheduled, panicked, inited>>
  <2>1. cgoFolds' = cgoFolds \ {f} /\ \A g \in cgoFolds' : SameFold(g)
    BY <1>1, <1>4, DestroyRefFacts DEF ShapeInv
  <2>2. e \in Engines /\ v \in Values /\ f \in LiveFolds(e, v)
    BY <1>1, <1>4 DEF LiveFolds, FoldRecord
  <2>3. \A x \in Engines, w \in Values :
          ~(x = e /\ w = v) \/ folds[f].prev # nil => values'[x][w] = values[x][w]
    BY <1>1, <1>4, <2>2
  <2>4. EngineKeptWhileNeeded'
    <3>1. ASSUME NEW g \in cgoFolds' \ typeNew' PROVE folds'[g].engine \in engines'
      <4>1. folds'[g].engine \in engines
        BY <1>4, <2>1, <3>1 DEF SameFold, UseInv, EngineKeptWhileNeeded
      <4>2. HasValues(folds'[g].engine, values')
        BY <3>1, DestroyedStep, NextNeeded DEF NeededAreThere
      <4> QED
        BY <1>4, <4>1, <4>2
    <3>2. ASSUME NEW x \in engines' \cap destroyed' PROVE HasValues(x, values')
      <4>1. CASE x = e
        BY <1>4, <3>2, <4>1
      <4>2. CASE x # e
        <5>1. x \in engines \cap destroyed /\ x \in Engines
          BY <1>1, <1>4, <3>2
        <5>2. PICK w \in Values : values[x][w] # nil
          BY <5>1 DEF UseInv, EngineKeptWhileNeeded, HasValues
        <5> QED
          BY <2>3, <4>2, <5>1, <5>2 DEF HasValues
      <4> QED
        BY <4>1, <4>2
    <3> QED
      BY <1>4, <3>1, <3>2 DEF UseInv, EngineKeptWhileNeeded
  <2>5. OwnedInv'
    <3>1. SUFFICES ASSUME NEW g \in cgoFolds', folds'[g].owner = "cppOwner"
                   PROVE  /\ g \notin typeNew'
                          /\ values'[folds'[g].engine][folds'[g].gvalue] = g
      BY DEF OwnedInv
    <3>2. /\ g \in cgoFolds /\ g # f /\ g \notin typeNew /\ SameFold(g)
          /\ values[folds[g].engine][folds[g].gvalue] = g
      BY <2>1, <3>1 DEF SameFold, UseInv, OwnedInv
    <3>3. folds[g].engine \in Engines /\ folds[g].gvalue \in Values
      BY <1>1, <3>2 DEF ShapeInv, StoreInv, StoreTyped, FoldRecord
    <3>4. folds[g].engine = e /\ folds[g].gvalue = v => folds[f].prev # nil
      BY <2>2, <3>2, NotFirst DEF ShapeInv
    <3> QED
      BY <1>4, <2>3, <3>2, <3>3, <3>4 DEF SameFold
  <2> QED
    BY <2>4, <2>5 DEF UseInv
<1> QED
  BY <1>2, <1>3, <1>4 DEF hookGoValueDestroyed

LEMMA UseInvStep ==
  ASSUME ShapeInv, UseInv, [Next]_vars
  PROVE  UseInv'
<1>1. CASE UNCHANGED vars
  BY <1>1, SameUse DEF vars, engineVars, foldVars, SameFold
<1>2. ASSUME NEW e \in Engines, NewEngine(e)
      PROVE  UseInv'
  BY <1>2 DEF NewEngine, foldVars, UseInv, EngineKeptWhileNeeded, OwnedInv, HasValues
<1>3. ASSUME NEW e \in Engines, Destroy(e)
      PROVE  UseInv'
  <2>1. \A f \in cgoFolds \ typeNew : HasValues(folds[f].engine, values)
    BY NeededHasValues
  <2> QED
    <3>1. /\ destroyed' = destroyed \cup {e} /\ UNCHANGED <<values, folds, cgoFolds, typeNew, panicked>>
          /\ engines' = IF HasValues(e, values) THEN engines ELSE engines \ {e}
      BY <1>3 DEF Destroy, foldVars
    <3>2. EngineKeptWhileNeeded'
      BY <2>1, <3>1 DEF UseInv, EngineKeptWhileNeeded
    <3> QED
      BY <3>1, <3>2 DEF UseInv, OwnedInv
<1>4. ASSUME NEW e \in Engines, EngineDeleted(e)
      PROVE  UseInv'
  BY <1>4, SameUse DEF EngineDeleted, foldVars, SameFold
<1>5. ASSUME NEW f \in Ids, NEW e \in Engines, Use(f, e)
      PROVE  UseInv'
  <2>1. f \in cgoFolds
    BY <1>5 DEF Use
  <2>2. CASE UNCHANGED <<engineVars, foldVars, panicked>>
    BY <2>2, SameUse DEF engineVars, foldVars, SameFold
  <2>3. CASE /\ folds[f].engine = NoEngine /\ e \in engines /\ Attach(f, e)
             /\ UNCHANGED <<engineVars, cgoFolds, panicked>>
    BY <2>1, <2>3, AttachUse DEF engineVars
  <2>4. CASE Panics("unknown engine pointer")
    BY <2>4 DEF Panics, engineVars, foldVars, UseInv, EngineKeptWhileNeeded, OwnedInv, HasValues
  <2> QED
    BY <1>5, <2>2, <2>3, <2>4 DEF Use, ensureEngine
<1>6. ASSUME NEW f \in Ids, NEW e \in Engines, hookGoValuePaint(f, e)
      PROVE  UseInv'
  <2>1. f \in cgoFolds /\ UNCHANGED <<engines, destroyed, panicked, cgoFolds>>
    BY <1>6 DEF hookGoValuePaint, engineVars, foldVars
  <2>2. CASE UNCHANGED <<values, folds, typeNew>>
    BY <2>1, <2>2, SameUse DEF SameFold
  <2>3. CASE folds[f].engine = NoEngine /\ e \in engines /\ Attach(f, e)
    BY <2>1, <2>3, AttachUse
  <2> QED
    BY <1>6, <2>2, <2>3 DEF hookGoValuePaint, foldVars
<1>7. ASSUME NEW f \in Ids, ScheduledInit(f)
      PROVE  UseInv'
  <2>1. \A g \in cgoFolds : SameFold(g)
    BY <1>7 DEF ScheduledInit, Without, SameFold, ShapeInv, StoreInv, StoreTyped, Ids
  <2> QED
    BY <1>7, <2>1, SameUse DEF ScheduledInit, engineVars
<1>8. ASSUME InitReturns
      PROVE  UseInv'
  <2>1. \A g \in cgoFolds : /\ folds'[g].engine = folds[g].engine
                             /\ folds'[g].gvalue = folds[g].gvalue
                             /\ folds'[g].owner = folds[g].owner
    BY <1>8 DEF InitReturns, Without, ShapeInv, StoreInv, StoreTyped, FoldRecord, Ids
  <2> QED
    BY <1>8, <2>1
    DEF InitReturns, engineVars, UseInv, EngineKeptWhileNeeded, OwnedInv, HasValues
<1>9. ASSUME NEW v \in Values, Changed(v)
      PROVE  UseInv'
  BY <1>9, SameUse DEF Changed, engineVars, foldVars, SameFold
<1>10. ASSUME PaintReturns \/ ChangedStep
       PROVE  UseInv'
  BY <1>10, SameUse
  DEF PaintReturns, ChangedStep, ChangedNextEngine, ChangedNextFold, ChangedDeferred,
      ChangedReturns, engineVars, foldVars, SameFold
<1> QED
  BY <1>1, <1>2, <1>3, <1>4, <1>5, <1>6, <1>7, <1>8, <1>9, <1>10, WrapUse, TypeNewUse,
     DestroyedUse DEF Next

THEOREM UseInvariance == Spec => []UseInv
  BY ShapeInvariance, InitUse, UseInvStep, PTL DEF Spec

(* An engine is in the global list while one of its values is alive, and no
   longer once it is destroyed; hookGoValueDestroyed never panics. *)
THEOREM EnginesAreKept == Spec => []EngineKeptWhileNeeded
<1>1. UseInv => EngineKeptWhileNeeded
  BY DEF UseInv
<1> QED
  BY <1>1, UseInvariance, PTL

(* The single owned fold, if any, comes first, so that looking at the first
   is enough to find it. *)
THEOREM OwnedIsFirst == Spec => []OwnedFoldIsFirst
<1>1. UseInv => OwnedFoldIsFirst
  BY DEF UseInv, OwnedInv, OwnedFoldIsFirst
<1> QED
  BY <1>1, UseInvariance, PTL

-----------------------------------------------------------------------------
(* Init *)

(* A fold Init was called for has its Init due only while it runs. *)
CalledOnce == \A f \in inited \cap Ids : folds[f].init => InInit(f)

InitDueInv == InitBeforeUse /\ CalledOnce

LEMMA InitInitDue == Init => InitDueInv
  BY DEF Init, InitDueInv, InitBeforeUse, CalledOnce

(* Nobody enters or leaves Init, and no fold comes or has its Init. *)
LEMMA SameInitDue ==
  ASSUME InitDueInv, UNCHANGED inited, scheduled \subseteq scheduled',
         \A f : InInit(f) => InInit(f)', cgoFolds' \subseteq cgoFolds, Ids' \subseteq Ids,
         cgoFolds \ typeNew' \subseteq cgoFolds \ typeNew,
         \A f \in Ids' : folds'[f].init = folds[f].init,
         cgoFolds' \subseteq Ids'
  PROVE  InitDueInv'
  BY DEF InitDueInv, InitBeforeUse, CalledOnce, Ids

LEMMA SameFrames ==
  ASSUME UNCHANGED frames
  PROVE  \A f : InInit(f)' <=> InInit(f)
  BY DEF InInit

LEMMA PanicInits ==
  ASSUME FramesInv, NEW message, Panics(message)
  PROVE  \A f : InInit(f)' <=> InInit(f)
<1>1. CASE Painting
  BY <1>1, ReturnFacts DEF Panics, Painting, FramesInv, IsInit
<1>2. CASE ~Painting
  BY <1>2, SameFrames DEF Panics
<1> QED
  BY <1>1, <1>2

(* After ensureEngine the Init of the fold is over, on its way, or running. *)
LEMMA InitGoTypeFacts ==
  ASSUME ShapeInv, NEW f \in cgoFolds, initGoType(f)
  PROVE  /\ \A g : InInit(g) => InInit(g)'
         /\ scheduled \subseteq scheduled'
         /\ folds[f].init => f \in scheduled' \/ InInit(f)'
         /\ \A g \in inited' : g \in inited \/ InInit(g)'
         /\ \A g : CallsInit(g) => g = f /\ folds[f].init
<1>1. frames \in Seq(FrameRecord) /\ Len(frames) \in Nat /\ f \in Folds
  BY DEF ShapeInv, FramesInv, StoreInv, StoreTyped
<1>2. CASE Painting \/ ~folds[f].init
  <2>1. /\ UNCHANGED <<frames, inited>> /\ scheduled \subseteq scheduled'
        /\ folds[f].init => f \in scheduled'
    BY <1>2 DEF initGoType, _initGoType
  <2>2. \A g : ~CallsInit(g)
    BY <1>1, <2>1 DEF CallsInit
  <2> QED
    BY <2>1, <2>2, SameFrames
<1>3. CASE ~Painting /\ folds[f].init
  <2> DEFINE frame == [kind |-> "Init", fold |-> f]
  <2>1. /\ frame \in FrameRecord /\ frame.kind = "Init" /\ frame.fold = f
        /\ Call(frame) /\ UNCHANGED scheduled /\ inited' = inited \cup {f}
    BY <1>1, <1>3 DEF initGoType, _initGoType, FrameRecord
  <2> HIDE DEF frame
  <2>2. /\ frames'[Len(frames')] = frame
        /\ \A g : InInit(g)' <=> InInit(g) \/ IsInit(frame, g)
    BY <1>1, <2>1, CallFacts
  <2>3. \A g : CallsInit(g) => g = f
    <3>1. SUFFICES ASSUME NEW g, CallsInit(g) PROVE g = f
      OBVIOUS
    <3>2. frame = [kind |-> "Init", fold |-> g]
      BY <2>2, <3>1 DEF CallsInit
    <3> QED
      BY <2>1, <3>2
  <2> QED
    BY <1>3, <2>1, <2>2, <2>3 DEF IsInit
<1> QED
  BY <1>2, <1>3

(* A use of a fold, which may give it its engine. *)
LEMMA UsedInitDue ==
  ASSUME ShapeInv, InitDueInv, NEW f \in cgoFolds, UNCHANGED cgoFolds, Ids' = Ids,
         \A g \in Ids : folds'[g].init = folds[g].init,
         typeNew' = typeNew \/ typeNew' = typeNew \ {f},
         \A g : InInit(g) => InInit(g)',
         scheduled \subseteq scheduled',
         folds[f].init => f \in scheduled' \/ InInit(f)',
         \A g \in inited' : g \in inited \/ InInit(g)'
  PROVE  InitDueInv'
<1>1. cgoFolds \subseteq Ids
  BY DEF ShapeInv, StoreInv, StoreTyped
<1>2. InitBeforeUse'
  BY <1>1 DEF InitDueInv, InitBeforeUse
<1>3. CalledOnce'
  BY <1>1 DEF InitDueInv, CalledOnce, Ids
<1> QED
  BY <1>2, <1>3 DEF InitDueInv

LEMMA UseInitDue ==
  ASSUME ShapeInv, InitDueInv, NEW f \in Ids, NEW e \in Engines, Use(f, e)
  PROVE  InitDueInv'
<1>1. f \in cgoFolds
  BY DEF Use
<1>2. CASE initGoType(f) /\ UNCHANGED <<engineVars, foldVars, panicked>>
  <2>1. /\ UNCHANGED <<cgoFolds, typeNew>> /\ folds' = folds /\ Ids' = Ids
    BY <1>2 DEF foldVars, Ids
  <2> QED
    BY <1>1, <1>2, <2>1, InitGoTypeFacts, UsedInitDue
<1>3. CASE /\ folds[f].engine = NoEngine /\ Attach(f, e)
           /\ initGoType(f) /\ UNCHANGED <<engineVars, cgoFolds, panicked>>
  <2>1. /\ UNCHANGED cgoFolds /\ typeNew' = typeNew \ {f} /\ Ids' = Ids
        /\ \A g \in Ids : folds'[g].init = folds[g].init
    BY <1>1, <1>3, AttachFacts DEF ShapeInv, SameFold
  <2> QED
    BY <1>1, <1>3, <2>1, InitGoTypeFacts, UsedInitDue
<1>4. CASE Panics("unknown engine pointer")
  <2>1. /\ UNCHANGED <<inited, scheduled, cgoFolds, typeNew>> /\ folds' = folds /\ Ids' = Ids
        /\ cgoFolds \subseteq Ids
    BY <1>4 DEF Panics, foldVars, Ids, ShapeInv, StoreInv, StoreTyped
  <2>2. \A g : InInit(g)' <=> InInit(g)
    BY <1>4, PanicInits DEF ShapeInv
  <2> QED
    BY <2>1, <2>2, SameInitDue
<1> QED
  BY <1>2, <1>3, <1>4 DEF Use, ensureEngine

LEMMA PaintInitDue ==
  ASSUME ShapeInv, InitDueInv, NEW f \in Ids, NEW e \in Engines, hookGoValuePaint(f, e)
  PROVE  InitDueInv'
<1>1. f \in cgoFolds /\ UNCHANGED inited /\ cgoFolds \subseteq Ids
  BY DEF hookGoValuePaint, ShapeInv, StoreInv, StoreTyped
<1>2. CASE Call([kind |-> "Paint"]) /\ UNCHANGED <<foldVars, scheduled>>
  <2>1. [kind |-> "Paint"] \in FrameRecord /\ frames \in Seq(FrameRecord)
    BY DEF FrameRecord, ShapeInv, FramesInv
  <2>2. \A g : InInit(g) => InInit(g)'
    BY <1>2, <2>1, CallFacts
  <2>3. folds' = folds /\ Ids' = Ids /\ UNCHANGED <<cgoFolds, typeNew>>
    BY <1>2 DEF foldVars, Ids
  <2> QED
    BY <1>1, <1>2, <2>2, <2>3, SameInitDue
<1>3. CASE /\ \/ UNCHANGED <<values, folds, typeNew>>
              \/ folds[f].engine = NoEngine /\ Attach(f, e)
           /\ scheduled' = scheduled \cup {f}
           /\ UNCHANGED <<cgoFolds, frames>>
  <2>1. /\ Ids' = Ids /\ (typeNew' = typeNew \/ typeNew' = typeNew \ {f})
        /\ \A g \in Ids : folds'[g].init = folds[g].init
    BY <1>1, <1>3, AttachFacts DEF ShapeInv, SameFold, Ids
  <2>2. \A g : InInit(g) => InInit(g)'
    BY <1>3, SameFrames
  <2> QED
    BY <1>1, <1>3, <2>1, <2>2, UsedInitDue
<1> QED
  BY <1>2, <1>3 DEF hookGoValuePaint

LEMMA ScheduledInitDue ==
  ASSUME ShapeInv, InitDueInv, NEW f \in Ids, ScheduledInit(f)
  PROVE  InitDueInv' /\ \A g : CallsInit(g) => g = f /\ folds[f].init
<1>1. /\ frames = <<>> /\ scheduled' = scheduled \ {f} /\ UNCHANGED <<cgoFolds, typeNew>>
      /\ f \in Folds /\ Len(frames) = 0
      /\ frames \in Seq(FrameRecord) /\ \A g : ~InInit(g)
      /\ cgoFolds \subseteq Ids
  BY LoopFacts DEF ScheduledInit, InLoop, ShapeInv, StoreInv, StoreTyped, FramesInv
<1>2. CASE folds[f].init
  <2> DEFINE frame == [kind |-> "Init", fold |-> f]
  <2>1. /\ folds' = folds /\ Ids' = Ids /\ inited' = inited \cup {f}
        /\ frame \in FrameRecord /\ frame.kind = "Init" /\ frame.fold = f /\ Call(frame)
    BY <1>1, <1>2 DEF ScheduledInit, _initGoType, Ids, FrameRecord
  <2> HIDE DEF frame
  <2>2. frames'[Len(frames')] = frame /\ \A g : InInit(g)' <=> g = f
    BY <1>1, <2>1, CallFacts DEF IsInit
  <2>3. InitBeforeUse'
    BY <1>1, <2>1, <2>2 DEF InitDueInv, InitBeforeUse
  <2>4. CalledOnce'
    BY <1>1, <2>1, <2>2 DEF InitDueInv, CalledOnce, Ids
  <2>5. ASSUME NEW g, CallsInit(g) PROVE g = f
    <3>1. frame = [kind |-> "Init", fold |-> g]
      BY <2>2, <2>5 DEF CallsInit
    <3> QED
      BY <2>1, <3>1
  <2> QED
    BY <1>2, <2>3, <2>4, <2>5 DEF InitDueInv
<1>3. CASE ~folds[f].init
  <2>1. /\ UNCHANGED <<frames, inited>> /\ Ids' \subseteq Ids
        /\ \A g \in Ids' : folds'[g] = folds[g]
        /\ cgoFolds \subseteq Ids'
    BY <1>1, <1>3 DEF ScheduledInit, _initGoType, Without, Ids
  <2>2. \A g : InInit(g)' <=> InInit(g)
    BY <2>1, SameFrames
  <2>3. InitBeforeUse'
    BY <1>1, <1>3, <2>1, <2>2 DEF InitDueInv, InitBeforeUse
  <2>4. CalledOnce'
    BY <2>1, <2>2 DEF InitDueInv, CalledOnce, Ids
  <2>5. \A g : ~CallsInit(g)
    BY <1>1, <2>1 DEF CallsInit
  <2> QED
    BY <2>3, <2>4, <2>5 DEF InitDueInv
<1> QED
  BY <1>2, <1>3

LEMMA InitReturnsDue ==
  ASSUME ShapeInv, InitDueInv, InitReturns
  PROVE  InitDueInv'
<1> DEFINE f == Top.fold
<1>1. /\ frames # <<>> /\ Top.kind = "Init" /\ Return /\ frames \in Seq(FrameRecord)
      /\ UNCHANGED <<cgoFolds, typeNew, scheduled, inited>>
      /\ folds' = IF f \in cgoFolds THEN [folds EXCEPT ![f].init = FALSE] ELSE Without(f, folds)
      /\ folds \in [Ids -> FoldRecord] /\ cgoFolds \subseteq Ids
  BY DEF InitReturns, ShapeInv, FramesInv, StoreInv, StoreTyped
<1>2. \A g : InInit(g) => InInit(g)' \/ g = f
  BY <1>1, ReturnFacts DEF IsInit
<1> HIDE DEF f
<1>3. /\ Ids' \subseteq Ids
      /\ \A g \in Ids' : folds'[g].init => folds[g].init /\ g # f
  <2>1. CASE f \in cgoFolds
    BY <1>1, <2>1 DEF Ids, FoldRecord
  <2>2. CASE f \notin cgoFolds
    BY <1>1, <2>2 DEF Ids, Without
  <2> QED
    BY <2>1, <2>2
<1>4. cgoFolds \subseteq Ids'
  BY <1>1 DEF Ids, Without
<1>5. InitBeforeUse'
  BY <1>1, <1>2, <1>3, <1>4 DEF InitDueInv, InitBeforeUse
<1>6. CalledOnce'
  BY <1>1, <1>2, <1>3 DEF InitDueInv, CalledOnce, Ids
<1> QED
  BY <1>5, <1>6 DEF InitDueInv

LEMMA NewFoldInitDue ==
  ASSUME ShapeInv, InitDueInv, NEW f \in Folds, NEW e, NEW v, NEW owner, NEW typed, NEW next,
         NewFold(f, e, v, owner, typed, next), UNCHANGED <<frames, scheduled>>,
         \/ typed = FALSE /\ typeNew' = typeNew
         \/ typeNew' = typeNew \cup {f}
  PROVE  InitDueInv'
<1>1. /\ f \notin Ids /\ Ids' = Ids \cup {f} /\ cgoFolds' = cgoFolds \cup {f}
      /\ folds'[f].init = typed /\ \A g \in Ids : folds'[g].init = folds[g].init
      /\ cgoFolds \subseteq Ids
  BY NewFoldFacts DEF ShapeInv, StoreInv, StoreTyped, SameFold
<1>2. inited' = inited \ {f}
  BY DEF NewFold
<1>3. \A g : InInit(g)' <=> InInit(g)
  BY SameFrames
<1>4. InitBeforeUse'
  BY <1>1, <1>3 DEF InitDueInv, InitBeforeUse
<1>5. CalledOnce'
  BY <1>1, <1>2, <1>3 DEF InitDueInv, CalledOnce, Ids
<1> QED
  BY <1>4, <1>5 DEF InitDueInv

LEMMA InitDueStep ==
  ASSUME ShapeInv, InitDueInv, [Next]_vars
  PROVE  InitDueInv'
<1>1. /\ cgoFolds \subseteq Ids /\ frames \in Seq(FrameRecord)
  BY DEF ShapeInv, StoreInv, StoreTyped, FramesInv
<1>2. ASSUME UNCHANGED <<foldVars, scheduled, inited>>, \A f : InInit(f) => InInit(f)'
      PROVE  InitDueInv'
  BY <1>1, <1>2, SameInitDue DEF foldVars, Ids
<1>3. CASE UNCHANGED vars
  BY <1>2, <1>3, SameFrames DEF vars
<1>4. ASSUME NEW e \in Engines, NewEngine(e) \/ Destroy(e) \/ EngineDeleted(e)
      PROVE  InitDueInv'
  BY <1>2, <1>4, SameFrames DEF NewEngine, Destroy, EngineDeleted
<1>5. ASSUME NEW f \in Folds, NEW v \in Values, NEW e \in Engines, NEW owner,
             wrapGoValue(f, e, v, owner)
      PROVE  InitDueInv'
  <2>1. CASE Panics("cannot allocate new objects while painting")
    BY <1>2, <2>1, PanicInits DEF Panics, ShapeInv
  <2>2. CASE NewFold(f, e, v, owner, FALSE, values[e][v]) /\ UNCHANGED <<typeNew, frames, scheduled>>
    BY <2>2, NewFoldInitDue
  <2> QED
    BY <1>5, <2>1, <2>2 DEF wrapGoValue
<1>6. ASSUME NEW f \in Folds, NEW v \in Values, hookGoValueTypeNew(f, v)
      PROVE  InitDueInv'
  BY <1>6, NewFoldInitDue DEF hookGoValueTypeNew
<1>7. ASSUME NEW f \in Ids, hookGoValueDestroyed(f)
      PROVE  InitDueInv'
  <2>1. f \in cgoFolds
    BY <1>7 DEF hookGoValueDestroyed
  <2>2. CASE Panics("engine was released while its values were still alive")
    BY <1>2, <2>2, PanicInits DEF Panics, ShapeInv
  <2>3. CASE /\ destroyRef(f, folds) \/ destroyRef(f, Unlinked(f))
             /\ typeNew' = typeNew \ {f} \/ typeNew' = typeNew
             /\ UNCHANGED <<frames, scheduled, inited>>
    <3>1. /\ cgoFolds' = cgoFolds \ {f} /\ Ids' \subseteq Ids
          /\ \A g \in Ids' : folds'[g].init = folds[g].init
      BY <2>1, <2>3, DestroyRefFacts DEF ShapeInv
    <3>2. \A g : InInit(g)' <=> InInit(g)
      BY <2>3, SameFrames
    <3>3. InitBeforeUse'
      <4>1. cgoFolds' \subseteq Ids'
        BY <1>7, DestroyedStep DEF ShapeInv, StoreInv, StoreTyped
      <4> QED
        BY <2>3, <3>1, <3>2, <4>1 DEF InitDueInv, InitBeforeUse
    <3>4. CalledOnce'
      BY <2>3, <3>1, <3>2 DEF InitDueInv, CalledOnce, Ids
    <3> QED
      BY <3>3, <3>4 DEF InitDueInv
  <2> QED
    BY <1>7, <2>2, <2>3 DEF hookGoValueDestroyed
<1>8. ASSUME NEW v \in Values, Changed(v)
      PROVE  InitDueInv'
  <2>1. PICK frame \in FrameRecord : Call(frame)
    <3>1. [kind |-> "Changed", value |-> v, walked |-> {}, at |-> nil, later |-> {},
           listed |-> FALSE, due |-> WithValue(v, cgoFolds), reached |-> {},
           found |-> engines] \in FrameRecord
      BY DEF FrameRecord, ChangedRecord, WithValue, ShapeInv, EnginesTyped, StoreInv, StoreTyped
    <3> QED
      BY <1>8, <3>1 DEF Changed
  <2> QED
    BY <1>1, <1>2, <1>8, <2>1, CallFacts DEF Changed
<1>9. ASSUME PaintReturns \/ ChangedReturns
      PROVE  InitDueInv'
  <2>1. frames # <<>> /\ Top.kind # "Init" /\ Return /\ UNCHANGED <<foldVars, scheduled, inited>>
    BY <1>9 DEF PaintReturns, ChangedReturns, Painting, InChanged
  <2> QED
    BY <1>1, <1>2, <2>1, ReturnFacts DEF IsInit
<1>10. ASSUME \/ \E e \in Engines : ChangedNextEngine(e)
              \/ ChangedNextFold
              \/ \E f \in Ids : ChangedDeferred(f)
       PROVE  InitDueInv'
  <2>1. /\ frames # <<>> /\ Top.kind = "Changed" /\ UNCHANGED <<foldVars, scheduled, inited>>
        /\ \E frame : Become(frame)
    BY <1>10 DEF ChangedNextEngine, ChangedNextFold, ChangedDeferred, InChanged
  <2>2. PICK frame : Become(frame)
    BY <2>1
  <2>3. Len(frames) \in Nat \ {0} /\ DOMAIN frames = 1 .. Len(frames) /\ Top = frames[Len(frames)]
    BY <1>1, <2>1 DEF Top
  <2>4. /\ DOMAIN frames' = DOMAIN frames
        /\ \A i \in DOMAIN frames : i # Len(frames) => frames'[i] = frames[i]
    BY <1>1, <2>2, <2>3 DEF Become
  <2>5. \A f : InInit(f) => InInit(f)'
    BY <2>1, <2>3, <2>4 DEF InInit
  <2> QED
    BY <1>2, <2>1, <2>5
<1> QED
  BY <1>3, <1>4, <1>5, <1>6, <1>7, <1>8, <1>9, <1>10, UseInitDue, PaintInitDue,
     ScheduledInitDue, InitReturnsDue DEF Next, ChangedStep

THEOREM InitDueInvariance == Spec => []InitDueInv
  BY ShapeInvariance, InitInitDue, InitDueStep, PTL DEF Spec

(* No value of a registered type is used without its Init called, or on its
   way from a painting. *)
THEOREM InitInTime == Spec => []InitBeforeUse
<1>1. InitDueInv => InitBeforeUse
  BY DEF InitDueInv
<1> QED
  BY <1>1, InitDueInvariance, PTL

(* Only a use of a fold and the goroutine of a painting call Init, and only
   when it is due. *)
LEMMA CallsAreDue ==
  ASSUME ShapeInv, InitDueInv, [Next]_vars, NEW f \in inited, CallsInit(f)
  PROVE  f \in Ids /\ folds[f].init
<1>1. /\ frames \in Seq(FrameRecord) /\ Len(frames') > Len(frames)
      /\ frames'[Len(frames')] = [kind |-> "Init", fold |-> f]
      /\ Len(frames) \in Nat
      /\ \A g : CallsInit(g) => g = f
  <2>1. \A g : CallsInit(g) => [kind |-> "Init", fold |-> g] = [kind |-> "Init", fold |-> f]
    BY DEF CallsInit
  <2>2. \A g : [kind |-> "Init", fold |-> g].fold = g
    OBVIOUS
  <2> QED
    BY <2>1, <2>2 DEF CallsInit, ShapeInv, FramesInv
<1>2. ~ (UNCHANGED frames) /\ (frames # <<>> => ~Return)
  BY <1>1, ReturnFacts
<1>3. ASSUME NEW frame, frame.kind # "Init", Call(frame) PROVE FALSE
  BY <1>1, <1>3 DEF Call
<1>4. frames # <<>> => \A frame : ~Become(frame)
  BY <1>1 DEF Become
<1>5. ASSUME NEW message PROVE ~Panics(message)
  BY <1>2 DEF Panics, Painting
<1>6. ASSUME NEW g \in Ids, NEW e \in Engines, Use(g, e) PROVE f \in Ids /\ folds[f].init
  <2>1. g \in cgoFolds /\ initGoType(g)
    BY <1>5, <1>6 DEF Use, ensureEngine
  <2> QED
    BY <2>1, InitGoTypeFacts
<1>7. ASSUME NEW g \in Ids, ScheduledInit(g) PROVE f \in Ids /\ folds[f].init
  BY <1>7, ScheduledInitDue
<1>8. ASSUME NEW g \in Ids, NEW e \in Engines, hookGoValuePaint(g, e) PROVE FALSE
  BY <1>2, <1>3, <1>8 DEF hookGoValuePaint
<1>9. ASSUME NEW v \in Values, Changed(v) PROVE FALSE
  BY <1>3, <1>9 DEF Changed
<1>10. ~ UNCHANGED vars
  BY <1>2 DEF vars
<1>11. ASSUME NEW e \in Engines, NewEngine(e) \/ Destroy(e) \/ EngineDeleted(e) PROVE FALSE
  BY <1>2, <1>11 DEF NewEngine, Destroy, EngineDeleted
<1>12. ASSUME NEW g \in Folds, NEW v \in Values,
              \/ hookGoValueTypeNew(g, v)
              \/ \E e \in Engines, owner \in {"cppOwner", "jsOwner"} : wrapGoValue(g, e, v, owner)
       PROVE  FALSE
  BY <1>2, <1>5, <1>12 DEF wrapGoValue, hookGoValueTypeNew
<1>13. ASSUME NEW g \in Ids, hookGoValueDestroyed(g) PROVE FALSE
  BY <1>2, <1>5, <1>13 DEF hookGoValueDestroyed
<1>14. ~InitReturns /\ ~PaintReturns /\ ~ChangedStep
  BY <1>2, <1>4
  DEF InitReturns, PaintReturns, Painting, ChangedStep, ChangedNextEngine, ChangedNextFold,
      ChangedDeferred, ChangedReturns, InChanged
<1> QED
  BY <1>6, <1>7, <1>8, <1>9, <1>10, <1>11, <1>12, <1>13, <1>14 DEF Next

(* Init is called once for an object, but inside itself. *)
THEOREM InitIsCalledOnce == Spec => InitOnce
<1>1. ASSUME ShapeInv, InitDueInv, [Next]_vars
      PROVE  [\A f \in inited : CallsInit(f) => InInit(f)]_vars
  BY <1>1, CallsAreDue DEF InitDueInv, CalledOnce
<1> QED
  BY <1>1, ShapeInvariance, InitDueInvariance, PTL DEF Spec, InitOnce

-----------------------------------------------------------------------------
(* Changed *)

(* Changed is at a fold of a list: behind it nothing is due any more. *)
Walk(fr) ==
  LET e == folds[fr.at].engine IN
  /\ fr.at # nil /\ e \in Engines /\ folds[fr.at].gvalue = fr.value
  /\ \E n, s : /\ ChainOf(e, fr.value, n, s)
               /\ \E k \in 1 .. n : s[k] = fr.at /\ \A j \in 1 .. k : s[j] \notin fr.due \ fr.reached

(* Where a fold that is due and not reached is met: among those put off; or,
   without an engine, at the end of the first list, when they are put off; or
   in the list of an engine yet to be visited, or ahead in this one. *)
Pending(fr, f) ==
  \/ f \in fr.later
  \/ /\ folds[f].engine = NoEngine
     /\ fr.walked = {} \/ (fr.listed /\ fr.walked = {folds[fr.at].engine})
  \/ /\ folds[f].engine # NoEngine
     /\ \/ folds[f].engine \notin fr.found \cap fr.walked
        \/ fr.listed /\ folds[f].engine = folds[fr.at].engine

(* QML runs only once an engine is visited: until then all are there. *)
Reaching(fr) ==
  /\ fr.due \subseteq WithValue(fr.value, cgoFolds)
  /\ fr.walked = {} => fr.found \subseteq engines /\ fr.found # {} /\ fr.at = nil
  /\ fr.listed => Walk(fr)
  /\ \A f \in fr.due \ fr.reached : Pending(fr, f)

ReachInv ==
  \A i \in 1 .. Len(frames), fr \in ChangedRecord :
    frames[i] = fr => Reaching(fr) /\ (fr.walked = {} => i = Len(frames))

(* What code run by a Go function in progress makes of the folds. *)
FoldsGrow ==
  \A g \in cgoFolds :
    /\ g \in cgoFolds' /\ folds'[g].gvalue = folds[g].gvalue
    /\ folds'[g].engine = folds[g].engine \/ folds[g].engine = NoEngine

LEMMA WalkGrows ==
  ASSUME ShapeInv, AllGrow, FoldsGrow, NEW fr \in ChangedRecord,
         fr.at \in cgoFolds, fr.due \subseteq cgoFolds, Walk(fr)
  PROVE  Walk(fr)' /\ folds'[fr.at].engine = folds[fr.at].engine
<1>0. PICK e \in Engines : e = folds[fr.at].engine
  BY DEF Walk
<1>1. /\ fr.at # nil /\ folds[fr.at].gvalue = fr.value /\ fr.value \in Values
      /\ folds'[fr.at].engine = e /\ folds'[fr.at].gvalue = fr.value
  BY <1>0, ValueFoldsAssumption DEF Walk, FoldsGrow, ChangedRecord
<1>2. PICK n, s : /\ ChainOf(e, fr.value, n, s)
                  /\ \E k \in 1 .. n : s[k] = fr.at /\ \A j \in 1 .. k : s[j] \notin fr.due \ fr.reached
  BY <1>0 DEF Walk
<1>3. PICK k \in 1 .. n : s[k] = fr.at /\ \A j \in 1 .. k : s[j] \notin fr.due \ fr.reached
  BY <1>2
<1>4. n \in Nat
  BY <1>2 DEF ChainOf, IsChain
<1>5. Grows(e, fr.value, n, s)
  BY <1>1, <1>2 DEF AllGrow
<1>6. ASSUME NEW m, NEW t, ChainOf(e, fr.value, m, t)',
             NEW l \in 1 .. m, t[l] = fr.at, \A j \in 1 .. l : t[j] \notin fr.due \ fr.reached
      PROVE  Walk(fr)'
  BY <1>1, <1>6 DEF Walk
<1>7. CASE ChainOf(e, fr.value, n, s)'
  BY <1>0, <1>1, <1>3, <1>6, <1>7
<1>8. ASSUME NEW f \in Folds \ cgoFolds, ChainOf(e, fr.value, n + 1, Prepended(f, n, s))'
      PROVE  Walk(fr)'
  <2> DEFINE t == Prepended(f, n, s)
  <2>1. /\ k + 1 \in 1 .. n + 1 /\ t[k + 1] = fr.at
        /\ \A j \in 1 .. k + 1 : IF j = 1 THEN t[j] = f ELSE t[j] = s[j - 1] /\ j - 1 \in 1 .. k
    BY <1>3, <1>4 DEF Prepended
  <2> HIDE DEF t
  <2>2. \A j \in 1 .. k + 1 : t[j] \notin fr.due \ fr.reached
    BY <1>3, <1>8, <2>1
  <2>3. ChainOf(e, fr.value, n + 1, t)'
    BY <1>8 DEF t
  <2> QED
    BY <1>6, <2>1, <2>2, <2>3
<1>9. ASSUME NEW f \in Folds, ChainOf(e, fr.value, n + 1, Appended(f, n, s))'
      PROVE  Walk(fr)'
  <2> DEFINE t == Appended(f, n, s)
  <2>1. /\ k \in 1 .. n + 1 /\ t[k] = fr.at
        /\ \A j \in 1 .. k : t[j] = s[j]
    BY <1>3, <1>4 DEF Appended
  <2> HIDE DEF t
  <2>2. ChainOf(e, fr.value, n + 1, t)'
    BY <1>9 DEF t
  <2> QED
    BY <1>3, <1>6, <2>1, <2>2
<1> QED
  BY <1>0, <1>1, <1>5, <1>7, <1>8, <1>9 DEF Grows

(* A Changed that has begun is not led astray by what code does. *)
LEMMA ReachingKept ==
  ASSUME ShapeInv, AllGrow, FoldsGrow, NEW fr \in ChangedRecord,
         fr.at \in cgoFolds \cup {nil}, fr.walked # {}, Reaching(fr)
  PROVE  Reaching(fr)'
<1>1. fr.due \subseteq cgoFolds /\ fr.due \subseteq WithValue(fr.value, cgoFolds)'
  BY DEF Reaching, WithValue, FoldsGrow
<1>2. fr.listed => Walk(fr) /\ fr.at \in cgoFolds
  BY DEF Reaching, Walk
<1>3. fr.listed => Walk(fr)' /\ folds'[fr.at].engine = folds[fr.at].engine
  BY <1>1, <1>2, WalkGrows
<1>4. ASSUME NEW f \in fr.due \ fr.reached PROVE Pending(fr, f)'
  <2>1. Pending(fr, f) /\ f \in cgoFolds
    BY <1>1 DEF Reaching
  <2>2. folds'[f].engine = folds[f].engine \/ folds[f].engine = NoEngine
    BY <2>1 DEF FoldsGrow
  <2> QED
    BY <1>3, <2>1, <2>2 DEF Pending
<1> QED
  BY <1>1, <1>3, <1>4 DEF Reaching

(* Code runs while every Changed in progress has begun. *)
LEMMA AllBegun ==
  ASSUME ShapeInv, ReachInv, frames # <<>>, CodeRuns \/ Top.kind # "Changed",
         NEW i \in 1 .. Len(frames), NEW fr \in ChangedRecord, frames[i] = fr
  PROVE  fr.walked # {}
<1>1. SUFFICES ASSUME fr.walked = {} PROVE FALSE
  OBVIOUS
<1>2. i = Len(frames) /\ fr.at = nil
  BY <1>1 DEF ReachInv, Reaching
<1>3. Top = fr /\ fr.kind = "Changed"
  BY <1>2 DEF Top, ChangedRecord
<1> QED
  BY <1>2, <1>3 DEF CodeRuns

(* What a frame other than the innermost, or one that has begun, knows. *)
LEMMA OldFrame ==
  ASSUME ShapeInv, ReachInv, AllGrow, FoldsGrow,
         NEW i \in 1 .. Len(frames), NEW fr \in ChangedRecord, frames[i] = fr,
         fr.walked # {}
  PROVE  Reaching(fr)'
<1>1. Reaching(fr) /\ FrameHolds(i) /\ fr.kind = "Changed"
  BY DEF ReachInv, ShapeInv, FramesInv, ChangedRecord
<1>2. fr.at \in cgoFolds \cup {nil}
  BY <1>1 DEF FrameHolds
<1> QED
  BY <1>1, <1>2, ReachingKept

(* A step of code that leaves the frames of Changed alone. *)
LEMMA CodeReach ==
  ASSUME ShapeInv, ReachInv, AllGrow, FoldsGrow, frames # <<>>,
         CodeRuns \/ Top.kind # "Changed",
         \A i \in 1 .. Len(frames') : frames'[i] \in ChangedRecord
                                        => i \in 1 .. Len(frames) /\ frames'[i] = frames[i]
  PROVE  ReachInv'
<1>1. SUFFICES ASSUME NEW i \in 1 .. Len(frames'), NEW fr \in ChangedRecord, frames'[i] = fr
               PROVE  Reaching(fr)' /\ fr.walked # {}
  BY DEF ReachInv
<1>2. i \in 1 .. Len(frames) /\ frames[i] = fr
  BY <1>1
<1>3. fr.walked # {}
  BY <1>2, AllBegun
<1> QED
  BY <1>2, <1>3, OldFrame

(* Nothing of the store changes. *)
LEMMA StillGrows ==
  ASSUME ShapeInv, UNCHANGED foldVars
  PROVE  AllGrow /\ FoldsGrow
  BY UnchangedStore DEF ShapeInv, foldVars, FoldsGrow

LEMMA NewFoldGrows ==
  ASSUME ShapeInv, NEW f \in Folds, NEW e, NEW v, NEW owner, NEW typed, NEW next,
         NewFold(f, e, v, owner, typed, next)
  PROVE  FoldsGrow
  BY NewFoldFacts DEF ShapeInv, StoreInv, StoreTyped, FoldsGrow, SameFold

LEMMA AttachGrows ==
  ASSUME ShapeInv, NEW f \in cgoFolds, NEW e \in Engines, folds[f].engine = NoEngine,
         Attach(f, e), UNCHANGED cgoFolds
  PROVE  FoldsGrow
  BY AttachFacts DEF ShapeInv, StoreInv, StoreTyped, FoldsGrow, SameFold

(* A call of anything but Changed, a return, or neither. *)
LeavesChanged ==
  \A i \in 1 .. Len(frames') : frames'[i] \in ChangedRecord
                                 => i \in 1 .. Len(frames) /\ frames'[i] = frames[i]

LEMMA CallLeaves ==
  ASSUME ShapeInv, NEW frame \in FrameRecord, frame.kind # "Changed", Call(frame)
  PROVE  LeavesChanged
<1>1. /\ frames \in Seq(FrameRecord)
      /\ Len(frames) \in Nat /\ Len(frames') = Len(frames) + 1
      /\ \A i \in 1 .. Len(frames) : frames'[i] = frames[i]
      /\ frames'[Len(frames')] = frame
  BY CallFacts DEF ShapeInv, FramesInv
<1>2. frame \notin ChangedRecord
  BY DEF ChangedRecord
<1>3. \A i \in 1 .. Len(frames') : i \in 1 .. Len(frames) \/ i = Len(frames')
  BY <1>1
<1> QED
  BY <1>1, <1>2, <1>3 DEF LeavesChanged

LEMMA ReturnLeaves ==
  ASSUME ShapeInv, frames # <<>>, Return
  PROVE  LeavesChanged
  BY ReturnFacts DEF ShapeInv, FramesInv, LeavesChanged

LEMMA PanicLeaves ==
  ASSUME ShapeInv, NEW message, Panics(message)
  PROVE  LeavesChanged
<1>1. CASE Painting
  BY <1>1, ReturnLeaves DEF Panics, Painting
<1>2. CASE ~Painting
  BY <1>2 DEF Panics, LeavesChanged
<1> QED
  BY <1>1, <1>2

LEMMA InitLeaves ==
  ASSUME ShapeInv, NEW f \in Folds, initGoType(f) \/ _initGoType(f)
  PROVE  LeavesChanged
<1> DEFINE frame == [kind |-> "Init", fold |-> f]
<1>1. frame \in FrameRecord /\ frame.kind # "Changed"
  BY DEF FrameRecord
<1>2. UNCHANGED frames \/ Call(frame)
  BY DEF initGoType, _initGoType
<1> HIDE DEF frame
<1> QED
  BY <1>1, <1>2, CallLeaves DEF LeavesChanged

(* Qt calls Go from its event loop, with no Changed in progress. *)
LEMMA LoopReach ==
  ASSUME ShapeInv, frames = <<>>, LeavesChanged
  PROVE  ReachInv'
<1>1. Len(frames) = 0
  OBVIOUS
<1>2. \A i \in 1 .. Len(frames') : frames'[i] \notin ChangedRecord
  BY <1>1 DEF LeavesChanged
<1> QED
  BY <1>2 DEF ReachInv

LEMMA ChangedReach ==
  ASSUME ShapeInv, ReachInv, NEW v \in Values, Changed(v)
  PROVE  ReachInv'
<1>0. PICK frame \in ChangedRecord :
        frame = [kind |-> "Changed", value |-> v, walked |-> {}, at |-> nil, later |-> {},
                 listed |-> FALSE, due |-> WithValue(v, cgoFolds), reached |-> {},
                 found |-> engines]
  BY DEF ChangedRecord, WithValue, ShapeInv, EnginesTyped, StoreInv, StoreTyped
<1>1. /\ CodeRuns /\ engines # {} /\ Call(frame) /\ UNCHANGED <<engines, foldVars>>
      /\ AllGrow /\ FoldsGrow
  BY <1>0, StillGrows DEF Changed, engineVars
<1>2. frame \in FrameRecord
  BY DEF FrameRecord
<1>3. Reaching(frame)'
  <2>1. WithValue(v, cgoFolds)' = WithValue(v, cgoFolds)
    BY <1>1 DEF WithValue, foldVars
  <2> QED
    BY <1>0, <1>1, <2>1 DEF Reaching, Pending
<1>4. frames \in Seq(FrameRecord)
  BY DEF ShapeInv, FramesInv
<1>5. ASSUME NEW i \in 1 .. Len(frames'), NEW fr \in ChangedRecord, frames'[i] = fr
      PROVE  Reaching(fr)' /\ (fr.walked = {} => i = Len(frames'))
  <2>1. CASE i = Len(frames')
    <3>1. fr = frame
      BY <1>1, <1>2, <1>4, <1>5, <2>1, CallFacts
    <3> QED
      BY <1>3, <2>1, <3>1
  <2>2. CASE i # Len(frames')
    <3>1. i \in 1 .. Len(frames) /\ frames[i] = fr
      BY <1>1, <1>2, <1>4, <1>5, <2>2, CallFacts
    <3>2. frames # <<>>
      BY <3>1
    <3>3. fr.walked # {}
      BY <1>1, <3>1, <3>2, AllBegun
    <3> QED
      BY <1>1, <3>1, <3>3, OldFrame
  <2> QED
    BY <2>1, <2>2
<1> QED
  BY <1>5 DEF ReachInv

LEMMA SameReaching ==
  ASSUME UNCHANGED <<engines, foldVars>>, NEW fr, Reaching(fr)
  PROVE  Reaching(fr)'
  BY DEF Reaching, Walk, Pending, WithValue, ChainOf, LiveFolds, foldVars

(* The innermost Changed goes on, those outside it wait. *)
LEMMA BecomeReach ==
  ASSUME ShapeInv, ReachInv, frames # <<>>, UNCHANGED <<engines, foldVars>>,
         NEW frame \in ChangedRecord, Become(frame), Reaching(frame)
  PROVE  ReachInv'
<1>1. AllGrow /\ FoldsGrow /\ frames \in Seq(FrameRecord) /\ frame \in FrameRecord
  BY StillGrows DEF ShapeInv, FramesInv, FrameRecord
<1>2. Reaching(frame)'
  BY SameReaching
<1>3. ASSUME NEW i \in 1 .. Len(frames'), NEW fr \in ChangedRecord, frames'[i] = fr
      PROVE  Reaching(fr)' /\ (fr.walked = {} => i = Len(frames'))
  <2>1. /\ i \in 1 .. Len(frames) /\ Len(frames') = Len(frames)
        /\ fr = IF i = Len(frames) THEN frame ELSE frames[i]
    BY <1>1, <1>3, BecomeFacts
  <2>2. CASE i = Len(frames)
    BY <1>2, <2>1, <2>2
  <2>3. CASE i # Len(frames)
    <3>1. frames[i] = fr /\ fr.walked # {}
      BY <2>1, <2>3 DEF ReachInv
    <3> QED
      BY <1>1, <2>1, <3>1, OldFrame
  <2> QED
    BY <2>2, <2>3
<1> QED
  BY <1>3 DEF ReachInv

(* The innermost Changed, with what the folds that are due need. *)
LEMMA TopReaches ==
  ASSUME ShapeInv, ReachInv, frames # <<>>, Top.kind = "Changed"
  PROVE  /\ Reaching(Top) /\ Top \in ChangedRecord /\ Top.at \in cgoFolds \cup {nil}
         /\ Top.listed => Top.at # nil
         /\ Top.later \subseteq cgoFolds /\ Top.due \subseteq cgoFolds
         /\ Top.reached \subseteq cgoFolds
         /\ \A f \in Top.due :
              /\ folds[f].gvalue = Top.value
              /\ f \notin typeNew => folds[f].engine \in Engines
                                     /\ f \in LiveFolds(folds[f].engine, Top.value)
              /\ f \in typeNew <=> folds[f].engine = NoEngine
<1>1. /\ Top = frames[Len(frames)] /\ Len(frames) \in 1 .. Len(frames)
      /\ Top \in ChangedRecord /\ Top.at \in cgoFolds \cup {nil}
      /\ Top.listed => Top.at # nil
      /\ Top.later \subseteq cgoFolds /\ Top.due \subseteq cgoFolds
      /\ Top.reached \subseteq cgoFolds
  BY TopFacts DEF ShapeInv
<1>2. Reaching(Top)
  BY <1>1 DEF ReachInv
<1>3. ASSUME NEW f \in Top.due
      PROVE  /\ folds[f].gvalue = Top.value
             /\ f \notin typeNew => folds[f].engine \in Engines
                                    /\ f \in LiveFolds(folds[f].engine, Top.value)
             /\ f \in typeNew <=> folds[f].engine = NoEngine
  <2>1. f \in cgoFolds /\ folds[f].gvalue = Top.value
    BY <1>2 DEF Reaching, WithValue
  <2>2. folds[f].engine \in Engines \cup {NoEngine}
    BY <2>1 DEF ShapeInv, StoreInv, StoreTyped, FoldRecord
  <2>3. f \in typeNew <=> folds[f].engine = NoEngine
    BY <2>1 DEF ShapeInv, StoreInv, StoreTyped
  <2> QED
    BY <2>1, <2>2, <2>3 DEF LiveFolds
<1> QED
  BY <1>1, <1>2, <1>3

LEMMA NextEngineReach ==
  ASSUME ShapeInv, ReachInv, NEW e \in Engines, ChangedNextEngine(e)
  PROVE  ReachInv'
<1>1. /\ frames # <<>> /\ Top.kind = "Changed" /\ Top.at = nil
      /\ UNCHANGED <<engines, foldVars>>
  BY DEF ChangedNextEngine, InChanged, engineVars
<1>2. PICK top \in ChangedRecord : top = Top
  BY <1>1, TopReaches
<1>3. PICK fold \in cgoFolds \cup {nil} : fold = values[e][top.value]
  BY <1>2, FirstFold DEF ChangedRecord, LiveFolds, ShapeInv
<1>4. /\ Reaching(top) /\ ~top.listed /\ top.later \subseteq cgoFolds
      /\ top.due \subseteq cgoFolds /\ top.reached \subseteq cgoFolds /\ top.at = nil
      /\ top.value \in Values
      /\ \A f \in top.due :
           /\ folds[f].gvalue = top.value
           /\ f \notin typeNew => folds[f].engine \in Engines
                                  /\ f \in LiveFolds(folds[f].engine, top.value)
           /\ f \in typeNew <=> folds[f].engine = NoEngine
  BY <1>1, <1>2, TopReaches DEF ChangedRecord
<1>5. PICK mid \in ChangedRecord :
        /\ mid = [top EXCEPT !.walked = @ \cup {e}]
        /\ mid.walked = top.walked \cup {e} /\ mid.at = nil /\ mid.later = top.later
        /\ mid.due = top.due /\ mid.reached = top.reached /\ mid.value = top.value
        /\ mid.found = top.found
  <2> DEFINE m == [top EXCEPT !.walked = @ \cup {e}]
  <2>1. /\ m \in ChangedRecord
        /\ m.walked = top.walked \cup {e} /\ m.at = nil /\ m.later = top.later
        /\ m.due = top.due /\ m.reached = top.reached /\ m.value = top.value
        /\ m.found = top.found
    BY <1>4 DEF ChangedRecord
  <2> QED
    BY <2>1
<1>6. PICK next \in ChangedRecord :
        /\ next = GoTo(fold, mid)
        /\ next.at = fold
        /\ next.listed <=> fold # nil
        /\ next.later = IF fold = nil THEN top.later \cup WithValue(top.value, typeNew)
                        ELSE top.later
        /\ next.reached = IF fold = nil THEN top.reached ELSE top.reached \cup {fold}
        /\ next.value = top.value /\ next.walked = top.walked \cup {e}
        /\ next.due = top.due /\ next.found = top.found
  <2>1. /\ mid.at \in cgoFolds \cup {nil} /\ mid.later \subseteq cgoFolds
        /\ mid.due \subseteq cgoFolds /\ mid.reached \subseteq cgoFolds
        /\ FramesInv /\ StoreInv
    BY <1>4, <1>5 DEF ShapeInv
  <2> DEFINE m == GoTo(fold, mid)
  <2>2. /\ m \in ChangedRecord
        /\ m.at = fold
        /\ m.listed <=> fold # nil
        /\ m.later = IF fold = nil THEN mid.later \cup WithValue(mid.value, typeNew)
                     ELSE mid.later
        /\ m.reached = IF fold = nil THEN mid.reached ELSE mid.reached \cup {fold}
        /\ m.value = mid.value /\ m.walked = mid.walked
        /\ m.due = mid.due /\ m.found = mid.found
    BY <2>1, GoToFacts
  <2> HIDE DEF m
  <2>3. m = GoTo(fold, mid)
    BY DEF m
  <2> QED
    BY <1>5, <2>2, <2>3
<1>7. Become(next)
  BY <1>2, <1>3, <1>5, <1>6 DEF ChangedNextEngine
<1>8. fold # nil => fold \in LiveFolds(e, top.value)
  BY <1>3, <1>4, FirstFold DEF ShapeInv
<1>9. ASSUME fold # nil PROVE Walk(next)
  <2>1. folds[fold].engine = e /\ folds[fold].gvalue = next.value
    BY <1>6, <1>8, <1>9 DEF LiveFolds
  <2>2. PICK n, s : ChainOf(e, next.value, n, s)
    BY <1>4, <1>6 DEF ShapeInv, StoreInv
  <2>3. 1 \in 1 .. n /\ s[1] = fold
    BY <1>3, <1>6, <1>9, <2>2 DEF ChainOf, IsChain
  <2>4. \A j \in 1 .. 1 : s[j] \notin next.due \ next.reached
    BY <1>6, <1>9, <2>3
  <2> QED
    BY <1>6, <1>9, <2>1, <2>2, <2>3, <2>4 DEF Walk
<1>10. ASSUME NEW f \in next.due \ next.reached PROVE Pending(next, f)
  <2>1. f \in top.due \ top.reached /\ Pending(top, f)
    BY <1>4, <1>6 DEF Reaching
  <2>2. CASE f \in top.later
    BY <1>6, <2>2 DEF Pending
  <2>3. CASE folds[f].engine = NoEngine /\ top.walked = {}
    <3>1. CASE fold = nil
      BY <1>4, <1>6, <2>1, <2>3, <3>1 DEF Pending, WithValue
    <3>2. CASE fold # nil
      BY <1>6, <1>8, <2>3, <3>2 DEF Pending, LiveFolds
    <3> QED
      BY <3>1, <3>2
  <2>4. CASE folds[f].engine # NoEngine /\ folds[f].engine \notin top.found \cap top.walked
    <3>1. CASE folds[f].engine # e
      BY <1>6, <2>4, <3>1 DEF Pending
    <3>2. CASE folds[f].engine = e
      <4>1. f \in LiveFolds(e, top.value)
        BY <1>4, <2>1, <2>4, <3>2
      <4>2. fold # nil
        BY <1>3, <1>4, <4>1, FirstFold DEF ShapeInv
      <4> QED
        BY <1>6, <1>8, <2>4, <3>2, <4>2 DEF Pending, LiveFolds
    <3> QED
      BY <3>1, <3>2
  <2> QED
    BY <1>4, <2>1, <2>2, <2>3, <2>4 DEF Pending
<1>11. Reaching(next)
  BY <1>4, <1>6, <1>9, <1>10 DEF Reaching
<1> QED
  BY <1>1, <1>7, <1>11, BecomeReach

LEMMA NextFoldReach ==
  ASSUME ShapeInv, ReachInv, ChangedNextFold
  PROVE  ReachInv'
<1>1. /\ frames # <<>> /\ Top.kind = "Changed" /\ Top.listed
      /\ UNCHANGED <<engines, foldVars>>
  BY DEF ChangedNextFold, InChanged, engineVars
<1>2. PICK top \in ChangedRecord : top = Top
  BY <1>1, TopReaches
<1>3. /\ Reaching(top) /\ top.listed /\ top.later \subseteq cgoFolds
      /\ top.due \subseteq cgoFolds /\ top.reached \subseteq cgoFolds
      /\ top.at \in cgoFolds /\ top.at # nil /\ Walk(top)
      /\ \A f \in top.due :
           /\ folds[f].gvalue = top.value
           /\ f \notin typeNew => folds[f].engine \in Engines
                                  /\ f \in LiveFolds(folds[f].engine, top.value)
           /\ f \in typeNew <=> folds[f].engine = NoEngine
  BY <1>1, <1>2, TopReaches DEF Reaching
<1>4. PICK fold \in cgoFolds \cup {nil} : fold = folds[top.at].next
  BY <1>3, Neighbours DEF ShapeInv
<1>5. PICK next \in ChangedRecord :
        /\ next = GoTo(fold, top)
        /\ next.at = fold
        /\ next.listed <=> fold # nil
        /\ next.later = IF fold = nil THEN top.later \cup WithValue(top.value, typeNew)
                        ELSE top.later
        /\ next.reached = IF fold = nil THEN top.reached ELSE top.reached \cup {fold}
        /\ next.value = top.value /\ next.walked = top.walked
        /\ next.due = top.due /\ next.found = top.found
  BY <1>3, GoToFacts DEF ShapeInv
<1>6. Become(next)
  BY <1>2, <1>4, <1>5 DEF ChangedNextFold
<1>7. PICK e \in Engines : e = folds[top.at].engine
  BY <1>3 DEF Walk
<1>8. PICK n, s : /\ ChainOf(e, top.value, n, s)
                  /\ \E k \in 1 .. n : s[k] = top.at /\ \A j \in 1 .. k : s[j] \notin top.due \ top.reached
  BY <1>3, <1>7 DEF Walk
<1>9. PICK k \in 1 .. n : s[k] = top.at /\ \A j \in 1 .. k : s[j] \notin top.due \ top.reached
  BY <1>8
<1>10. /\ n \in Nat /\ fold = IF k = n THEN nil ELSE s[k + 1]
       /\ \A i \in 1 .. n : s[i] \in LiveFolds(e, top.value)
       /\ \A f \in LiveFolds(e, top.value) : \E i \in 1 .. n : s[i] = f
  BY <1>4, <1>8, <1>9 DEF ChainOf, IsChain
<1>11. k # n => /\ k + 1 \in 1 .. n /\ fold = s[k + 1] /\ fold \in LiveFolds(e, top.value)
                /\ fold # nil
  BY <1>10, ValueFoldsAssumption DEF LiveFolds, ShapeInv, StoreInv, StoreTyped
<1>12. fold # nil => k # n /\ folds[fold].engine = e /\ folds[fold].gvalue = top.value
  BY <1>10, <1>11 DEF LiveFolds
<1>13. ASSUME fold # nil PROVE Walk(next)
  <2>1. \A j \in 1 .. k + 1 : s[j] \notin next.due \ next.reached
    <3>1. \A j \in 1 .. k + 1 : j \in 1 .. k \/ j = k + 1
      BY <1>10
    <3> QED
      BY <1>5, <1>9, <1>11, <1>12, <1>13, <3>1
  <2> QED
    BY <1>5, <1>8, <1>11, <1>12, <1>13, <2>1 DEF Walk
<1>14. ASSUME NEW f \in next.due \ next.reached PROVE Pending(next, f)
  <2>1. f \in top.due \ top.reached /\ Pending(top, f)
    BY <1>3, <1>5 DEF Reaching
  <2>2. CASE f \in top.later
    BY <1>5, <2>2 DEF Pending
  <2>3. CASE folds[f].engine = NoEngine /\ (top.walked = {} \/ top.walked = {e})
    <3>1. CASE fold = nil
      BY <1>3, <1>5, <2>1, <2>3, <3>1 DEF Pending, WithValue
    <3>2. CASE fold # nil
      BY <1>5, <1>12, <2>3, <3>2 DEF Pending
    <3> QED
      BY <3>1, <3>2
  <2>4. CASE folds[f].engine # NoEngine /\ folds[f].engine \notin top.found \cap top.walked
    BY <1>5, <2>4 DEF Pending
  <2>5. CASE folds[f].engine # NoEngine /\ folds[f].engine = e
    <3>1. f \in LiveFolds(e, top.value)
      BY <1>3, <2>1, <2>5
    <3>2. PICK i \in 1 .. n : s[i] = f
      BY <1>10, <3>1
    <3>3. k # n
      BY <1>9, <1>10, <2>1, <3>2
    <3> QED
      BY <1>5, <1>11, <1>12, <2>5, <3>3 DEF Pending
  <2> QED
    BY <1>7, <2>1, <2>2, <2>3, <2>4, <2>5 DEF Pending
<1>15. Reaching(next)
  <2>1. top.walked # {} /\ next.due \subseteq WithValue(next.value, cgoFolds)
    BY <1>3, <1>5 DEF Reaching
  <2> QED
    BY <1>5, <1>13, <1>14, <2>1 DEF Reaching
<1> QED
  BY <1>1, <1>6, <1>15, BecomeReach

(* When all engines are done, at least one was visited. *)
LEMMA DoneHasBegun ==
  ASSUME ShapeInv, ReachInv, InChanged, EnginesDone
  PROVE  Top.walked # {}
  BY TopReaches DEF InChanged, EnginesDone, Reaching

LEMMA DeferredReach ==
  ASSUME ShapeInv, ReachInv, NEW f \in Ids, ChangedDeferred(f)
  PROVE  ReachInv'
<1>1. /\ frames # <<>> /\ Top.kind = "Changed" /\ ~Top.listed /\ Top.walked # {}
      /\ f \in Top.later /\ UNCHANGED <<engines, foldVars>>
  BY DoneHasBegun DEF ChangedDeferred, InChanged, EnginesDone, engineVars
<1>2. PICK top \in ChangedRecord : top = Top
  BY <1>1, TopReaches
<1>3. PICK next \in ChangedRecord :
        /\ next = [top EXCEPT !.at = f, !.later = @ \ {f}, !.reached = @ \cup {f}]
        /\ next.later = top.later \ {f} /\ next.reached = top.reached \cup {f}
        /\ next.listed = top.listed /\ next.walked = top.walked /\ next.found = top.found
        /\ next.due = top.due /\ next.value = top.value
  <2> DEFINE m == [top EXCEPT !.at = f, !.later = @ \ {f}, !.reached = @ \cup {f}]
  <2>1. f \in Folds
    BY DEF ShapeInv, StoreInv, StoreTyped
  <2>2. /\ m \in ChangedRecord
        /\ m.later = top.later \ {f} /\ m.reached = top.reached \cup {f}
        /\ m.listed = top.listed /\ m.walked = top.walked /\ m.found = top.found
        /\ m.due = top.due /\ m.value = top.value
    BY <2>1 DEF ChangedRecord
  <2> QED
    BY <2>2
<1>4. Become(next)
  BY <1>2, <1>3 DEF ChangedDeferred
<1>5. Reaching(top) /\ ~top.listed /\ top.walked # {}
  BY <1>1, <1>2, TopReaches
<1>6. ASSUME NEW g \in next.due \ next.reached PROVE Pending(next, g)
  <2>1. Pending(top, g) /\ g # f
    BY <1>3, <1>5 DEF Reaching
  <2> QED
    BY <1>3, <1>5, <2>1 DEF Pending
<1>7. Reaching(next)
  BY <1>3, <1>5, <1>6 DEF Reaching
<1> QED
  BY <1>1, <1>4, <1>7, BecomeReach

LEMMA InitReach == Init => ReachInv
  BY DEF Init, ReachInv

LEMMA UseReach ==
  ASSUME ShapeInv, ReachInv, NEW f \in Ids, NEW e \in Engines, Use(f, e)
  PROVE  ReachInv'
<1>1. CodeRuns /\ f \in cgoFolds /\ f \in Folds /\ AllGrow
  BY UseStep DEF Use, ShapeInv, StoreInv, StoreTyped
<1>2. FoldsGrow
  BY <1>1, StillGrows, AttachGrows DEF Use, ensureEngine, Panics, foldVars
<1>3. LeavesChanged
  BY <1>1, InitLeaves, PanicLeaves DEF Use, ensureEngine
<1> QED
  BY <1>1, <1>2, <1>3, CodeReach, LoopReach DEF LeavesChanged

LEMMA ReachStep ==
  ASSUME ShapeInv, ReachInv, [Next]_vars
  PROVE  ReachInv'
<1>1. CASE UNCHANGED vars
  <2>1. UNCHANGED <<engines, foldVars>> /\ UNCHANGED frames
    BY <1>1 DEF vars, engineVars
  <2> QED
    BY <2>1, SameReaching DEF ReachInv
<1>2. ASSUME FoldsGrow, AllGrow, CodeRuns \/ frames = <<>> \/ Top.kind # "Changed", LeavesChanged
      PROVE  ReachInv'
  BY <1>2, CodeReach, LoopReach DEF LeavesChanged
<1>3. ASSUME UNCHANGED foldVars, CodeRuns \/ frames = <<>> \/ Top.kind # "Changed", LeavesChanged
      PROVE  ReachInv'
  BY <1>2, <1>3, StillGrows
<1>4. UNCHANGED frames => LeavesChanged
  BY DEF LeavesChanged
<1>5. ASSUME NEW e \in Engines, NewEngine(e) \/ Destroy(e) \/ EngineDeleted(e)
      PROVE  ReachInv'
  BY <1>3, <1>4, <1>5 DEF NewEngine, Destroy, EngineDeleted, InLoop
<1>6. ASSUME NEW f \in Folds, NEW v \in Values, NEW e \in Engines,
             NEW owner \in {"cppOwner", "jsOwner"}, wrapGoValue(f, e, v, owner)
      PROVE  ReachInv'
  <2>1. CASE Panics("cannot allocate new objects while painting")
    BY <1>3, <1>6, <2>1, PanicLeaves DEF Panics, wrapGoValue
  <2>2. CASE NewFold(f, e, v, owner, FALSE, values[e][v]) /\ UNCHANGED frames
    BY <1>2, <1>4, <1>6, <2>2, WrapStep, NewFoldGrows DEF wrapGoValue
  <2> QED
    BY <1>6, <2>1, <2>2 DEF wrapGoValue
<1>7. ASSUME NEW f \in Folds, NEW v \in Values, hookGoValueTypeNew(f, v)
      PROVE  ReachInv'
  BY <1>2, <1>4, <1>7, TypeNewStep, NewFoldGrows DEF hookGoValueTypeNew
<1>8. ASSUME NEW f \in Ids, NEW e \in Engines, hookGoValuePaint(f, e)
      PROVE  ReachInv'
  <2>1. frames = <<>> /\ (UNCHANGED frames \/ Call([kind |-> "Paint"]))
    BY <1>8 DEF hookGoValuePaint, InLoop
  <2>2. [kind |-> "Paint"] \in FrameRecord /\ [kind |-> "Paint"].kind # "Changed"
    BY DEF FrameRecord
  <2> QED
    BY <1>4, <2>1, <2>2, CallLeaves, LoopReach
<1>9. ASSUME NEW f \in Ids, ScheduledInit(f) \/ hookGoValueDestroyed(f)
      PROVE  ReachInv'
  <2>1. frames = <<>> /\ f \in Folds
    BY <1>9 DEF ScheduledInit, hookGoValueDestroyed, InLoop, ShapeInv, StoreInv, StoreTyped
  <2>2. UNCHANGED frames \/ _initGoType(f)
    BY <1>9, <2>1 DEF ScheduledInit, hookGoValueDestroyed, Panics, Painting
  <2> QED
    BY <1>4, <2>1, <2>2, InitLeaves, LoopReach
<1>10. ASSUME InitReturns
       PROVE  ReachInv'
  <2>1. frames # <<>> /\ Top.kind # "Changed" /\ Return
    BY <1>10 DEF InitReturns
  <2>2. FoldsGrow
    <3>1. folds \in [Ids -> FoldRecord] /\ cgoFolds \subseteq Ids
      BY DEF ShapeInv, StoreInv, StoreTyped
    <3>2. CASE Top.fold \in cgoFolds
      BY <1>10, <3>1, <3>2 DEF InitReturns, FoldsGrow, FoldRecord
    <3>3. CASE Top.fold \notin cgoFolds
      BY <1>10, <3>1, <3>3 DEF InitReturns, FoldsGrow, Without
    <3> QED
      BY <3>2, <3>3
  <2> QED
    BY <1>2, <1>10, <2>1, <2>2, InitReturnsStep, ReturnLeaves
<1>11. ASSUME PaintReturns
       PROVE  ReachInv'
  BY <1>3, <1>11, ReturnLeaves DEF PaintReturns, Painting
<1>12. ASSUME ChangedReturns
       PROVE  ReachInv'
  <2>1. /\ InChanged /\ EnginesDone /\ Return /\ frames # <<>> /\ Top.kind = "Changed"
        /\ UNCHANGED foldVars
    BY <1>12 DEF ChangedReturns, InChanged
  <2>2. SUFFICES ASSUME NEW i \in 1 .. Len(frames'), NEW fr \in ChangedRecord, frames'[i] = fr
                 PROVE  Reaching(fr)' /\ fr.walked # {}
    BY DEF ReachInv
  <2>3. i \in 1 .. Len(frames) /\ frames[i] = fr /\ i # Len(frames)
    BY <2>1, <2>2, ReturnFacts DEF ShapeInv, FramesInv
  <2>4. fr.walked # {}
    BY <2>3 DEF ReachInv
  <2> QED
    BY <2>1, <2>3, <2>4, StillGrows, OldFrame
<1> QED
  BY <1>1, <1>5, <1>6, <1>7, <1>8, <1>9, <1>10, <1>11, <1>12, UseReach, ChangedReach,
     NextEngineReach, NextFoldReach, DeferredReach DEF Next, ChangedStep

THEOREM ReachInvariance == Spec => []ReachInv
  BY ShapeInvariance, InitReach, ReachStep, PTL DEF Spec

(* Changed, when it returns, has reached every object its value had when it
   was called, but those in an engine made meanwhile. *)
THEOREM ReachesAll == Spec => []ChangedReachesAll
<1>1. ASSUME ShapeInv, UseInv, ReachInv PROVE ChangedReachesAll
  <2>1. SUFFICES ASSUME InChanged, EnginesDone, Top.later = {}, NEW f \in Top.due \ Top.reached
                 PROVE  folds[f].engine \in Engines \ Top.found
    BY DEF ChangedReachesAll
  <2>2. /\ Pending(Top, f) /\ Top.walked # {} /\ ~Top.listed /\ f \in cgoFolds
        /\ f \notin typeNew => folds[f].engine \in Engines
        /\ f \in typeNew <=> folds[f].engine = NoEngine
    BY <1>1, <2>1, TopReaches, DoneHasBegun DEF Reaching, InChanged, EnginesDone
  <2>3. f \notin typeNew /\ folds[f].engine \notin Top.found \cap Top.walked
    BY <2>1, <2>2 DEF Pending
  <2>4. folds[f].engine \in engines
    BY <1>1, <2>2, <2>3 DEF UseInv, EngineKeptWhileNeeded
  <2> QED
    BY <2>1, <2>2, <2>3, <2>4 DEF EnginesDone
<1> QED
  BY <1>1, ShapeInvariance, UseInvariance, ReachInvariance, PTL
=============================================================================
