------------------------ MODULE InvoiceMatcherProofs ------------------------
(***************************************************************************)
(* Proofs about InvoiceMatcher, for every set of invoices, keys and        *)
(* amounts, lists of any length.                                           *)
(*                                                                         *)
(* A pass is a fold over a list: SellerRun, BuyerRun and PhantomRun turn   *)
(* it into a run t[0], t[1], ... of its step, and an induction on that run *)
(* gives what the pass leaves (SellerPassLeaves, BuyerPassLeaves,          *)
(* PhantomsAre).  With Lists, the inductive invariant of the declarations, *)
(* ResultsAre says what each result is; the three properties follow.       *)
(***************************************************************************)
EXTENDS InvoiceMatcher, FoldFacts, FiniteSetTheorems, SequenceTheorems, TLAPS

-----------------------------------------------------------------------------
(* The passes, invoice by invoice.                                         *)

Acc == [index : Seq(Invoices), dup : [Invoices -> BOOLEAN]]

\* A pass over a list goes from one index and marks to the next.
LEMMA PassTypes ==
    ASSUME NEW acc \in Acc, NEW i \in Invoices
    PROVE  IndexSeller(acc, i) \in Acc /\ IndexBuyer(acc, i) \in Acc
<1>1. acc.index \in Seq(Invoices) /\ acc.dup \in [Invoices -> BOOLEAN]
  BY DEF Acc
<1>2. [index |-> Append(acc.index, i), dup |-> [acc.dup EXCEPT ![i] = FALSE]] \in Acc
  BY <1>1 DEF Acc
<1>3. \A x : [acc EXCEPT !.dup[x] = TRUE] \in Acc
  BY <1>1 DEF Acc
<1> QED  BY <1>2, <1>3 DEF IndexSeller, IndexBuyer

Unmarked == [index |-> <<>>, dup |-> [i \in Invoices |-> FALSE]]

\* The pass over the seller's list is a run of IndexSeller, an invoice after
\* the other.
LEMMA SellerRun ==
    ASSUME NEW q \in Seq(Invoices)
    PROVE  \E t : /\ t[0] = Unmarked
                  /\ \A k \in 1 .. Len(q) : t[k] = IndexSeller(t[k - 1], q[k])
                  /\ SellerPass(q) = t[Len(q)]
<1> DEFINE Iter(h) == h = [s \in SUBSET (DOMAIN q) |->
                             IF s = {} THEN Unmarked
                             ELSE IndexSeller(h[s \ {Max(s)}], q[Max(s)])]
           h == CHOOSE g : Iter(g)
           t == [k \in 0 .. Len(q) |-> h[1 .. k]]
           F == [p \in Acc \X Invoices |-> IndexSeller(p[1], p[2])]
<1>1. SellerPass(q) = h[DOMAIN q]
  BY DEF SellerPass, FoldLeft, MapThenFoldSet, Unmarked
<1>2. /\ F \in [Acc \X Invoices -> Acc] /\ Unmarked \in Acc
      /\ \A a \in Acc, i \in Invoices : F[<<a, i>>] = IndexSeller(a, i)
  BY PassTypes DEF Unmarked, Acc
<1>3. \E g : Iter(g)
  <2> HIDE DEF F
  <2>1. PICK g \in [SUBSET (DOMAIN q) -> Acc] : IsFoldLeft(g, q, Unmarked, F)
    BY <1>2, FoldLeftExists
  <2>2. \A s \in SUBSET (DOMAIN q) : s # {} => q[Max(s)] \in Invoices /\ g[s \ {Max(s)}] \in Acc
    BY PartsOfSequence
  <2>3. \A s \in SUBSET (DOMAIN q) :
           g[s] = IF s = {} THEN Unmarked ELSE IndexSeller(g[s \ {Max(s)}], q[Max(s)])
    BY <1>2, <2>1, <2>2 DEF IsFoldLeft
  <2>4. Iter(g)
    BY <2>3
  <2> QED  BY <2>4
<1>4. Iter(h)
  <2> HIDE DEF Iter
  <2> QED  BY <1>3
<1> HIDE DEF h
<1>5. \A s \in SUBSET (DOMAIN q) :
         h[s] = IF s = {} THEN Unmarked ELSE IndexSeller(h[s \ {Max(s)}], q[Max(s)])
  BY <1>4
<1>6. h[{}] = Unmarked /\ \A k \in 1 .. Len(q) : h[1 .. k] = IndexSeller(h[1 .. (k - 1)], q[k])
  <2>1. ASSUME NEW k \in 1 .. Len(q)
        PROVE  h[1 .. k] = IndexSeller(h[1 .. (k - 1)], q[k])
    <3> DEFINE s == 1 .. k
    <3>1. s \in SUBSET (DOMAIN q) /\ s # {} /\ Max(s) = k /\ s \ {k} = 1 .. (k - 1)
      BY PartsOfSequence
    <3> HIDE DEF s
    <3>2. h[s] = IndexSeller(h[1 .. (k - 1)], q[k])
      BY <1>5, <3>1
    <3> QED  BY <3>2 DEF s
  <2> QED  BY <1>5, <2>1
<1>7. t[0] = Unmarked
  BY <1>6, PartsOfSequence
<1>8. \A k \in 1 .. Len(q) : t[k] = IndexSeller(t[k - 1], q[k])
  BY <1>6
<1>9. SellerPass(q) = t[Len(q)]
  BY <1>1, PartsOfSequence
<1> QED  BY <1>7, <1>8, <1>9

\* ... and that over the buyer's list one of IndexBuyer, from the marks of
\* the seller's.
LEMMA BuyerRun ==
    ASSUME NEW q \in Seq(Invoices), NEW start \in Acc
    PROVE  \E t : /\ t[0] = start
                  /\ \A k \in 1 .. Len(q) : t[k] = IndexBuyer(t[k - 1], q[k])
                  /\ FoldLeft(IndexBuyer, start, q) = t[Len(q)]
<1> DEFINE Iter(h) == h = [s \in SUBSET (DOMAIN q) |->
                             IF s = {} THEN start
                             ELSE IndexBuyer(h[s \ {Max(s)}], q[Max(s)])]
           h == CHOOSE g : Iter(g)
           t == [k \in 0 .. Len(q) |-> h[1 .. k]]
           F == [p \in Acc \X Invoices |-> IndexBuyer(p[1], p[2])]
<1>1. FoldLeft(IndexBuyer, start, q) = h[DOMAIN q]
  BY DEF FoldLeft, MapThenFoldSet
<1>2. /\ F \in [Acc \X Invoices -> Acc] /\ start \in Acc
      /\ \A a \in Acc, i \in Invoices : F[<<a, i>>] = IndexBuyer(a, i)
  BY PassTypes
<1>3. \E g : Iter(g)
  <2> HIDE DEF F
  <2>1. PICK g \in [SUBSET (DOMAIN q) -> Acc] : IsFoldLeft(g, q, start, F)
    BY <1>2, FoldLeftExists
  <2>2. \A s \in SUBSET (DOMAIN q) : s # {} => q[Max(s)] \in Invoices /\ g[s \ {Max(s)}] \in Acc
    BY PartsOfSequence
  <2>3. \A s \in SUBSET (DOMAIN q) :
           g[s] = IF s = {} THEN start ELSE IndexBuyer(g[s \ {Max(s)}], q[Max(s)])
    BY <1>2, <2>1, <2>2 DEF IsFoldLeft
  <2>4. Iter(g)
    BY <2>3
  <2> QED  BY <2>4
<1>4. Iter(h)
  <2> HIDE DEF Iter
  <2> QED  BY <1>3
<1> HIDE DEF h
<1>5. \A s \in SUBSET (DOMAIN q) :
         h[s] = IF s = {} THEN start ELSE IndexBuyer(h[s \ {Max(s)}], q[Max(s)])
  BY <1>4
<1>6. h[{}] = start /\ \A k \in 1 .. Len(q) : h[1 .. k] = IndexBuyer(h[1 .. (k - 1)], q[k])
  <2>1. ASSUME NEW k \in 1 .. Len(q)
        PROVE  h[1 .. k] = IndexBuyer(h[1 .. (k - 1)], q[k])
    <3> DEFINE s == 1 .. k
    <3>1. s \in SUBSET (DOMAIN q) /\ s # {} /\ Max(s) = k /\ s \ {k} = 1 .. (k - 1)
      BY PartsOfSequence
    <3> HIDE DEF s
    <3>2. h[s] = IndexBuyer(h[1 .. (k - 1)], q[k])
      BY <1>5, <3>1
    <3> QED  BY <3>2 DEF s
  <2> QED  BY <1>5, <2>1
<1>7. t[0] = start
  BY <1>6, PartsOfSequence
<1>8. \A k \in 1 .. Len(q) : t[k] = IndexBuyer(t[k - 1], q[k])
  BY <1>6
<1>9. FoldLeft(IndexBuyer, start, q) = t[Len(q)]
  BY <1>1, PartsOfSequence
<1> QED  BY <1>7, <1>8, <1>9

\* An invoice of the buyer's index is kept if the seller's, x, does not have
\* its key.
KeepNew(x, acc, i) == IF HasKey(x, Key(i)) THEN acc ELSE Append(acc, i)

\* Unprocessed is a run of KeepNew.
LEMMA PhantomRun ==
    ASSUME NEW q \in Seq(Invoices), NEW x
    PROVE  \E t : /\ t[0] = <<>>
                  /\ \A k \in 1 .. Len(q) : t[k] = KeepNew(x, t[k - 1], q[k])
                  /\ Unprocessed(q, x) = t[Len(q)]
<1> DEFINE Iter(h) == h = [s \in SUBSET (DOMAIN q) |->
                             IF s = {} THEN <<>>
                             ELSE KeepNew(x, h[s \ {Max(s)}], q[Max(s)])]
           h == CHOOSE g : Iter(g)
           t == [k \in 0 .. Len(q) |-> h[1 .. k]]
           F == [p \in Seq(Invoices) \X Invoices |-> KeepNew(x, p[1], p[2])]
<1>1. Unprocessed(q, x) = h[DOMAIN q]
  BY DEF Unprocessed, KeepNew, FoldLeft, MapThenFoldSet
<1>2. /\ F \in [Seq(Invoices) \X Invoices -> Seq(Invoices)] /\ <<>> \in Seq(Invoices)
      /\ \A a \in Seq(Invoices), i \in Invoices : F[<<a, i>>] = KeepNew(x, a, i)
  BY DEF KeepNew
<1>3. \E g : Iter(g)
  <2> HIDE DEF F
  <2>1. PICK g \in [SUBSET (DOMAIN q) -> Seq(Invoices)] : IsFoldLeft(g, q, <<>>, F)
    BY <1>2, FoldLeftExists
  <2>2. \A s \in SUBSET (DOMAIN q) : s # {} => q[Max(s)] \in Invoices /\ g[s \ {Max(s)}] \in Seq(Invoices)
    BY PartsOfSequence
  <2>3. \A s \in SUBSET (DOMAIN q) :
           g[s] = IF s = {} THEN <<>> ELSE KeepNew(x, g[s \ {Max(s)}], q[Max(s)])
    BY <1>2, <2>1, <2>2 DEF IsFoldLeft
  <2>4. Iter(g)
    BY <2>3
  <2> QED  BY <2>4
<1>4. Iter(h)
  <2> HIDE DEF Iter
  <2> QED  BY <1>3
<1> HIDE DEF h
<1>5. \A s \in SUBSET (DOMAIN q) :
         h[s] = IF s = {} THEN <<>> ELSE KeepNew(x, h[s \ {Max(s)}], q[Max(s)])
  BY <1>4
<1>6. h[{}] = <<>> /\ \A k \in 1 .. Len(q) : h[1 .. k] = KeepNew(x, h[1 .. (k - 1)], q[k])
  <2>1. ASSUME NEW k \in 1 .. Len(q)
        PROVE  h[1 .. k] = KeepNew(x, h[1 .. (k - 1)], q[k])
    <3> DEFINE s == 1 .. k
    <3>1. s \in SUBSET (DOMAIN q) /\ s # {} /\ Max(s) = k /\ s \ {k} = 1 .. (k - 1)
      BY PartsOfSequence
    <3> HIDE DEF s
    <3>2. h[s] = KeepNew(x, h[1 .. (k - 1)], q[k])
      BY <1>5, <3>1
    <3> QED  BY <3>2 DEF s
  <2> QED  BY <1>5, <2>1
<1>7. t[0] = <<>>
  BY <1>6, PartsOfSequence
<1>8. \A k \in 1 .. Len(q) : t[k] = KeepNew(x, t[k - 1], q[k])
  BY <1>6
<1>9. Unprocessed(q, x) = t[Len(q)]
  BY <1>1, PartsOfSequence
<1> QED  BY <1>7, <1>8, <1>9

-----------------------------------------------------------------------------
(* What the passes leave.                                                  *)

\* The sequence x is an index of the first k invoices of q: the first of each
\* key, and each key once.
IsIndex(x, q, k) ==
    /\ x \in Seq(Invoices)
    /\ \A n \in DOMAIN x : \E m \in 1 .. k :
           x[n] = q[m] /\ \A l \in 1 .. (m - 1) : Key(q[l]) # Key(q[m])
    /\ \A m \in 1 .. k : HasKey(x, Key(q[m]))
    /\ \A n, m \in DOMAIN x : Key(x[n]) = Key(x[m]) => n = m

\* An index goes on with the next invoice if its key is new.
LEMMA IndexStep ==
    ASSUME NEW q \in Seq(Invoices), NEW k \in 1 .. Len(q), NEW x, IsIndex(x, q, k - 1)
    PROVE  /\ HasKey(x, Key(q[k])) => IsIndex(x, q, k)
           /\ ~HasKey(x, Key(q[k])) => IsIndex(Append(x, q[k]), q, k)
<1>0. /\ x \in Seq(Invoices) /\ q[k] \in Invoices /\ k \in Nat /\ Len(q) \in Nat
      /\ 1 .. k = (1 .. (k - 1)) \cup {k}
  BY DEF IsIndex
<1>1. ASSUME HasKey(x, Key(q[k]))  PROVE IsIndex(x, q, k)
  BY <1>0, <1>1 DEF IsIndex
<1>2. ASSUME ~HasKey(x, Key(q[k]))  PROVE IsIndex(Append(x, q[k]), q, k)
  <2> DEFINE y == Append(x, q[k])
  <2>1. /\ y \in Seq(Invoices) /\ DOMAIN y = DOMAIN x \cup {Len(x) + 1}
        /\ Len(x) + 1 \notin DOMAIN x
        /\ \A n \in DOMAIN x : y[n] = x[n]
        /\ y[Len(x) + 1] = q[k]
    BY <1>0
  <2> HIDE DEF y
  <2>2. \A l \in 1 .. (k - 1) : Key(q[l]) # Key(q[k])
    BY <1>2 DEF IsIndex
  <2>3. ASSUME NEW n \in DOMAIN y
        PROVE  \E m \in 1 .. k : y[n] = q[m] /\ \A l \in 1 .. (m - 1) : Key(q[l]) # Key(q[m])
    <3>1. CASE n \in DOMAIN x
      BY <1>0, <2>1, <3>1 DEF IsIndex
    <3>2. CASE n = Len(x) + 1
      BY <1>0, <2>1, <2>2, <3>2
    <3> QED  BY <2>1, <3>1, <3>2
  <2>4. ASSUME NEW m \in 1 .. k  PROVE HasKey(y, Key(q[m]))
    <3>1. CASE m = k
      BY <2>1, <3>1 DEF HasKey
    <3>2. CASE m \in 1 .. (k - 1)
      <4>1. PICK n \in DOMAIN x : Key(x[n]) = Key(q[m])
        BY <3>2 DEF IsIndex, HasKey
      <4> QED  BY <2>1, <4>1 DEF HasKey
    <3> QED  BY <1>0, <3>1, <3>2
  <2>5. ASSUME NEW n \in DOMAIN y, NEW m \in DOMAIN y, Key(y[n]) = Key(y[m])
        PROVE  n = m
    BY <1>2, <2>1, <2>5 DEF IsIndex, HasKey
  <2>6. IsIndex(y, q, k)
    BY <2>1, <2>3, <2>4, <2>5 DEF IsIndex
  <2> QED  BY <2>6 DEF y
<1> QED  BY <1>1, <1>2

\* At finds the one invoice of a key.
LEMMA AtFinds ==
    ASSUME NEW x, NEW k, HasKey(x, k)
    PROVE  \E n \in DOMAIN x : At(x, k) = x[n] /\ Key(x[n]) = k
BY DEF HasKey, At

\* Two of the first k invoices of q have this key.
Twice(q, k, key) ==
    \E l, m \in 1 .. k : l # m /\ Key(q[l]) = key /\ Key(q[m]) = key

\* The seller's pass leaves an index of the list, of which it has marked the
\* invoices whose key comes twice.
LEMMA SellerPassLeaves ==
    ASSUME NEW q \in Seq(Invoices)
    PROVE  /\ SellerPass(q) \in Acc
           /\ IsIndex(SellerPass(q).index, q, Len(q))
           /\ \A n \in DOMAIN SellerPass(q).index :
                 LET i == SellerPass(q).index[n]
                 IN  SellerPass(q).dup[i] <=> Twice(q, Len(q), Key(i))
<1>1. PICK t : /\ t[0] = Unmarked
               /\ \A k \in 1 .. Len(q) : t[k] = IndexSeller(t[k - 1], q[k])
               /\ SellerPass(q) = t[Len(q)]
  BY SellerRun
<1> DEFINE P(k) == /\ t[k] \in Acc
                   /\ IsIndex(t[k].index, q, k)
                   /\ \A n \in DOMAIN t[k].index :
                         t[k].dup[t[k].index[n]] <=> Twice(q, k, Key(t[k].index[n]))
           B == {k \in Nat : k <= Len(q) => P(k)}
<1>2. 0 \in B
  <2>1. t[0].index = <<>> /\ t[0] \in Acc
    BY <1>1 DEF Unmarked, Acc
  <2>2. IsIndex(<<>>, q, 0)
    BY DEF IsIndex
  <2> QED  BY <2>1, <2>2
<1>3. ASSUME NEW k \in B  PROVE k + 1 \in B
  <2> SUFFICES ASSUME k + 1 <= Len(q)  PROVE P(k + 1)
    OBVIOUS
  <2> DEFINE c == k + 1
             x == t[k].index
             i == q[c]
  <2>1. /\ P(k) /\ c \in 1 .. Len(q) /\ c - 1 = k /\ i \in Invoices /\ k \in Nat
        /\ 1 .. c = (1 .. k) \cup {c} /\ c \notin 1 .. k
    OBVIOUS
  <2>2. t[c] = IndexSeller(t[k], i)
    BY <1>1, <2>1
  <2>3. t[c] \in Acc
    BY <2>1, <2>2, PassTypes
  <2>4. x \in Seq(Invoices) /\ t[k].dup \in [Invoices -> BOOLEAN]
        /\ \A n \in DOMAIN x : x[n] \in Invoices
    BY <2>1 DEF Acc
  <2>5. CASE HasKey(x, Key(i))
    <3>1. PICK p \in DOMAIN x : At(x, Key(i)) = x[p] /\ Key(x[p]) = Key(i)
      BY <2>5, AtFinds
    <3>2. t[c].index = x /\ t[c].dup = [t[k].dup EXCEPT ![x[p]] = TRUE]
      BY <2>1, <2>2, <2>5, <3>1 DEF IndexSeller, Acc
    <3>3. IsIndex(t[c].index, q, c)
      BY <2>1, <2>5, <3>2, IndexStep
    <3>4. ASSUME NEW n \in DOMAIN x  PROVE t[c].dup[x[n]] <=> Twice(q, c, Key(x[n]))
      <4>1. t[k].dup[x[n]] <=> Twice(q, k, Key(x[n]))
        BY <2>1
      <4>2. CASE n = p
        <5>1. PICK m \in 1 .. k : x[p] = q[m]
          BY <2>1 DEF IsIndex
        <5>2. Twice(q, c, Key(x[p]))
          BY <2>1, <3>1, <5>1 DEF Twice
        <5> QED  BY <2>4, <3>2, <4>2, <5>2
      <4>3. CASE n # p
        <5>1. Key(x[n]) # Key(i) /\ x[n] # x[p]
          BY <2>1, <3>1, <4>3 DEF IsIndex
        <5>2. Twice(q, c, Key(x[n])) <=> Twice(q, k, Key(x[n]))
          BY <2>1, <5>1 DEF Twice
        <5> QED  BY <2>4, <3>2, <4>1, <5>1, <5>2
      <4> QED  BY <4>2, <4>3
    <3> QED  BY <2>3, <3>2, <3>3, <3>4
  <2>6. CASE ~HasKey(x, Key(i))
    <3>1. t[c].index = Append(x, i) /\ t[c].dup = [t[k].dup EXCEPT ![i] = FALSE]
      BY <2>2, <2>6 DEF IndexSeller
    <3>2. IsIndex(t[c].index, q, c)
      <4>1. IsIndex(x, q, c - 1) /\ ~HasKey(x, Key(q[c]))
        BY <2>1, <2>6
      <4> HIDE DEF c, x
      <4>2. IsIndex(Append(x, q[c]), q, c)
        BY <2>1, <4>1, IndexStep
      <4> QED  BY <3>1, <4>2
    <3>3. \A m \in 1 .. k : Key(q[m]) # Key(i)
      BY <2>1, <2>6 DEF IsIndex
    <3>4. ASSUME NEW n \in DOMAIN Append(x, i)
          PROVE  t[c].dup[Append(x, i)[n]] <=> Twice(q, c, Key(Append(x, i)[n]))
      <4>1. CASE n \in DOMAIN x
        <5>1. Append(x, i)[n] = x[n] /\ Key(x[n]) # Key(i) /\ x[n] # i
          BY <2>4, <2>6, <4>1 DEF HasKey
        <5>2. Twice(q, c, Key(x[n])) <=> Twice(q, k, Key(x[n]))
          BY <2>1, <5>1 DEF Twice
        <5>3. t[k].dup[x[n]] <=> Twice(q, k, Key(x[n]))
          BY <2>1, <4>1
        <5> QED  BY <2>4, <3>1, <4>1, <5>1, <5>2, <5>3
      <4>2. CASE n \notin DOMAIN x
        <5>1. Append(x, i)[n] = i
          BY <2>4, <4>2
        <5>2. ~Twice(q, c, Key(i))
          BY <2>1, <3>3 DEF Twice
        <5> QED  BY <2>1, <2>4, <3>1, <5>1, <5>2
      <4> QED  BY <4>1, <4>2
    <3> QED  BY <2>3, <3>1, <3>2, <3>4
  <2> QED  BY <2>5, <2>6
<1>4. B = Nat
  <2>1. B \in SUBSET Nat
    OBVIOUS
  <2> HIDE DEF B
  <2> QED  BY <1>2, <1>3, <2>1, Inductive
<1>5. P(Len(q))
  BY <1>4
<1> QED  BY <1>1, <1>5

\* The objects of a list are different ones.
Distinct(q) == \A l, m \in 1 .. Len(q) : q[l] = q[m] => l = m

\* The index of a list of which no invoice is marked, and the marks of all
\* that are not in the list.
BuyersLeft(r, q, start) ==
    /\ r \in Acc
    /\ IsIndex(r.index, q, Len(q))
    /\ \A n \in DOMAIN r.index : ~r.dup[r.index[n]]
    /\ \A i \in Invoices : (\A m \in 1 .. Len(q) : q[m] # i) => r.dup[i] = start.dup[i]

\* ... are what the buyer's pass leaves.
LEMMA BuyerPassLeaves ==
    ASSUME NEW q \in Seq(Invoices), Distinct(q), NEW start \in Acc, start.index = <<>>
    PROVE  BuyersLeft(FoldLeft(IndexBuyer, start, q), q, start)
<1>0. \A l, m \in 1 .. Len(q) : q[l] = q[m] => l = m
  BY DEF Distinct
<1>1. PICK t : /\ t[0] = start
               /\ \A k \in 1 .. Len(q) : t[k] = IndexBuyer(t[k - 1], q[k])
               /\ FoldLeft(IndexBuyer, start, q) = t[Len(q)]
  BY BuyerRun
<1> DEFINE P(k) == /\ t[k] \in Acc
                   /\ IsIndex(t[k].index, q, k)
                   /\ \A n \in DOMAIN t[k].index : ~t[k].dup[t[k].index[n]]
                   /\ \A i \in Invoices : (\A m \in 1 .. k : q[m] # i)
                                             => t[k].dup[i] = start.dup[i]
           B == {k \in Nat : k <= Len(q) => P(k)}
<1>2. 0 \in B
  <2>1. IsIndex(<<>>, q, 0)
    BY DEF IsIndex
  <2> QED  BY <1>1, <2>1
<1>3. ASSUME NEW k \in B  PROVE k + 1 \in B
  <2> SUFFICES ASSUME k + 1 <= Len(q)  PROVE P(k + 1)
    OBVIOUS
  <2> DEFINE c == k + 1
             x == t[k].index
             i == q[c]
  <2>1. /\ P(k) /\ c \in 1 .. Len(q) /\ c - 1 = k /\ i \in Invoices /\ k \in Nat
        /\ 1 .. c = (1 .. k) \cup {c} /\ c \notin 1 .. k
        /\ \A m \in 1 .. k : m \in 1 .. Len(q)
    OBVIOUS
  <2>2. t[c] = IndexBuyer(t[k], i)
    BY <1>1, <2>1
  <2>3. t[c] \in Acc
    BY <2>1, <2>2, PassTypes
  <2>4. x \in Seq(Invoices) /\ t[k].dup \in [Invoices -> BOOLEAN]
        /\ \A n \in DOMAIN x : x[n] \in Invoices
    BY <2>1 DEF Acc
  <2>5. \A n \in DOMAIN x : x[n] # i
    <3>1. ASSUME NEW n \in DOMAIN x  PROVE x[n] # i
      <4>1. PICK m \in 1 .. k : x[n] = q[m]
        BY <2>1 DEF IsIndex
      <4> QED  BY <1>0, <2>1, <4>1
    <3> QED  BY <3>1
  <2>6. IsIndex(x, q, c - 1)
    BY <2>1
  <2>7. CASE HasKey(x, Key(i))
    <3>1. t[c].index = x /\ t[c].dup = [t[k].dup EXCEPT ![i] = TRUE]
      BY <2>1, <2>2, <2>7 DEF IndexBuyer, Acc
    <3>2. IsIndex(t[c].index, q, c)
      <4> HIDE DEF c, x
      <4>1. IsIndex(x, q, c)
        BY <2>1, <2>6, <2>7, IndexStep
      <4> QED  BY <3>1, <4>1
    <3>3. \A n \in DOMAIN x : ~t[c].dup[x[n]]
      BY <2>1, <2>4, <2>5, <3>1
    <3>4. \A j \in Invoices : (\A m \in 1 .. c : q[m] # j) => t[c].dup[j] = start.dup[j]
      BY <2>1, <2>4, <3>1
    <3> QED  BY <2>3, <3>1, <3>2, <3>3, <3>4
  <2>8. CASE ~HasKey(x, Key(i))
    <3>1. t[c].index = Append(x, i) /\ t[c].dup = [t[k].dup EXCEPT ![i] = FALSE]
      BY <2>2, <2>8 DEF IndexBuyer
    <3>2. IsIndex(t[c].index, q, c)
      <4> HIDE DEF c, x
      <4>1. IsIndex(Append(x, q[c]), q, c)
        BY <2>1, <2>6, <2>8, IndexStep
      <4> QED  BY <3>1, <4>1
    <3>3. ASSUME NEW n \in DOMAIN Append(x, i)  PROVE ~t[c].dup[Append(x, i)[n]]
      <4>1. CASE n \in DOMAIN x
        BY <2>1, <2>4, <2>5, <3>1, <4>1
      <4>2. CASE n \notin DOMAIN x
        <5>1. Append(x, i)[n] = i
          <6> HIDE DEF x, i
          <6> QED  BY <2>4, <4>2
        <5> QED  BY <2>1, <2>4, <3>1, <5>1
      <4> QED  BY <4>1, <4>2
    <3>4. \A j \in Invoices : (\A m \in 1 .. c : q[m] # j) => t[c].dup[j] = start.dup[j]
      BY <2>1, <2>4, <3>1
    <3> QED  BY <2>3, <3>1, <3>2, <3>3, <3>4
  <2> QED  BY <2>7, <2>8
<1>4. B = Nat
  <2>1. B \in SUBSET Nat
    OBVIOUS
  <2> HIDE DEF B
  <2> QED  BY <1>2, <1>3, <2>1, Inductive
<1>5. P(Len(q))
  BY <1>4
<1> QED  BY <1>1, <1>5 DEF BuyersLeft

\* Each key comes once.
OneOfAKey(q) == \A n, m \in DOMAIN q : Key(q[n]) = Key(q[m]) => n = m

\* The invoices of q whose key x does not have, each key once.
PhantomsLeft(u, q, x) ==
    /\ u \in Seq(Invoices)
    /\ \A n \in DOMAIN u : ~HasKey(x, Key(u[n])) /\ \E m \in DOMAIN q : u[n] = q[m]
    /\ \A m \in DOMAIN q : HasKey(x, Key(q[m])) \/ HasKey(u, Key(q[m]))
    /\ OneOfAKey(u)

\* ... are those that Unprocessed returns.
LEMMA PhantomsAre ==
    ASSUME NEW q \in Seq(Invoices), NEW x, OneOfAKey(q)
    PROVE  PhantomsLeft(Unprocessed(q, x), q, x)
<1>0. \A n, m \in DOMAIN q : Key(q[n]) = Key(q[m]) => n = m
  BY DEF OneOfAKey
<1>1. PICK t : /\ t[0] = <<>>
               /\ \A k \in 1 .. Len(q) : t[k] = KeepNew(x, t[k - 1], q[k])
               /\ Unprocessed(q, x) = t[Len(q)]
  BY PhantomRun
<1> DEFINE P(k) == /\ t[k] \in Seq(Invoices)
                   /\ \A n \in DOMAIN t[k] : /\ ~HasKey(x, Key(t[k][n]))
                                             /\ \E m \in 1 .. k : t[k][n] = q[m]
                   /\ \A m \in 1 .. k : HasKey(x, Key(q[m])) \/ HasKey(t[k], Key(q[m]))
                   /\ \A n, m \in DOMAIN t[k] : Key(t[k][n]) = Key(t[k][m]) => n = m
           B == {k \in Nat : k <= Len(q) => P(k)}
<1>2. 0 \in B
  <2>1. /\ t[0] \in Seq(Invoices) /\ DOMAIN t[0] = {} /\ 1 .. 0 = {}
    BY <1>1
  <2> QED  BY <2>1
<1>3. ASSUME NEW k \in B  PROVE k + 1 \in B
  <2> SUFFICES ASSUME k + 1 <= Len(q)  PROVE P(k + 1)
    OBVIOUS
  <2> DEFINE c == k + 1
             u == t[k]
             i == q[c]
  <2>1. /\ P(k) /\ c \in 1 .. Len(q) /\ i \in Invoices /\ k \in Nat
        /\ 1 .. c = (1 .. k) \cup {c} /\ c \notin 1 .. k
        /\ \A m \in 1 .. c : m \in DOMAIN q
    OBVIOUS
  <2>2. t[c] = KeepNew(x, u, i)
    BY <1>1, <2>1
  <2>3. CASE HasKey(x, Key(i))
    <3>1. t[c] = u
      BY <2>2, <2>3 DEF KeepNew
    <3> QED  BY <2>1, <2>3, <3>1
  <2>4. CASE ~HasKey(x, Key(i))
    <3>1. t[c] = Append(u, i)
      BY <2>2, <2>4 DEF KeepNew
    <3> DEFINE w == Append(u, i)
    <3>2. /\ w \in Seq(Invoices) /\ DOMAIN w = DOMAIN u \cup {Len(u) + 1}
          /\ Len(u) + 1 \notin DOMAIN u
          /\ \A n \in DOMAIN u : w[n] = u[n]
          /\ w[Len(u) + 1] = i
      BY <2>1
    <3> HIDE DEF w
    <3>3. \A n \in DOMAIN w : ~HasKey(x, Key(w[n])) /\ \E m \in 1 .. c : w[n] = q[m]
      BY <2>1, <2>4, <3>2
    <3>4. \A m \in 1 .. c : HasKey(x, Key(q[m])) \/ HasKey(w, Key(q[m]))
      <4>1. \A key : HasKey(u, key) => HasKey(w, key)
        BY <3>2 DEF HasKey
      <4>2. HasKey(w, Key(i))
        BY <3>2 DEF HasKey
      <4> QED  BY <2>1, <4>1, <4>2
    <3>5. \A n \in DOMAIN u : Key(u[n]) # Key(i)
      <4>1. ASSUME NEW n \in DOMAIN u  PROVE Key(u[n]) # Key(i)
        <5>1. PICK m \in 1 .. k : u[n] = q[m]
          BY <2>1
        <5> QED  BY <1>0, <2>1, <5>1
      <4> QED  BY <4>1
    <3>6. ASSUME NEW n \in DOMAIN w, NEW m \in DOMAIN w, Key(w[n]) = Key(w[m])
          PROVE  n = m
      BY <2>1, <3>2, <3>5, <3>6
    <3>7. P(c)
      <4>1. t[c] = w
        BY <3>1 DEF w
      <4> HIDE DEF c
      <4> QED  BY <3>2, <3>3, <3>4, <3>6, <4>1
    <3> QED  BY <3>7
  <2> QED  BY <2>3, <2>4
<1>4. B = Nat
  <2>1. B \in SUBSET Nat
    OBVIOUS
  <2> HIDE DEF B
  <2> QED  BY <1>2, <1>3, <2>1, Inductive
<1>5. P(Len(q)) /\ DOMAIN q = 1 .. Len(q)
  BY <1>4
<1> QED  BY <1>1, <1>5 DEF PhantomsLeft, OneOfAKey

-----------------------------------------------------------------------------
(* The lists.                                                              *)

\* Each object is declared once, by one party, and no list is anything but
\* a sequence of invoices.
Lists ==
    /\ invoice \in [Invoices -> [key : Keys, vat : Amounts]]
    /\ sellers \in Seq(Invoices) /\ buyers \in Seq(Invoices)
    /\ \A l, m \in 1 .. Len(sellers) : sellers[l] = sellers[m] => l = m
    /\ \A l, m \in 1 .. Len(buyers) : buyers[l] = buyers[m] => l = m
    /\ \A l \in 1 .. Len(sellers), m \in 1 .. Len(buyers) : sellers[l] # buyers[m]

\* A new invoice at the end of a list that does not have it.
LEMMA AppendOnce ==
    ASSUME NEW q \in Seq(Invoices), NEW i \in Invoices, \A m \in 1 .. Len(q) : q[m] # i,
           \A l, m \in 1 .. Len(q) : q[l] = q[m] => l = m
    PROVE  LET r == Append(q, i) IN
           /\ r \in Seq(Invoices) /\ Len(r) = Len(q) + 1
           /\ \A l \in 1 .. Len(r) : r[l] = IF l = Len(r) THEN i ELSE q[l]
           /\ \A l, m \in 1 .. Len(r) : r[l] = r[m] => l = m
OBVIOUS

\* A declaration keeps the lists apart.
LEMMA StepLists == Lists /\ [Next]_vars => Lists'
<1> SUFFICES ASSUME Lists, [Next]_vars PROVE Lists'
  OBVIOUS
<1>0. \A i \in Invoices : i \notin Declared =>
         /\ \A m \in 1 .. Len(sellers) : sellers[m] # i
         /\ \A m \in 1 .. Len(buyers) : buyers[m] # i
  BY DEF Declared, Range, Lists
<1>1. ASSUME NEW i \in Invoices, DeclareBySeller(i)  PROVE Lists'
  <2>1. sellers' = Append(sellers, i) /\ UNCHANGED <<invoice, buyers>> /\ i \notin Declared
    BY <1>1 DEF DeclareBySeller
  <2> DEFINE r == Append(sellers, i)
  <2>2. /\ r \in Seq(Invoices) /\ Len(r) = Len(sellers) + 1
        /\ \A l \in 1 .. Len(r) : r[l] = IF l = Len(r) THEN i ELSE sellers[l]
        /\ \A l, m \in 1 .. Len(r) : r[l] = r[m] => l = m
    BY <1>0, <2>1, AppendOnce DEF Lists
  <2>3. sellers' = r
    BY <2>1
  <2> HIDE DEF r
  <2>4. \A l \in 1 .. Len(r), m \in 1 .. Len(buyers) : r[l] # buyers[m]
    <3>1. ASSUME NEW l \in 1 .. Len(r), NEW m \in 1 .. Len(buyers)  PROVE r[l] # buyers[m]
      <4>1. CASE l = Len(r)
        BY <1>0, <2>1, <2>2, <4>1
      <4>2. CASE l # Len(r)
        <5>1. l \in 1 .. Len(sellers) /\ r[l] = sellers[l]
          BY <2>2, <4>2 DEF Lists
        <5> QED  BY <5>1 DEF Lists
      <4> QED  BY <4>1, <4>2
    <3> QED  BY <3>1
  <2> QED  BY <2>1, <2>2, <2>3, <2>4 DEF Lists
<1>2. ASSUME NEW i \in Invoices, ClaimByBuyer(i)  PROVE Lists'
  <2>1. buyers' = Append(buyers, i) /\ UNCHANGED <<invoice, sellers>> /\ i \notin Declared
    BY <1>2 DEF ClaimByBuyer
  <2> DEFINE r == Append(buyers, i)
  <2>2. /\ r \in Seq(Invoices) /\ Len(r) = Len(buyers) + 1
        /\ \A l \in 1 .. Len(r) : r[l] = IF l = Len(r) THEN i ELSE buyers[l]
        /\ \A l, m \in 1 .. Len(r) : r[l] = r[m] => l = m
    BY <1>0, <2>1, AppendOnce DEF Lists
  <2>3. buyers' = r
    BY <2>1
  <2> HIDE DEF r
  <2>4. \A l \in 1 .. Len(sellers), m \in 1 .. Len(r) : sellers[l] # r[m]
    <3>1. ASSUME NEW l \in 1 .. Len(sellers), NEW m \in 1 .. Len(r)  PROVE sellers[l] # r[m]
      <4>1. CASE m = Len(r)
        BY <1>0, <2>1, <2>2, <4>1
      <4>2. CASE m # Len(r)
        <5>1. m \in 1 .. Len(buyers) /\ r[m] = buyers[m]
          BY <2>2, <4>2 DEF Lists
        <5> QED  BY <5>1 DEF Lists
      <4> QED  BY <4>1, <4>2
    <3> QED  BY <3>1
  <2> QED  BY <2>1, <2>2, <2>3, <2>4 DEF Lists
<1>3. CASE UNCHANGED vars
  BY <1>3 DEF vars, Lists
<1> QED  BY <1>1, <1>2, <1>3 DEF Next

\* Each object is declared once, in one list.
THEOREM DeclaredOnce == Spec => []Lists
<1>1. Init => Lists
  BY DEF Init, Lists
<1> QED  BY <1>1, StepLists, PTL DEF Spec

-----------------------------------------------------------------------------
(* The results.                                                            *)

\* What an index of a whole list has: the first invoice of each key in it.
LEMMA IndexIsFirst ==
    ASSUME NEW q \in Seq(Invoices), NEW x, IsIndex(x, q, Len(q))
    PROVE  /\ \A n \in DOMAIN x : /\ x[n] \in Range(q) /\ x[n] \in Invoices
                                  /\ First(q, Key(x[n])) = x[n]
           /\ \A k : HasKey(x, k) <=> Of(q, k) # {}
           /\ \A k : HasKey(x, k) => At(x, k) = First(q, k) /\ Key(At(x, k)) = k
                                     /\ At(x, k) \in Range(q)
                                     /\ \E n \in DOMAIN x : At(x, k) = x[n]
<1>0. DOMAIN q = 1 .. Len(q) /\ Len(q) \in Nat /\ \A m \in 1 .. Len(q) : q[m] \in Invoices
  OBVIOUS
<1>1. ASSUME NEW n \in DOMAIN x
      PROVE  x[n] \in Range(q) /\ x[n] \in Invoices /\ First(q, Key(x[n])) = x[n]
  <2>1. PICK m \in 1 .. Len(q) : x[n] = q[m] /\ \A l \in 1 .. (m - 1) : Key(q[l]) # Key(q[m])
    BY DEF IsIndex
  <2> DEFINE T == {l \in DOMAIN q : Key(q[l]) = Key(x[n])}
  <2>2. m \in T /\ \A l \in T : m <= l
    BY <1>0, <2>1
  <2>3. T \subseteq Nat
    BY <1>0
  <2> HIDE DEF T
  <2>4. Min(T) \in T /\ \A l \in T : Min(T) <= l
    BY <2>2 DEF Min
  <2>5. Min(T) <= m /\ m <= Min(T)
    BY <2>2, <2>4
  <2>6. Min(T) = m
    <3>1. Min(T) \in Nat /\ m \in Nat
      BY <2>2, <2>3, <2>4
    <3> QED  BY <2>5, <3>1
  <2>7. First(q, Key(x[n])) = q[m]
    BY <2>6 DEF First, T
  <2> QED  BY <1>0, <2>1, <2>7 DEF Range
<1>2. ASSUME NEW k  PROVE HasKey(x, k) <=> Of(q, k) # {}
  <2>1. ASSUME HasKey(x, k)  PROVE Of(q, k) # {}
    BY <1>1, <2>1 DEF HasKey, Of
  <2>2. ASSUME NEW i \in Of(q, k)  PROVE HasKey(x, k)
    BY <1>0, <2>2 DEF Of, Range, IsIndex
  <2> QED  BY <2>1, <2>2
<1>3. ASSUME NEW k, HasKey(x, k)
      PROVE  At(x, k) = First(q, k) /\ Key(At(x, k)) = k /\ At(x, k) \in Range(q)
             /\ \E n \in DOMAIN x : At(x, k) = x[n]
  BY <1>1, <1>3, AtFinds
<1> QED  BY <1>1, <1>2, <1>3

\* A key comes twice in a list of distinct objects if and only if two of
\* them have it.
LEMMA TwiceIsTwo ==
    ASSUME NEW q \in Seq(Invoices), NEW k, \A l, m \in 1 .. Len(q) : q[l] = q[m] => l = m
    PROVE  Twice(q, Len(q), k) <=> Cardinality(Of(q, k)) > 1
<1> DEFINE S == Of(q, k)
<1>1. IsFiniteSet(S)
  <2>1. IsFiniteSet(1 .. Len(q))
    BY FS_Interval
  <2>2. q \in Surjection(1 .. Len(q), Range(q))
    BY DEF Surjection, Range
  <2>3. S \subseteq Range(q)
    BY DEF Of
  <2> QED  BY <2>1, <2>2, <2>3, FS_Surjection, FS_Subset
<1>2. ASSUME Twice(q, Len(q), k)  PROVE Cardinality(S) > 1
  <2>1. PICK l, m \in 1 .. Len(q) : l # m /\ Key(q[l]) = k /\ Key(q[m]) = k
    BY <1>2 DEF Twice
  <2>2. q[l] \in S /\ q[m] \in S /\ q[l] # q[m]
    BY <2>1 DEF Of, Range
  <2> HIDE DEF S
  <2>3. Cardinality(S \ {q[l]}) = Cardinality(S) - 1 /\ IsFiniteSet(S \ {q[l]})
    BY <1>1, <2>2, FS_RemoveElement
  <2>4. Cardinality(S \ {q[l]}) # 0 /\ Cardinality(S \ {q[l]}) \in Nat
    <3> DEFINE R == S \ {q[l]}
    <3>1. R # {} /\ IsFiniteSet(R)
      BY <2>2, <2>3
    <3> HIDE DEF R
    <3>2. Cardinality(R) # 0 /\ Cardinality(R) \in Nat
      BY <3>1, FS_EmptySet, FS_CardinalityType
    <3> QED  BY <3>2 DEF R
  <2> QED  BY <1>1, <2>3, <2>4, FS_CardinalityType
<1>3. ASSUME ~Twice(q, Len(q), k)  PROVE ~(Cardinality(S) > 1)
  <2>1. \A i, j \in S : i = j
    BY <1>3 DEF Of, Range, Twice
  <2> HIDE DEF S
  <2>2. S = {} \/ \E i : S = {i}
    <3>1. ASSUME NEW i \in S  PROVE S = {i}
      BY <2>1
    <3> QED  BY <3>1
  <2>3. Cardinality(S) = 0 \/ Cardinality(S) = 1
    BY <2>2, FS_EmptySet, FS_Singleton
  <2> QED  BY <2>3
<1> QED  BY <1>2, <1>3

\* Two lists of results, the one after the other.
LEMMA TwoParts ==
    ASSUME NEW a \in Nat, NEW b \in Nat, NEW f, NEW g,
           f = [n \in 1 .. a |-> f[n]], g = [n \in 1 .. b |-> g[n]]
    PROVE  /\ Len(f \o g) = a + b /\ DOMAIN (f \o g) = 1 .. (a + b)
           /\ \A n \in 1 .. a : (f \o g)[n] = f[n]
           /\ \A n \in 1 .. b : (f \o g)[a + n] = g[n]
<1> DEFINE R == {f[n] : n \in 1 .. a} \cup {g[n] : n \in 1 .. b}
<1>1. \A n \in 1 .. a : f[n] \in R
  OBVIOUS
<1>2. \A n \in 1 .. b : g[n] \in R
  OBVIOUS
<1> HIDE DEF R
<1>3. f \in [1 .. a -> R] /\ g \in [1 .. b -> R]
  BY <1>1, <1>2
<1>4. /\ f \in Seq(R) /\ Len(f) = a /\ g \in Seq(R) /\ Len(g) = b
  BY <1>3
<1>5. /\ Len(f \o g) = a + b /\ f \o g \in Seq(R)
      /\ \A n \in 1 .. (a + b) : (f \o g)[n] = IF n <= a THEN f[n] ELSE g[n - a]
  BY <1>4, ConcatProperties
<1>6. DOMAIN (f \o g) = 1 .. (a + b)
  BY <1>5
<1>7. \A n \in 1 .. a : (f \o g)[n] = f[n]
  BY <1>5
<1>8. \A n \in 1 .. b : (f \o g)[a + n] = g[n]
  BY <1>5
<1> QED  BY <1>5, <1>6, <1>7, <1>8

\* The result r compares the first invoices of a key that both lists have,
\* of which the buyer's is not marked, and the seller's, if it is another
\* object than all of the buyer's, is if its key comes twice; or it is that of
\* the first invoice of a key that one list has.
OfBoth(r, sold, bought) ==
    \E s \in Range(sold), b \in Range(bought) : \E dup :
        /\ s \in Invoices /\ b \in Invoices
        /\ Key(b) = Key(s) /\ s = First(sold, Key(s)) /\ b = First(bought, Key(s))
        /\ ~dup[b]
        /\ s \notin Range(bought) => (dup[s] <=> Cardinality(Of(sold, Key(s))) > 1)
        /\ r = ComparePair(s, b, dup)
OfOne(r, own, other, status) ==
    \E i \in Range(own) :
        /\ i \in Invoices /\ i = First(own, Key(i)) /\ Of(other, Key(i)) = {}
        /\ r = CompareAlone(i, status)
OfSeller(r, sold, bought) == OfOne(r, sold, bought, "seller_only")
OfBuyer(r, sold, bought) == OfOne(r, bought, sold, "buyer_only")

\* Each of these three kinds, each key once, and every key that a list has.
Accounts(R, sold, bought) ==
    /\ Len(R) \in Nat /\ DOMAIN R = 1 .. Len(R)
    /\ \A n \in DOMAIN R :
          OfBoth(R[n], sold, bought) \/ OfSeller(R[n], sold, bought) \/ OfBuyer(R[n], sold, bought)
    /\ \A n, m \in DOMAIN R : R[n].key = R[m].key => n = m
    /\ \A i \in Range(sold) \cup Range(bought) : \E n \in DOMAIN R : R[n].key = Key(i)

\* ... are the results of any two lists of distinct objects, whether or not
\* an object is in both.
LEMMA ResultsAre ==
    ASSUME NEW sold \in Seq(Invoices), NEW bought \in Seq(Invoices),
           Distinct(sold), Distinct(bought)
    PROVE  Accounts(MatchPeriod(sold, bought), sold, bought)
<1> DEFINE R == MatchPeriod(sold, bought)
           S == SellerPass(sold)
           x == S.index
           B == BuyerPass(sold, bought)
           y == B.index
           u == Unprocessed(y, x)
           Pair(i) == IF HasKey(y, Key(i)) THEN ComparePair(i, At(y, Key(i)), B.dup)
                      ELSE CompareAlone(i, "seller_only")
           f == [n \in DOMAIN x |-> Pair(x[n])]
           g == [n \in DOMAIN u |-> CompareAlone(u[n], "buyer_only")]
<1>0. /\ sold \in Seq(Invoices) /\ bought \in Seq(Invoices)
      /\ Len(sold) \in Nat /\ Len(bought) \in Nat
      /\ DOMAIN sold = 1 .. Len(sold) /\ DOMAIN bought = 1 .. Len(bought)
      /\ \A l, m \in 1 .. Len(sold) : sold[l] = sold[m] => l = m
  BY DEF Distinct
<1>1. R = f \o g
  BY DEF MatchPeriod
<1>2. /\ S \in Acc /\ IsIndex(x, sold, Len(sold))
      /\ \A n \in DOMAIN x : S.dup[x[n]] <=> Twice(sold, Len(sold), Key(x[n]))
  BY <1>0, SellerPassLeaves
<1>3. /\ IsIndex(y, bought, Len(bought))
      /\ \A n \in DOMAIN y : ~B.dup[y[n]]
      /\ \A i \in Invoices : (\A m \in 1 .. Len(bought) : bought[m] # i) => B.dup[i] = S.dup[i]
  <2> DEFINE start == [S EXCEPT !.index = <<>>]
  <2>1. start \in Acc /\ start.index = <<>> /\ start.dup = S.dup
    <3> HIDE DEF S
    <3>1. start = [index |-> <<>>, dup |-> S.dup] /\ S.dup \in [Invoices -> BOOLEAN]
      BY <1>2 DEF Acc
    <3> HIDE DEF start
    <3>2. start.index = <<>> /\ start.dup = S.dup
      BY <3>1
    <3>3. <<>> \in Seq(Invoices)
      OBVIOUS
    <3> QED  BY <3>1, <3>2, <3>3 DEF Acc
  <2>2. B = FoldLeft(IndexBuyer, start, bought)
    BY DEF BuyerPass
  <2> HIDE DEF start, S, B
  <2>4. BuyersLeft(B, bought, start)
    BY <1>0, <2>1, <2>2, BuyerPassLeaves
  <2> QED  BY <2>1, <2>4 DEF BuyersLeft
<1>4. /\ x \in Seq(Invoices) /\ y \in Seq(Invoices)
      /\ \A n, m \in DOMAIN x : Key(x[n]) = Key(x[m]) => n = m
      /\ OneOfAKey(y)
  BY <1>2, <1>3 DEF IsIndex, OneOfAKey
<1> HIDE DEF R, S, B, x, y
<1>5. /\ u \in Seq(Invoices)
      /\ \A n \in DOMAIN u : ~HasKey(x, Key(u[n])) /\ \E m \in DOMAIN y : u[n] = y[m]
      /\ \A m \in DOMAIN y : HasKey(x, Key(y[m])) \/ HasKey(u, Key(y[m]))
      /\ \A n, m \in DOMAIN u : Key(u[n]) = Key(u[m]) => n = m
  <2>1. y \in Seq(Invoices) /\ OneOfAKey(y)
    BY <1>4
  <2> HIDE DEF u, Pair, f, g
  <2>2. PhantomsLeft(Unprocessed(y, x), y, x)
    BY <2>1, PhantomsAre
  <2>3. PhantomsLeft(u, y, x)
    BY <2>2 DEF u
  <2> QED  BY <2>3 DEF PhantomsLeft, OneOfAKey
<1>6. /\ \A n \in DOMAIN x : /\ x[n] \in Range(sold) /\ x[n] \in Invoices
                             /\ First(sold, Key(x[n])) = x[n]
      /\ \A k : HasKey(x, k) <=> Of(sold, k) # {}
  BY <1>0, <1>2, IndexIsFirst
<1>7. /\ \A n \in DOMAIN y : /\ y[n] \in Range(bought) /\ y[n] \in Invoices
                             /\ First(bought, Key(y[n])) = y[n]
      /\ \A k : HasKey(y, k) <=> Of(bought, k) # {}
      /\ \A k : HasKey(y, k) => At(y, k) = First(bought, k) /\ Key(At(y, k)) = k
                                /\ At(y, k) \in Range(bought)
                                /\ \E n \in DOMAIN y : At(y, k) = y[n]
  BY <1>0, <1>3, IndexIsFirst
<1> HIDE DEF u
<1>8. ASSUME NEW n \in DOMAIN x  PROVE OfBoth(f[n], sold, bought) \/ OfSeller(f[n], sold, bought)
  <2> DEFINE s == x[n]
  <2>1. s \in Range(sold) /\ s \in Invoices /\ s = First(sold, Key(s)) /\ f[n] = Pair(s)
    BY <1>6
  <2>2. CASE HasKey(y, Key(s))
    <3> DEFINE b == At(y, Key(s))
    <3>1. PICK m \in DOMAIN y : b = y[m]
      BY <1>7, <2>2
    <3>2. b \in Range(bought) /\ b \in Invoices /\ Key(b) = Key(s) /\ b = First(bought, Key(s))
      BY <1>7, <2>2, <3>1
    <3>3. ~B.dup[b]
      BY <1>3, <3>1 DEF y
    <3>4. ASSUME s \notin Range(bought)  PROVE B.dup[s] = S.dup[s]
      <4>1. \A l \in 1 .. Len(bought) : bought[l] # s
        BY <1>0, <3>4 DEF Range
      <4> QED  BY <1>3, <2>1, <4>1
    <3>5. S.dup[s] <=> Cardinality(Of(sold, Key(s))) > 1
      <4>1. S.dup[s] <=> Twice(sold, Len(sold), Key(s))
        BY <1>2 DEF x
      <4>2. Twice(sold, Len(sold), Key(s)) <=> Cardinality(Of(sold, Key(s))) > 1
        BY <1>0, TwiceIsTwo
      <4> QED  BY <4>1, <4>2
    <3>6. f[n] = ComparePair(s, b, B.dup)
      BY <2>1, <2>2
    <3> HIDE DEF f, s, b
    <3>7. s \notin Range(bought) => (B.dup[s] <=> Cardinality(Of(sold, Key(s))) > 1)
      BY <3>4, <3>5
    <3> QED  BY <2>1, <3>2, <3>3, <3>6, <3>7 DEF OfBoth
  <2>3. CASE ~HasKey(y, Key(s))
    <3>1. Of(bought, Key(s)) = {} /\ f[n] = CompareAlone(s, "seller_only")
      BY <1>7, <2>1, <2>3
    <3> HIDE DEF f, s
    <3> QED  BY <2>1, <3>1 DEF OfSeller, OfOne
  <2> QED  BY <2>2, <2>3
<1>9. ASSUME NEW n \in DOMAIN u  PROVE OfBuyer(g[n], sold, bought)
  <2>1. PICK m \in DOMAIN y : u[n] = y[m]
    BY <1>5
  <2>2. /\ u[n] \in Range(bought) /\ u[n] \in Invoices /\ u[n] = First(bought, Key(u[n]))
        /\ Of(sold, Key(u[n])) = {}
    BY <1>5, <1>6, <1>7, <2>1
  <2>3. g[n] = CompareAlone(u[n], "buyer_only")
    OBVIOUS
  <2> QED  BY <2>2, <2>3 DEF OfBuyer, OfOne
<1>10. /\ \A n \in DOMAIN x : f[n].key = Key(x[n])
       /\ \A n \in DOMAIN u : g[n].key = Key(u[n])
  BY DEF ComparePair, CompareAlone
<1>11. /\ Len(x) \in Nat /\ DOMAIN x = 1 .. Len(x) /\ DOMAIN f = 1 .. Len(x)
       /\ Len(u) \in Nat /\ DOMAIN u = 1 .. Len(u) /\ DOMAIN g = 1 .. Len(u)
       /\ f = [n \in 1 .. Len(x) |-> f[n]] /\ g = [n \in 1 .. Len(u) |-> g[n]]
  BY <1>4, <1>5
<1> HIDE DEF f, g
<1>12. /\ Len(R) = Len(x) + Len(u) /\ DOMAIN R = 1 .. (Len(x) + Len(u))
       /\ \A n \in 1 .. Len(x) : R[n] = f[n]
       /\ \A n \in 1 .. Len(u) : R[Len(x) + n] = g[n]
  BY <1>1, <1>11, TwoParts
<1>13. ASSUME NEW n \in DOMAIN R
       PROVE  \/ n \in DOMAIN x /\ R[n] = f[n]
              \/ n - Len(x) \in DOMAIN u /\ R[n] = g[n - Len(x)]
  <2>1. n \in 1 .. Len(x) \/ (n - Len(x) \in 1 .. Len(u) /\ n = Len(x) + (n - Len(x)))
    BY <1>11, <1>12
  <2> QED  BY <1>11, <1>12, <2>1
<1>14. ASSUME NEW n \in DOMAIN R, NEW m \in DOMAIN R,
              R[n].key = R[m].key
       PROVE  n = m
  <2>1. CASE n \in DOMAIN x /\ R[n] = f[n] /\ m \in DOMAIN x /\ R[m] = f[m]
    BY <1>4, <1>10, <1>14, <2>1
  <2>2. CASE /\ n - Len(x) \in DOMAIN u /\ R[n] = g[n - Len(x)]
             /\ m - Len(x) \in DOMAIN u /\ R[m] = g[m - Len(x)]
    <3>1. n - Len(x) = m - Len(x)
      BY <1>5, <1>10, <1>14, <2>2
    <3> QED  BY <1>11, <1>12, <3>1
  <2>3. \A k \in DOMAIN x, l \in DOMAIN u : Key(x[k]) # Key(u[l])
    BY <1>5 DEF HasKey
  <2> QED  BY <1>10, <1>13, <1>14, <2>1, <2>2, <2>3
<1>15. ASSUME NEW i \in Range(sold) \cup Range(bought)  PROVE \E n \in DOMAIN R : R[n].key = Key(i)
  <2>1. ASSUME NEW n \in DOMAIN x, Key(x[n]) = Key(i)
        PROVE  \E k \in DOMAIN R : R[k].key = Key(i)
    <3>1. n \in DOMAIN R /\ R[n] = f[n]
      BY <1>11, <1>12
    <3> QED  BY <1>10, <2>1, <3>1
  <2>2. ASSUME NEW n \in DOMAIN u, Key(u[n]) = Key(i)
        PROVE  \E k \in DOMAIN R : R[k].key = Key(i)
    <3>1. Len(x) + n \in DOMAIN R /\ R[Len(x) + n] = g[n]
      BY <1>11, <1>12
    <3> QED  BY <1>10, <2>2, <3>1
  <2>3. HasKey(x, Key(i)) \/ HasKey(u, Key(i))
    <3>1. CASE i \in Range(sold)
      BY <1>6, <3>1 DEF Of
    <3>2. CASE i \in Range(bought)
      <4>1. PICK m \in DOMAIN y : Key(y[m]) = Key(i)
        BY <1>7, <3>2 DEF Of, HasKey
      <4>2. HasKey(x, Key(y[m])) \/ HasKey(u, Key(y[m]))
        BY <1>5
      <4> QED  BY <4>1, <4>2
    <3> QED  BY <3>1, <3>2
  <2> QED  BY <2>1, <2>2, <2>3 DEF HasKey
<1>16. ASSUME NEW n \in DOMAIN R
       PROVE  OfBoth(R[n], sold, bought) \/ OfSeller(R[n], sold, bought) \/ OfBuyer(R[n], sold, bought)
  BY <1>8, <1>9, <1>13
<1>17. Len(R) \in Nat /\ DOMAIN R = 1 .. Len(R)
  BY <1>11, <1>12
<1> QED  BY <1>14, <1>15, <1>16, <1>17 DEF Accounts, R

-----------------------------------------------------------------------------
(* What the results say.                                                   *)

\* The larger and the smaller of two amounts.
LEMMA OfTwo ==
    ASSUME NEW a \in Int, NEW b \in Int
    PROVE  /\ Max({a, b}) = IF a >= b THEN a ELSE b
           /\ Min({a, b}) = IF a <= b THEN a ELSE b
<1>1. ASSUME NEW x \in {a, b}, \A y \in {a, b} : x >= y
      PROVE  x = IF a >= b THEN a ELSE b
  BY <1>1
<1>2. ASSUME NEW x \in {a, b}, \A y \in {a, b} : x <= y
      PROVE  x = IF a <= b THEN a ELSE b
  BY <1>2
<1>3. \E x \in {a, b} : \A y \in {a, b} : x >= y
  OBVIOUS
<1>4. \E x \in {a, b} : \A y \in {a, b} : x <= y
  OBVIOUS
<1>5. Max({a, b}) \in {a, b} /\ \A y \in {a, b} : Max({a, b}) >= y
  BY <1>3 DEF Max
<1>6. Min({a, b}) \in {a, b} /\ \A y \in {a, b} : Min({a, b}) <= y
  BY <1>4 DEF Min
<1> QED  BY <1>1, <1>2, <1>5, <1>6

\* What the results of the declarations are.
LEMMA ResultsOfLists == Lists => Accounts(Results, sellers, buyers)
BY ResultsAre DEF Lists, Distinct, Results

\* The amounts of an invoice.
LEMMA AmountsAre ==
    ASSUME Lists, NEW i \in Invoices
    PROVE  invoice[i].vat \in Nat
BY AmountAssumption DEF Lists

\* The tolerance is one of what the seller declared, but for a declaration
\* of nothing, from which everything else differs.
LEMMA DiffersMeans ==
    ASSUME NEW s \in Nat, NEW b \in Nat
    PROVE  /\ Apart(s, b) \in Nat /\ AtLeastOne(s) \in Nat \ {0}
           /\ Differs(s, b) <=> (100 * Apart(s, b) > s /\ s # b)
<1>1. AtLeastOne(s) = IF s >= 1 THEN s ELSE 1
  BY OfTwo DEF AtLeastOne
<1> QED  BY <1>1 DEF Differs, Apart

\* A key of which the two lists have the same first object is matched.
LEMMA MatchesItself ==
    ASSUME NEW sold \in Seq(Invoices), NEW bought \in Seq(Invoices),
           Distinct(sold), Distinct(bought), NEW k,
           Of(sold, k) # {}, Of(bought, k) # {}, First(sold, k) = First(bought, k),
           \A i \in Invoices : invoice[i].vat \in Nat,
           NEW n \in DOMAIN MatchPeriod(sold, bought), MatchPeriod(sold, bought)[n].key = k
    PROVE  MatchPeriod(sold, bought)[n].status = "matched"
<1> DEFINE R == MatchPeriod(sold, bought)
           r == R[n]
<1>1. OfBoth(r, sold, bought) \/ OfSeller(r, sold, bought) \/ OfBuyer(r, sold, bought)
  BY ResultsAre DEF Accounts
<1>2. r.key = k
  OBVIOUS
<1> HIDE DEF r
<1>3. ~OfSeller(r, sold, bought) /\ ~OfBuyer(r, sold, bought)
  BY <1>2 DEF OfSeller, OfBuyer, OfOne, CompareAlone
<1>4. PICK s \in Range(sold), b \in Range(bought) : \E dup :
         /\ s \in Invoices /\ b \in Invoices
         /\ Key(b) = Key(s) /\ s = First(sold, Key(s)) /\ b = First(bought, Key(s))
         /\ ~dup[b] /\ r = ComparePair(s, b, dup)
  BY <1>1, <1>3 DEF OfBoth
<1>5. PICK dup : ~dup[b] /\ r = ComparePair(s, b, dup)
  BY <1>4
<1>6. Key(s) = k /\ r.status = StatusOfPair(s, b, dup)
  BY <1>2, <1>5 DEF ComparePair
<1>7. s = b
  BY <1>4, <1>6
<1>8. ~Differs(invoice[s].vat, invoice[b].vat)
  BY <1>4, <1>7, DiffersMeans
<1>9. r.status = "matched"
  BY <1>5, <1>6, <1>7, <1>8 DEF StatusOfPair
<1> QED  BY <1>9 DEF r

\* The first object of a key has it, and none before does.
LEMMA FirstLeads ==
    ASSUME NEW q \in Seq(Invoices), NEW k, Of(q, k) # {}
    PROVE  \E n \in 1 .. Len(q) : /\ First(q, k) = q[n] /\ Key(q[n]) = k
                                  /\ \A l \in 1 .. (n - 1) : Key(q[l]) # k
<1> DEFINE T == {n \in DOMAIN q : Key(q[n]) = k}
<1>1. DOMAIN q = 1 .. Len(q) /\ Len(q) \in Nat
  OBVIOUS
<1>2. T \subseteq Nat /\ T # {}
  BY <1>1 DEF Of, Range
<1>3. \E n \in T : \A l \in T : n <= l
  <2> HIDE DEF T
  <2> QED  BY <1>2, LeastElement
<1>4. Min(T) \in T /\ \A l \in T : Min(T) <= l
  <2> HIDE DEF T
  <2> QED  BY <1>3 DEF Min
<1>5. First(q, k) = q[Min(T)]
  BY DEF First
<1> DEFINE n == Min(T)
<1> HIDE DEF n
<1>6. n \in 1 .. Len(q) /\ Key(q[n]) = k /\ First(q, k) = q[n]
  BY <1>1, <1>4, <1>5 DEF n
<1>7. ASSUME NEW l \in 1 .. (n - 1)  PROVE Key(q[l]) # k
  <2>1. l \in DOMAIN q /\ ~(n <= l)
    BY <1>1, <1>6
  <2> QED  BY <1>4, <2>1 DEF n
<1> QED  BY <1>6, <1>7

\* The status of each kind of result.
LEMMA StatusOf ==
    ASSUME NEW r
    PROVE  /\ OfSeller(r, sellers, buyers) => r.status = "seller_only"
           /\ OfBuyer(r, sellers, buyers) => r.status = "buyer_only"
           /\ OfBoth(r, sellers, buyers) => r.status \in {"matched", "amount_mismatch", "duplicate"}
<1>1. OfSeller(r, sellers, buyers) => r.status = "seller_only"
  BY DEF OfSeller, OfOne, CompareAlone
<1>2. OfBuyer(r, sellers, buyers) => r.status = "buyer_only"
  BY DEF OfBuyer, OfOne, CompareAlone
<1>3. ASSUME OfBoth(r, sellers, buyers)  PROVE r.status \in {"matched", "amount_mismatch", "duplicate"}
  <2>1. PICK s, b, dup : r = ComparePair(s, b, dup)
    BY <1>3 DEF OfBoth
  <2>2. r.status = StatusOfPair(s, b, dup)
    BY <2>1 DEF ComparePair
  <2> QED  BY <2>2 DEF StatusOfPair
<1> QED  BY <1>1, <1>2, <1>3

\* The status of a result is the meaning of its key.
LEMMA StatusIsMeaning ==
    ASSUME Lists, NEW r, OfBoth(r, sellers, buyers) \/ OfSeller(r, sellers, buyers) \/ OfBuyer(r, sellers, buyers)
    PROVE  r.status = Meaning(r.key)
<1>1. CASE OfBoth(r, sellers, buyers)
  <2>0. PICK s \in Range(sellers), b \in Range(buyers) : \E dup :
           /\ s \in Invoices /\ b \in Invoices
           /\ Key(b) = Key(s) /\ s = First(sellers, Key(s)) /\ b = First(buyers, Key(s))
           /\ ~dup[b]
           /\ s \notin Range(buyers) => (dup[s] <=> Cardinality(Of(sellers, Key(s))) > 1)
           /\ r = ComparePair(s, b, dup)
    BY <1>1 DEF OfBoth
  <2>1. PICK dup :
           /\ s \in Invoices /\ b \in Invoices
           /\ Key(b) = Key(s) /\ s = First(sellers, Key(s)) /\ b = First(buyers, Key(s))
           /\ ~dup[b]
           /\ s \notin Range(buyers) => (dup[s] <=> Cardinality(Of(sellers, Key(s))) > 1)
           /\ r = ComparePair(s, b, dup)
    BY <2>0
  <2> DEFINE k == Key(s)
             sv == invoice[s].vat
             bv == invoice[b].vat
  <2>2. r.key = k /\ r.status = StatusOfPair(s, b, dup)
    BY <2>1 DEF ComparePair
  <2>9. s \notin Range(buyers)
    <3>1. PICK i \in DOMAIN sellers : s = sellers[i]
      BY DEF Range
    <3>2. ASSUME NEW j \in DOMAIN buyers  PROVE sellers[i] # buyers[j]
      <4>1. i \in 1..Len(sellers) /\ j \in 1..Len(buyers)
        BY DEF Lists
      <4> QED  BY <4>1 DEF Lists
    <3> QED  BY <3>1, <3>2 DEF Range
  <2>3. s \in Of(sellers, k) /\ b \in Of(buyers, k)
    BY <2>1 DEF Of
  <2>4. Differs(sv, bv) <=> (100 * Apart(sv, bv) > sv /\ sv # bv)
    BY <2>1, AmountsAre, DiffersMeans
  <2>5. StatusOfPair(s, b, dup) =
           IF 100 * Apart(sv, bv) > sv /\ sv # bv THEN "amount_mismatch"
           ELSE IF Cardinality(Of(sellers, k)) > 1 THEN "duplicate" ELSE "matched"
    BY <2>1, <2>4, <2>9 DEF StatusOfPair
  <2> HIDE DEF k
  <2>6. Of(sellers, k) # {} /\ Of(buyers, k) # {}
    BY <2>3
  <2>7. First(sellers, k) = s /\ First(buyers, k) = b
    BY <2>1 DEF k
  <2>8. Meaning(k) = IF 100 * Apart(sv, bv) > sv /\ sv # bv THEN "amount_mismatch"
                     ELSE IF Cardinality(Of(sellers, k)) > 1 THEN "duplicate" ELSE "matched"
    BY <2>6, <2>7 DEF Meaning
  <2> QED  BY <2>2, <2>5, <2>8
<1>2. CASE OfSeller(r, sellers, buyers)
  <2>1. PICK i \in Range(sellers) :
           Of(buyers, Key(i)) = {} /\ r = CompareAlone(i, "seller_only")
    BY <1>2 DEF OfSeller, OfOne
  <2>2. r.key = Key(i) /\ r.status = "seller_only"
    BY <2>1 DEF CompareAlone
  <2>3. Of(sellers, Key(i)) # {}
    BY DEF Of
  <2> QED  BY <2>1, <2>2, <2>3 DEF Meaning
<1>3. CASE OfBuyer(r, sellers, buyers)
  <2>1. PICK i \in Range(buyers) :
           Of(sellers, Key(i)) = {} /\ r = CompareAlone(i, "buyer_only")
    BY <1>3 DEF OfBuyer, OfOne
  <2>2. r.key = Key(i) /\ r.status = "buyer_only"
    BY <2>1 DEF CompareAlone
  <2>3. Of(buyers, Key(i)) # {}
    BY DEF Of
  <2> QED  BY <2>1, <2>2, <2>3 DEF Meaning
<1> QED  BY <1>1, <1>2, <1>3

\* Whatever was declared, and in which order: the result of each key is what
\* the two parties' declarations of it mean, though the marks on the objects
\* are left by two passes.
THEOREM ResultsMeanAlways == Spec => []ResultsMean
<1>1. Lists => ResultsMean
  BY ResultsOfLists, StatusIsMeaning DEF ResultsMean, Accounts
<1> QED  BY <1>1, DeclaredOnce, PTL

\* The keys of the results are those of the declarations.
LEMMA KeyOf ==
    ASSUME NEW r, OfBoth(r, sellers, buyers) \/ OfSeller(r, sellers, buyers) \/ OfBuyer(r, sellers, buyers)
    PROVE  r.key \in {Key(i) : i \in Declared}
<1>1. CASE OfBoth(r, sellers, buyers)
  BY <1>1 DEF OfBoth, ComparePair, Declared
<1>2. CASE OfSeller(r, sellers, buyers)
  BY <1>2 DEF OfSeller, OfOne, CompareAlone, Declared
<1>3. CASE OfBuyer(r, sellers, buyers)
  BY <1>3 DEF OfBuyer, OfOne, CompareAlone, Declared
<1> QED  BY <1>1, <1>2, <1>3

\* No key that a party declared is missing from the results, nor reported
\* twice.
THEOREM OneResultPerKeyAlways == Spec => []OneResultPerKey
<1>1. ASSUME Lists  PROVE OneResultPerKey
  <2> DEFINE R == Results
             K == {Key(i) : i \in Declared}
             N == Len(R)
             f == [n \in 1 .. N |-> R[n].key]
  <2>1. /\ N \in Nat /\ DOMAIN R = 1 .. N
        /\ \A n \in DOMAIN R : OfBoth(R[n], sellers, buyers) \/ OfSeller(R[n], sellers, buyers) \/ OfBuyer(R[n], sellers, buyers)
        /\ \A n, m \in DOMAIN R : R[n].key = R[m].key => n = m
        /\ \A i \in Declared : \E n \in DOMAIN R : R[n].key = Key(i)
    BY <1>1, ResultsOfLists DEF Accounts, Declared
  <2>2. \A n \in DOMAIN R : R[n].key \in K
    BY <2>1, KeyOf
  <2> HIDE DEF R
  <2>3. {R[n].key : n \in DOMAIN R} = K
    BY <2>1, <2>2
  <2>4. \A k \in K : \E n \in 1 .. N : R[n].key = k
    BY <2>1
  <2> HIDE DEF K, N
  <2>5. f \in Bijection(1 .. N, K)
    <3>1. f \in [1 .. N -> K]
      BY <2>1, <2>2
    <3>2. f \in Surjection(1 .. N, K)
      BY <2>4, <3>1 DEF Surjection
    <3>3. f \in Injection(1 .. N, K)
      BY <2>1, <3>1 DEF Injection, IsInjective
    <3> QED  BY <3>2, <3>3 DEF Bijection
  <2>6. Cardinality(K) = N
    BY <2>1, <2>5, FS_CountingElements DEF ExistsBijection
  <2> QED  BY <2>3, <2>6 DEF OneResultPerKey, R, K, N
<1> QED  BY <1>1, DeclaredOnce, PTL

\* The discrepancy adds at most ten points, and within the tolerance at most
\* a fifth of one.
LEMMA GapBounds ==
    ASSUME NEW a \in Nat, NEW w \in Nat \ {0}
    PROVE  /\ GapAddon(a, w) \in Nat /\ GapAddon(a, w) <= 50000
           /\ 100 * a <= w => GapAddon(a, w) <= 1000
<1> DEFINE d == (100000 * a) \div w
<1>1. d \in Int /\ d >= 0 /\ d * w <= 100000 * a
  OBVIOUS
<1>2. GapAddon(a, w) = IF 2 * a >= w THEN 50000 ELSE d
  BY DEF GapAddon
<1> HIDE DEF d
<1>3. 2 * a < w => d <= 50000
  <2>1. ASSUME 2 * a < w, d >= 50001  PROVE FALSE
    <3>1. d * w <= 50000 * w
      BY <1>1, <2>1
    <3>2. d * w >= 50001 * w
      BY <1>1, <2>1
    <3> QED  BY <3>1, <3>2, <1>1
  <2> QED  BY <1>1, <2>1
<1>4. 100 * a <= w => d <= 1000 /\ 2 * a < w
  <2>1. ASSUME 100 * a <= w, d >= 1001  PROVE FALSE
    <3>1. d * w <= 1000 * w
      BY <1>1, <2>1
    <3>2. d * w >= 1001 * w
      BY <1>1, <2>1
    <3> QED  BY <3>1, <3>2, <1>1
  <2> QED  BY <1>1, <2>1
<1> QED  BY <1>1, <1>2, <1>3, <1>4

\* The risk of each status, from its base to what the value and the
\* discrepancy add.
LEMMA RiskBounds ==
    ASSUME NEW v \in Nat, NEW a \in Nat, NEW w \in Nat \ {0}
    PROVE  /\ Risk("matched", v, a, w) = 0
           /\ Risk("seller_only", v, 1, 1) \in Int /\ Risk("buyer_only", v, 1, 1) \in Int
           /\ Risk("amount_mismatch", v, a, w) \in Int /\ Risk("duplicate", v, a, w) \in Int
           /\ Risk("seller_only", v, 1, 1) <= 5000
           /\ v < 99975 => Risk("seller_only", v, 1, 1) < 5000
           /\ v >= 1000 => Risk("buyer_only", v, 1, 1) >= 8020
           /\ Risk("amount_mismatch", v, a, w) <= 8000
           /\ 100 * a <= w => Risk("duplicate", v, a, w) <= 8020
<1> DEFINE q == ValueAddon(v)
           g == GapAddon(a, w)
           one == GapAddon(1, 1)
<1>1. q = IF 100000 <= v THEN 100000 ELSE v
  BY OfTwo DEF ValueAddon
<1>2. g \in Nat /\ g <= 50000 /\ (100 * a <= w => g <= 1000)
  BY GapBounds
<1>3. one = 50000
  BY DEF GapAddon
<1> HIDE DEF q, g, one
<1> DEFINE alone == (q + one + 25) \div 50
           both  == (q + g + 25) \div 50
<1>4. /\ alone \in Int /\ alone <= 3000 /\ (v < 99975 => alone < 3000)
      /\ (v >= 1000 => alone >= 1020)
  BY <1>1, <1>3
<1>5. both \in Int /\ both <= 3000 /\ (100 * a <= w => both <= 2020)
  BY <1>1, <1>2
<1>6. \A n \in Int : Min({10000, n}) = IF 10000 <= n THEN 10000 ELSE n
  BY OfTwo
<1>7. Risk("matched", v, a, w) = 0
  BY DEF Risk
<1>8. Risk("seller_only", v, 1, 1) = Min({10000, 2000 + alone})
  BY DEF Risk, Base, q, one
<1>9. Risk("buyer_only", v, 1, 1) = Min({10000, 7000 + alone})
  BY DEF Risk, Base, q, one
<1>10. Risk("amount_mismatch", v, a, w) = Min({10000, 5000 + both})
  BY DEF Risk, Base, q, g
<1>11. Risk("duplicate", v, a, w) = Min({10000, 6000 + both})
  BY DEF Risk, Base, q, g
<1> HIDE DEF alone, both
<1> QED  BY <1>4, <1>5, <1>6, <1>7, <1>8, <1>9, <1>10, <1>11

\* The risk of a declaration that the other party does not make.
LEMMA RiskAlone ==
    ASSUME NEW v \in Nat
    PROVE  /\ Risk("seller_only", v, 1, 1) \in Int /\ Risk("buyer_only", v, 1, 1) \in Int
           /\ Risk("seller_only", v, 1, 1) <= 5000
           /\ v < 99975 => Risk("seller_only", v, 1, 1) < 5000
           /\ v >= 1000 => Risk("buyer_only", v, 1, 1) >= 8020
<1>1. \A a \in Nat, w \in Nat \ {0} :
         /\ Risk("seller_only", v, 1, 1) \in Int /\ Risk("buyer_only", v, 1, 1) \in Int
         /\ Risk("seller_only", v, 1, 1) <= 5000
         /\ v < 99975 => Risk("seller_only", v, 1, 1) < 5000
         /\ v >= 1000 => Risk("buyer_only", v, 1, 1) >= 8020
  BY RiskBounds
<1>2. 1 \in Nat /\ 1 \in Nat \ {0}
  OBVIOUS
<1> QED  BY <1>1, <1>2

\* A result of both declarations, or of the seller's alone, is at most 8020
\* hundredths.
LEMMA OthersBound ==
    ASSUME Lists, NEW r
    PROVE  /\ OfBoth(r, sellers, buyers) => r.risk \in Int /\ r.risk <= 8020 /\ (r.status = "matched" => r.risk = 0)
           /\ OfSeller(r, sellers, buyers) => r.risk \in Int /\ r.risk <= 8020
<1>1. ASSUME OfBoth(r, sellers, buyers)  PROVE r.risk \in Int /\ r.risk <= 8020 /\ (r.status = "matched" => r.risk = 0)
  <2>0. PICK s \in Invoices, b \in Invoices : \E dup : r = ComparePair(s, b, dup)
    BY <1>1 DEF OfBoth
  <2>1. PICK dup : r = ComparePair(s, b, dup)
    BY <2>0
  <2> DEFINE sv == invoice[s].vat
             bv == invoice[b].vat
             v == Max({sv, bv})
             a == Apart(sv, bv)
             w == AtLeastOne(sv)
  <2>2. sv \in Nat /\ bv \in Nat
    BY AmountsAre
  <2>3. /\ a \in Nat /\ w \in Nat \ {0} /\ (Differs(sv, bv) <=> 100 * a > w)
    BY <2>2, DiffersMeans DEF Differs
  <2>4. v \in Nat
    BY <2>2, OfTwo
  <2>5. r.status = StatusOfPair(s, b, dup) /\ r.risk = Risk(r.status, v, a, w)
    BY <2>1 DEF ComparePair
  <2>6. /\ r.status \in {"amount_mismatch", "duplicate", "matched"}
        /\ r.status = "duplicate" => ~Differs(sv, bv)
    BY <2>5 DEF StatusOfPair
  <2> HIDE DEF v, a, w
  <2>7. /\ Risk("amount_mismatch", v, a, w) \in Int /\ Risk("duplicate", v, a, w) \in Int
        /\ Risk("matched", v, a, w) = 0 /\ Risk("amount_mismatch", v, a, w) <= 8000
        /\ 100 * a <= w => Risk("duplicate", v, a, w) <= 8020
    BY <2>3, <2>4, RiskBounds
  <2>8. CASE r.status = "matched"
    BY <2>5, <2>7, <2>8
  <2>9. CASE r.status = "amount_mismatch"
    <3>1. r.risk = Risk("amount_mismatch", v, a, w)
      BY <2>5, <2>9
    <3> QED  BY <2>7, <2>9, <3>1
  <2>10. CASE r.status = "duplicate"
    <3>1. r.risk = Risk("duplicate", v, a, w)
      BY <2>5, <2>10
    <3>2. 100 * a <= w
      BY <2>3, <2>6, <2>10
    <3> QED  BY <2>7, <2>10, <3>1, <3>2
  <2> QED  BY <2>6, <2>8, <2>9, <2>10
<1>2. ASSUME OfSeller(r, sellers, buyers)  PROVE r.risk \in Int /\ r.risk <= 8020
  <2>1. PICK i \in Invoices : r = CompareAlone(i, "seller_only")
    BY <1>2 DEF OfSeller, OfOne
  <2>2. r.risk = Risk("seller_only", invoice[i].vat, 1, 1)
    BY <2>1 DEF CompareAlone
  <2>3. invoice[i].vat \in Nat
    BY AmountsAre
  <2>4. Risk("seller_only", invoice[i].vat, 1, 1) <= 5000
        /\ Risk("seller_only", invoice[i].vat, 1, 1) \in Int
    BY <2>3, RiskAlone
  <2> QED  BY <2>2, <2>4
<1> QED  BY <1>1, <1>2

\* No other result outranks a claim of some value that the seller never
\* declared; and a result of 50 or more is such a claim, a mismatch, a
\* duplicate or an unclaimed invoice of 99 975 or more.
THEOREM PhantomsRankFirst == Spec => []PhantomMostSuspicious
<1>1. ASSUME Lists  PROVE PhantomMostSuspicious
  <2> DEFINE R == Results
  <2>1. \A n \in DOMAIN R : OfBoth(R[n], sellers, buyers) \/ OfSeller(R[n], sellers, buyers) \/ OfBuyer(R[n], sellers, buyers)
    BY <1>1, ResultsOfLists DEF Accounts
  <2> HIDE DEF R
  <2>2. ASSUME NEW n \in DOMAIN R, NEW m \in DOMAIN R,
               R[n].status = "buyer_only", invoice[First(buyers, R[n].key)].vat >= 1000,
               R[m].status # "buyer_only"
        PROVE  R[m].risk <= R[n].risk
    <3>1. OfBuyer(R[n], sellers, buyers)
      BY <2>1, <2>2, StatusOf
    <3>2. PICK i \in Invoices : i = First(buyers, Key(i)) /\ R[n] = CompareAlone(i, "buyer_only")
      BY <3>1 DEF OfBuyer, OfOne
    <3>3. R[n].key = Key(i) /\ R[n].risk = Risk("buyer_only", invoice[i].vat, 1, 1)
      BY <3>2 DEF CompareAlone
    <3>4. invoice[i].vat \in Nat /\ invoice[i].vat >= 1000
      BY <1>1, <2>2, <3>2, <3>3, AmountsAre
    <3>5. R[n].risk \in Int /\ R[n].risk >= 8020
      BY <3>3, <3>4, RiskAlone
    <3>6. OfBoth(R[m], sellers, buyers) \/ OfSeller(R[m], sellers, buyers)
      BY <2>1, <2>2, StatusOf
    <3>7. R[m].risk \in Int /\ R[m].risk <= 8020
      BY <1>1, <3>6, OthersBound
    <3> QED  BY <3>5, <3>7
  <2>3. ASSUME NEW n \in DOMAIN R, R[n].risk >= 5000
        PROVE  \/ R[n].status \in {"buyer_only", "amount_mismatch", "duplicate"}
               \/ /\ R[n].status = "seller_only"
                  /\ invoice[First(sellers, R[n].key)].vat >= 99975
    <3>1. CASE OfBoth(R[n], sellers, buyers)
      <4>1. R[n].status # "matched"
        BY <1>1, <2>3, <3>1, OthersBound
      <4> QED  BY <3>1, <4>1, StatusOf
    <3>2. CASE OfSeller(R[n], sellers, buyers)
      <4>1. PICK i \in Invoices :
              i = First(sellers, Key(i)) /\ R[n] = CompareAlone(i, "seller_only")
        BY <3>2 DEF OfSeller, OfOne
      <4>2. /\ R[n].risk = Risk("seller_only", invoice[i].vat, 1, 1)
            /\ R[n].key = Key(i) /\ R[n].status = "seller_only"
        BY <4>1 DEF CompareAlone
      <4>3. invoice[i].vat \in Nat
        BY <1>1, AmountsAre
      <4>4. invoice[i].vat >= 99975
        BY <2>3, <4>2, <4>3, RiskAlone
      <4> QED  BY <4>1, <4>2, <4>4
    <3>3. CASE OfBuyer(R[n], sellers, buyers)
      BY <3>3, StatusOf
    <3> QED  BY <2>1, <3>1, <3>2, <3>3
  <2> QED  BY <2>2, <2>3 DEF PhantomMostSuspicious, ClaimOfValue, LargeUnclaimed, R
<1> QED  BY <1>1, DeclaredOnce, PTL
=============================================================================
