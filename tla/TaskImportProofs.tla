--------------------------- MODULE TaskImportProofs ---------------------------
(***************************************************************************)
(* Proofs about TaskImport, for every set of batches, in a store or in a   *)
(* project, and any number of failed writes, stops and changes by hand.    *)
(***************************************************************************)
EXTENDS TaskImport, FiniteSetTheorems, SequenceTheorems, WellFoundedInduction, TLAPS

------------------------------------------------------------------------------
(* The elements of sequences *)

LEMMA RangeTyped ==
  ASSUME NEW S, NEW s \in Seq(S)
  PROVE  /\ Range(s) \subseteq S
         /\ \A i \in 1 .. Len(s) : s[i] \in Range(s)
         /\ \A x \in Range(s) : \E i \in 1 .. Len(s) : x = s[i]
BY DEF Range

LEMMA RangeAppend ==
  ASSUME NEW S, NEW s \in Seq(S), NEW e \in S
  PROVE  Append(s, e) \in Seq(S) /\ Range(Append(s, e)) = Range(s) \cup {e}
<1> DEFINE t == Append(s, e)
<1>1. /\ t \in Seq(S) /\ Len(t) = Len(s) + 1 /\ Len(s) \in Nat
      /\ \A i \in 1 .. Len(s) : t[i] = s[i]
      /\ t[Len(s) + 1] = e
  OBVIOUS
<1> HIDE DEF t
<1>2. Range(t) \subseteq Range(s) \cup {e}
  <2> SUFFICES ASSUME NEW i \in 1 .. Len(t), i # Len(s) + 1
               PROVE  t[i] \in Range(s)
    BY <1>1, RangeTyped
  <2>1. i \in 1 .. Len(s)
    BY <1>1
  <2> QED
    BY <1>1, <2>1, RangeTyped
<1>3. Range(s) \subseteq Range(t)
  <2> SUFFICES ASSUME NEW i \in 1 .. Len(s)
               PROVE  s[i] \in Range(t)
    BY RangeTyped
  <2>1. i \in 1 .. Len(t) /\ t[i] = s[i]
    BY <1>1
  <2> QED
    BY <1>1, <2>1, RangeTyped
<1>4. e \in Range(t)
  <2>1. Len(s) + 1 \in 1 .. Len(t)
    BY <1>1
  <2> QED
    BY <1>1, <2>1, RangeTyped
<1> QED
  BY <1>1, <1>2, <1>3, <1>4 DEF t

LEMMA RangeHeadTail ==
  ASSUME NEW S, NEW s \in Seq(S), s # <<>>
  PROVE  /\ Head(s) \in S /\ Tail(s) \in Seq(S)
         /\ Range(s) = {Head(s)} \cup Range(Tail(s))
<1>1. /\ Head(s) \in S /\ Tail(s) \in Seq(S) /\ Len(Tail(s)) = Len(s) - 1
      /\ \A i \in 1 .. Len(Tail(s)) : Tail(s)[i] = s[i + 1]
  BY HeadTailProperties
<1>2. Head(s) = s[1] /\ Len(s) \in Nat \ {0}
  BY EmptySeq
<1>3. Range(s) \subseteq {Head(s)} \cup Range(Tail(s))
  <2> SUFFICES ASSUME NEW i \in 1 .. Len(s), i # 1
               PROVE  s[i] \in Range(Tail(s))
    BY <1>2, RangeTyped
  <2>1. i - 1 \in 1 .. Len(Tail(s)) /\ Tail(s)[i - 1] = s[i]
    BY <1>1, <1>2
  <2> QED
    BY <1>1, <2>1, RangeTyped
<1>4. Range(Tail(s)) \subseteq Range(s)
  <2> SUFFICES ASSUME NEW x \in Range(Tail(s))
               PROVE  x \in Range(s)
    OBVIOUS
  <2>1. PICK i \in 1 .. Len(Tail(s)) : x = Tail(s)[i]
    <3>1. Tail(s) \in Seq(S)
      BY <1>1
    <3> QED
      BY <3>1, RangeTyped
  <2>2. i + 1 \in 1 .. Len(s) /\ x = s[i + 1]
    BY <1>1, <1>2, <2>1
  <2> QED
    BY <2>2, RangeTyped
<1> QED
  BY <1>1, <1>2, <1>3, <1>4, RangeTyped

LEMMA RangeReverse ==
  ASSUME NEW S, NEW s \in Seq(S)
  PROVE  Reverse(s) \in Seq(S) /\ Range(Reverse(s)) = Range(s)
<1>1. Len(s) \in Nat
  OBVIOUS
<1>2. \A i \in 1 .. Len(s) : Len(s) - i + 1 \in 1 .. Len(s)
  BY <1>1
<1>3. /\ Reverse(s) \in Seq(S) /\ DOMAIN Reverse(s) = 1 .. Len(s)
      /\ \A i \in 1 .. Len(s) : Reverse(s)[i] = s[Len(s) - i + 1]
  BY <1>1, <1>2 DEF Reverse
<1>4. \A i \in 1 .. Len(s) : Reverse(s)[Len(s) - i + 1] = s[i]
  BY <1>1, <1>2, <1>3
<1>5. DOMAIN s = 1 .. Len(s)
  OBVIOUS
<1> QED
  BY <1>2, <1>3, <1>4, <1>5 DEF Range

LEMMA RangeConcat ==
  ASSUME NEW S, NEW s \in Seq(S), NEW t \in Seq(S)
  PROVE  s \o t \in Seq(S) /\ Range(s \o t) = Range(s) \cup Range(t)
<1>1. /\ s \o t \in Seq(S) /\ Len(s \o t) = Len(s) + Len(t)
      /\ \A i \in 1 .. Len(s) + Len(t) :
           (s \o t)[i] = IF i <= Len(s) THEN s[i] ELSE t[i - Len(s)]
  BY ConcatProperties
<1>2. Len(s) \in Nat /\ Len(t) \in Nat
  OBVIOUS
<1>3. Range(s \o t) \subseteq Range(s) \cup Range(t)
  <2> SUFFICES ASSUME NEW x \in Range(s \o t)
               PROVE  x \in Range(s) \cup Range(t)
    OBVIOUS
  <2>1. PICK i \in 1 .. Len(s) + Len(t) : x = (s \o t)[i]
    <3>1. s \o t \in Seq(S) /\ Len(s \o t) = Len(s) + Len(t)
      BY <1>1
    <3>2. \E i \in 1 .. Len(s \o t) : x = (s \o t)[i]
      BY <3>1, RangeTyped
    <3> QED
      BY <3>1, <3>2
  <2>2. i <= Len(s) => i \in 1 .. Len(s)
    BY <1>2
  <2>3. ~(i <= Len(s)) => i - Len(s) \in 1 .. Len(t)
    BY <1>2
  <2> QED
    BY <1>1, <2>1, <2>2, <2>3, RangeTyped
<1>4. Range(s) \subseteq Range(s \o t)
  <2> SUFFICES ASSUME NEW i \in 1 .. Len(s)
               PROVE  s[i] \in Range(s \o t)
    BY RangeTyped
  <2>1. i \in 1 .. Len(s) + Len(t) /\ (s \o t)[i] = s[i]
    BY <1>1, <1>2
  <2> QED
    BY <1>1, <2>1, RangeTyped
<1>5. Range(t) \subseteq Range(s \o t)
  <2> SUFFICES ASSUME NEW i \in 1 .. Len(t)
               PROVE  t[i] \in Range(s \o t)
    BY RangeTyped
  <2>1. Len(s) + i \in 1 .. Len(s) + Len(t) /\ (s \o t)[Len(s) + i] = t[i]
    BY <1>1, <1>2
  <2> QED
    BY <1>1, <2>1, RangeTyped
<1> QED
  BY <1>1, <1>3, <1>4, <1>5

------------------------------------------------------------------------------
(* The greatest and the least of some numbers *)

LEMMA MaxIsGreatest ==
  ASSUME NEW N \in Nat, NEW S \in SUBSET (0 .. N), S # {}
  PROVE  Max(S) \in S /\ \A y \in S : y <= Max(S)
<1> DEFINE Bound == {u \in Nat : \A y \in S : y <= u}
<1>1. N \in Bound
  OBVIOUS
<1>2. PICK g \in Bound : \A u \in Bound : ~(<<u, g>> \in OpToRel(<, Nat))
  BY <1>1, NatLessThanWellFounded, WFMin, Zenon
<1>3. g \in S
  <2> SUFFICES ASSUME g \notin S PROVE FALSE
    OBVIOUS
  <2>1. PICK y \in S : TRUE
    OBVIOUS
  <2>2. y <= g /\ y # g /\ y \in Nat /\ g \in Nat
    BY <2>1
  <2>3. g - 1 \in Bound
    BY <2>2
  <2>4. <<g - 1, g>> \in OpToRel(<, Nat)
    BY <2>2 DEF OpToRel
  <2> QED
    BY <2>3, <2>4, <1>2
<1>4. \A y \in S : g >= y
  BY <1>3
<1>5. Max(S) \in S /\ \A y \in S : Max(S) >= y
  BY <1>3, <1>4, Zenon DEF Max
<1> QED
  BY <1>5

LEMMA MinIsAMember ==
  ASSUME NEW S \in SUBSET Nat, S # {}
  PROVE  Min(S) \in S
<1>1. PICK m \in S : \A y \in S : ~(<<y, m>> \in OpToRel(<, Nat))
  BY NatLessThanWellFounded, WFMin, Zenon
<1>2. ASSUME NEW y \in S
      PROVE  m <= y
  <2>1. m \in Nat /\ y \in Nat
    BY <1>1
  <2>2. y < m => <<y, m>> \in OpToRel(<, Nat)
    BY <2>1 DEF OpToRel
  <2>3. ~(y < m)
    BY <2>2, <1>1, Zenon
  <2> QED
    BY <2>1, <2>3
<1> QED
  BY <1>2, Zenon DEF Min

LEMMA AtLeastOrders ==
  ASSUME NEW m \in Marks, NEW n \in Marks, NEW o \in Marks
  PROVE  /\ AtLeast(m, m)
         /\ AtLeast(m, n) /\ AtLeast(n, o) => AtLeast(m, o)
<1>1. ASSUME NEW x \in Marks
      PROVE  x.next \in Nat /\ \A i \in Number : x.mark[i] \in Nat
  BY ConstantsAssumption DEF Marks, Letter
<1> QED
  BY <1>1 DEF AtLeast

LEMMA IDShape ==
  ASSUME NEW t \in ID
  PROVE  t = <<t[1], t[2]>> /\ t[1] \in Number /\ t[2] \in {0} \cup Letter
BY DEF ID

\* The highest of the numbers that the tasks S have.
LEMMA HighestNumber ==
  ASSUME NEW S \in SUBSET ID
  PROVE  LET h == Max({0} \cup {t[1] : t \in {u \in S : u[2] = 0}})
         IN  h \in 0 .. MaxNumber /\ \A t \in S : t[2] = 0 => t[1] <= h
<1> DEFINE T == {0} \cup {t[1] : t \in {u \in S : u[2] = 0}}
<1>1. T \in SUBSET (0 .. MaxNumber) /\ T # {} /\ MaxNumber \in Nat
  BY IDShape, ConstantsAssumption DEF Number
<1>2. Max(T) \in T /\ \A y \in T : y <= Max(T)
  BY <1>1, MaxIsGreatest
<1> QED
  BY <1>1, <1>2

\* The highest of some letters, or 0.
LEMMA HighestLetter ==
  ASSUME NEW L \in SUBSET Letter
  PROVE  LET h == Max({0} \cup L)
         IN  h \in 0 .. MaxLetter /\ \A l \in L : l <= h
<1> DEFINE T == {0} \cup L
<1>1. T \in SUBSET (0 .. MaxLetter) /\ T # {} /\ MaxLetter \in Nat
  BY ConstantsAssumption DEF Letter
<1>2. Max(T) \in T /\ \A y \in T : y <= Max(T)
  BY <1>1, MaxIsGreatest
<1> QED
  BY <1>1, <1>2

\* Marks that are raised by what the tasks S imply cover S and lose nothing.
LEMMA RaisedCovers ==
  ASSUME NEW m \in Marks, NEW S \in SUBSET ID
  PROVE  /\ Raised(m, S) \in Marks
         /\ AtLeast(Raised(m, S), m)
         /\ \A t \in S : Covers(Raised(m, S), t)
<1> DEFINE h == Max({0} \cup {t[1] : t \in {u \in S : u[2] = 0}})
<1> DEFINE g(n) == Max({0} \cup {l \in Letter : <<n, l>> \in S})
<1>1. h \in 0 .. MaxNumber /\ \A t \in S : t[2] = 0 => t[1] <= h
  BY HighestNumber
<1>2. ASSUME NEW n \in Number
      PROVE  g(n) \in 0 .. MaxLetter /\ \A l \in Letter : <<n, l>> \in S => l <= g(n)
  BY HighestLetter
<1>3. /\ m.next \in 0 .. MaxNumber + 1 /\ m.mark \in [Number -> {0} \cup Letter]
      /\ MaxNumber \in Nat /\ MaxLetter \in Nat
  BY ConstantsAssumption DEF Marks
<1>4. /\ Raised(m, S).next = Higher(m.next, h + 1)
      /\ Raised(m, S).mark = [n \in Number |-> Higher(m.mark[n], g(n))]
      /\ Raised(m, S) = [next |-> Raised(m, S).next, mark |-> Raised(m, S).mark]
  BY DEF Raised
<1> HIDE DEF h, g
<1>5. /\ Raised(m, S).next \in 0 .. MaxNumber + 1
      /\ Raised(m, S).next >= m.next /\ Raised(m, S).next >= h + 1
  BY <1>1, <1>3, <1>4 DEF Higher
<1>6. ASSUME NEW n \in Number
      PROVE  /\ Raised(m, S).mark[n] \in {0} \cup Letter
             /\ Raised(m, S).mark[n] >= m.mark[n] /\ Raised(m, S).mark[n] >= g(n)
  <2>1. Raised(m, S).mark[n] = Higher(m.mark[n], g(n))
    BY <1>4
  <2>2. m.mark[n] \in {0} \cup Letter /\ g(n) \in {0} \cup Letter
    BY <1>2, <1>3 DEF Letter
  <2> QED
    BY <2>1, <2>2, <1>3 DEF Higher, Letter
<1>7. Raised(m, S) \in Marks
  BY <1>4, <1>5, <1>6 DEF Marks
<1>8. ASSUME NEW t \in S
      PROVE  Covers(Raised(m, S), t)
  <2>1. t = <<t[1], t[2]>> /\ t[1] \in Number /\ t[2] \in {0} \cup Letter
    BY IDShape
  <2>2. CASE t[2] = 0
    BY <1>1, <1>3, <1>5, <2>1, <2>2 DEF Covers, Number
  <2>3. CASE t[2] # 0
    <3>1. t[2] <= g(t[1])
      BY <1>2, <2>1, <2>3
    <3>2. Raised(m, S).mark[t[1]] >= g(t[1]) /\ g(t[1]) \in Nat
      BY <1>2, <1>6, <2>1
    <3>3. Raised(m, S).mark[t[1]] \in Nat /\ t[2] \in Nat
      BY <1>6, <2>1 DEF Letter
    <3> QED
      BY <2>3, <3>1, <3>2, <3>3 DEF Covers
  <2> QED
    BY <2>2, <2>3
<1> QED
  BY <1>5, <1>6, <1>7, <1>8 DEF AtLeast

------------------------------------------------------------------------------
(* Planning: the IDs of a batch *)

LEMMA StrictlyFewer ==
  ASSUME NEW B, IsFiniteSet(B), NEW A \in SUBSET B, NEW x \in B, x \notin A
  PROVE  Cardinality(A) \in Nat /\ Cardinality(B) \in Nat /\ Cardinality(A) < Cardinality(B)
<1>1. /\ IsFiniteSet(A) /\ Cardinality(A) <= Cardinality(B)
      /\ Cardinality(B) = Cardinality(A) => B = A
  BY FS_Subset
<1>2. Cardinality(A) \in Nat /\ Cardinality(B) \in Nat
  BY <1>1, FS_CardinalityType
<1>3. Cardinality(B) # Cardinality(A)
  BY <1>1
<1> QED
  BY <1>1, <1>2, <1>3

\* Sets of the entries of a batch are finite.
LEMMA EntriesAreFew ==
  ASSUME NEW batch \in Seq(BatchEntry), NEW E \in SUBSET DOMAIN batch
  PROVE  IsFiniteSet(E) /\ Cardinality(E) \in Nat
<1>1. DOMAIN batch = 1 .. Len(batch) /\ Len(batch) \in Nat
  OBVIOUS
<1>2. IsFiniteSet(1 .. Len(batch))
  BY <1>1, FS_Interval
<1>3. IsFiniteSet(E)
  BY <1>1, <1>2, FS_Subset
<1> QED
  BY <1>3, FS_CardinalityType

LEMMA TakenTyped ==
  ASSUME TypeOK
  PROVE  /\ Taken \in SUBSET ID
         /\ \A b \in Bucket, t \in ID : file[<<b, t>>] # None => t \in Taken
<1>1. Taken \in SUBSET ID
  BY DEF Taken, Present, Path
<1>2. ASSUME NEW b \in Bucket, NEW t \in ID, file[<<b, t>>] # None
      PROVE  t \in Taken
  <2>1. <<b, t>> \in Path /\ <<b, t>>[2] = t
    BY DEF Path
  <2>2. <<b, t>> \in Present
    BY <1>2, <2>1 DEF Present
  <2> QED
    BY <2>1, <2>2 DEF Taken
<1> QED
  BY <1>1, <1>2

\* The first new number is above those of all tasks and, in a store, of all that
\* were ever remembered.
LEMMA FirstNumberIsNew ==
  ASSUME TypeOK
  PROVE  /\ FirstNumber \in Nat
         /\ \A t \in Taken : t[2] = 0 => t[1] < FirstNumber
         /\ inStore => FirstNumber >= marks.next
<1> DEFINE h == Max({0} \cup {t[1] : t \in {u \in Taken : u[2] = 0}})
<1>1. h \in 0 .. MaxNumber /\ \A t \in Taken : t[2] = 0 => t[1] <= h
  BY HighestNumber, TakenTyped
<1>2. FirstNumber = Higher(IF inStore THEN marks.next ELSE 0, h + 1)
  BY DEF FirstNumber
<1>3. marks.next \in Nat /\ h \in Nat
  BY <1>1, ConstantsAssumption DEF TypeOK, Marks
<1>4. \A t \in Taken : t[1] \in Nat
  BY TakenTyped, IDShape DEF Number
<1> HIDE DEF h
<1>5. FirstNumber \in Nat /\ FirstNumber >= h + 1 /\ (inStore => FirstNumber >= marks.next)
  BY <1>2, <1>3 DEF Higher
<1> QED
  BY <1>1, <1>3, <1>4, <1>5

LEMMA NumberOfIsNew ==
  ASSUME TypeOK, NEW batch \in Seq(BatchEntry), NEW i \in DOMAIN batch
  PROVE  /\ NumberOf(batch, i) \in Nat /\ NumberOf(batch, i) >= FirstNumber
         /\ \A j \in DOMAIN batch :
              i \in Top(batch) /\ i < j => NumberOf(batch, i) < NumberOf(batch, j)
<1> DEFINE Before(k) == {j \in Top(batch) : j < k}
<1>1. Top(batch) \subseteq DOMAIN batch /\ DOMAIN batch \subseteq Nat
  BY DEF Top
<1>2. \A k : IsFiniteSet(Before(k)) /\ Cardinality(Before(k)) \in Nat
  BY <1>1, EntriesAreFew
<1>3. \A k : NumberOf(batch, k) = FirstNumber + Cardinality(Before(k))
  BY DEF NumberOf
<1>4. FirstNumber \in Nat
  BY FirstNumberIsNew
<1>5. ASSUME NEW j \in DOMAIN batch, i \in Top(batch), i < j
      PROVE  Cardinality(Before(i)) < Cardinality(Before(j))
  <2>1. Before(i) \in SUBSET Before(j)
    BY <1>1, <1>5
  <2>2. i \in Before(j) /\ i \notin Before(i)
    BY <1>1, <1>5
  <2> HIDE DEF Before
  <2> QED
    BY <1>2, <2>1, <2>2, StrictlyFewer
<1> HIDE DEF Before
<1>6. NumberOf(batch, i) \in Nat /\ NumberOf(batch, i) >= FirstNumber
  BY <1>2, <1>3, <1>4
<1>7. ASSUME NEW j \in DOMAIN batch, i \in Top(batch), i < j
      PROVE  NumberOf(batch, i) < NumberOf(batch, j)
  BY <1>2, <1>3, <1>4, <1>5, <1>7
<1> QED
  BY <1>6, <1>7

\* The elders of a child are fewer than those of a younger one of the family.
LEMMA EldersAreFewer ==
  ASSUME NEW batch \in Seq(BatchEntry),
         NEW i \in DOMAIN batch \ Top(batch), NEW j \in DOMAIN batch \ Top(batch),
         Family(batch, i) = Family(batch, j), i < j
  PROVE  Cardinality(Elder(batch, i)) < Cardinality(Elder(batch, j))
<1>1. DOMAIN batch \subseteq Nat
  OBVIOUS
<1>2. Elder(batch, i) \in SUBSET Elder(batch, j)
  BY <1>1 DEF Elder
<1>3. i \in Elder(batch, j) /\ i \notin Elder(batch, i)
  BY <1>1 DEF Elder
<1>4. Elder(batch, j) \in SUBSET DOMAIN batch
  BY DEF Elder
<1>5. IsFiniteSet(Elder(batch, j))
  BY <1>4, EntriesAreFew
<1> QED
  BY <1>2, <1>3, <1>5, StrictlyFewer

\* The letter of a child is free, in a store past the mark, and another one than
\* that of any younger child of the family.
LEMMA LetterOfIsNew ==
  ASSUME TypeOK, NEW batch \in Seq(BatchEntry), Accepted(batch),
         NEW i \in DOMAIN batch \ Top(batch)
  PROVE  /\ Family(batch, i) \in Number /\ LetterOf(batch, i) \in Letter
         /\ <<Family(batch, i), LetterOf(batch, i)>> \notin Taken
         /\ inStore => LetterOf(batch, i) > marks.mark[Family(batch, i)]
         /\ \A j \in DOMAIN batch \ Top(batch) :
              i < j /\ Family(batch, j) = Family(batch, i)
                => LetterOf(batch, j) # LetterOf(batch, i)
<1> DEFINE used(n) == {l \in Letter : <<n, l>> \in Taken}
<1> DEFINE free(n) == Letter \ used(n)
<1> DEFINE top(n) == Max({0} \cup used(n))
<1> DEFINE elders(k) == Cardinality(Elder(batch, k))
<1> DEFINE least(n, e) ==
      {l \in free(n) : Cardinality({k \in free(n) : k < l}) = e}
<1>1. ASSUME NEW k \in DOMAIN batch \ Top(batch)
      PROVE  Family(batch, k) \in Number /\ LetterOf(batch, k) \in {0} \cup Letter
  <2>1. Family(batch, k) \in Number /\ IDOf(batch, k) \in ID
    BY <1>1 DEF Accepted
  <2>2. IDOf(batch, k) = <<Family(batch, k), LetterOf(batch, k)>>
    BY <1>1 DEF IDOf
  <2> QED
    BY <2>1, <2>2, IDShape
<1>2. ASSUME NEW k \in DOMAIN batch \ Top(batch)
      PROVE  elders(k) \in Nat
  <2>1. Elder(batch, k) \in SUBSET DOMAIN batch
    BY DEF Elder
  <2> QED
    BY <2>1, EntriesAreFew
<1>3. ASSUME NEW j \in DOMAIN batch \ Top(batch), i < j, Family(batch, j) = Family(batch, i)
      PROVE  elders(i) < elders(j)
  BY <1>3, EldersAreFewer
<1>4. CASE inStore
  <2>1. ASSUME NEW k \in DOMAIN batch \ Top(batch)
        PROVE  LetterOf(batch, k) =
                 Higher(marks.mark[Family(batch, k)], top(Family(batch, k))) + 1 + elders(k)
    BY <1>4 DEF LetterOf
  <2>2. ASSUME NEW n \in Number
        PROVE  /\ top(n) \in Nat /\ marks.mark[n] \in Nat
               /\ \A l \in Letter : <<n, l>> \in Taken => l <= top(n)
    <3>1. used(n) \in SUBSET Letter
      OBVIOUS
    <3>2. top(n) \in 0 .. MaxLetter /\ \A l \in used(n) : l <= top(n)
      BY <3>1, HighestLetter
    <3>3. marks.mark[n] \in {0} \cup Letter
      BY DEF TypeOK, Marks
    <3> QED
      BY <3>2, <3>3 DEF Letter
  <2> HIDE DEF top, used, elders, least
  <2> DEFINE n == Family(batch, i)
  <2>3. /\ LetterOf(batch, i) > marks.mark[n] /\ LetterOf(batch, i) > top(n)
        /\ LetterOf(batch, i) \in Nat
    BY <1>1, <1>2, <2>1, <2>2 DEF Higher
  <2>4. LetterOf(batch, i) \in Letter
    BY <1>1, <2>2, <2>3
  <2>5. <<n, LetterOf(batch, i)>> \notin Taken
    BY <1>1, <2>2, <2>3, <2>4
  <2>6. ASSUME NEW j \in DOMAIN batch \ Top(batch), i < j, Family(batch, j) = n
        PROVE  LetterOf(batch, j) # LetterOf(batch, i)
    <3>1. elders(i) \in Nat /\ elders(j) \in Nat /\ elders(i) < elders(j)
      BY <1>2, <1>3, <2>6
    <3>2. Higher(marks.mark[n], top(n)) \in Nat
      BY <1>1, <2>2 DEF Higher
    <3> QED
      BY <2>1, <2>6, <3>1, <3>2
  <2> QED
    BY <1>1, <2>3, <2>4, <2>5, <2>6
<1>5. CASE ~inStore
  <2>1. ASSUME NEW k \in DOMAIN batch \ Top(batch)
        PROVE  /\ LetterOf(batch, k) \in Letter
               /\ LetterOf(batch, k) \in least(Family(batch, k), elders(k))
    <3> DEFINE T == {MaxLetter + 1} \cup least(Family(batch, k), elders(k))
    <3>1. LetterOf(batch, k) = Min(T)
      BY <1>5 DEF LetterOf
    <3>2. T \in SUBSET Nat /\ T # {}
      <4>1. least(Family(batch, k), elders(k)) \subseteq Letter
        OBVIOUS
      <4> HIDE DEF least
      <4> QED
        BY <4>1, ConstantsAssumption DEF Letter
    <3>3. Min(T) \in T
      BY <3>2, MinIsAMember
    <3>4. LetterOf(batch, k) \in {0} \cup Letter
      BY <1>1
    <3>5. 0 \notin T /\ MaxLetter + 1 \notin {0} \cup Letter
      BY ConstantsAssumption DEF Letter
    <3> QED
      BY <3>1, <3>3, <3>4, <3>5
  <2>2. <<Family(batch, i), LetterOf(batch, i)>> \notin Taken
    BY <2>1
  <2>3. ASSUME NEW j \in DOMAIN batch \ Top(batch), i < j,
               Family(batch, j) = Family(batch, i), LetterOf(batch, j) = LetterOf(batch, i)
        PROVE  FALSE
    <3>1. elders(i) = elders(j)
      BY <2>1, <2>3
    <3>2. elders(i) \in Nat /\ elders(j) \in Nat /\ elders(i) < elders(j)
      BY <1>2, <1>3, <2>3
    <3> QED
      BY <3>1, <3>2
  <2> QED
    BY <1>1, <1>5, <2>1, <2>2, <2>3
<1> QED
  BY <1>4, <1>5

\* The plan: its IDs are all different.
LEMMA IDsDiffer ==
  ASSUME TypeOK, NEW batch \in Seq(BatchEntry), Accepted(batch),
         NEW i \in DOMAIN batch, NEW j \in DOMAIN batch, i # j
  PROVE  IDOf(batch, i) # IDOf(batch, j)
<1>1. ASSUME NEW k \in DOMAIN batch, NEW m \in DOMAIN batch, k < m
      PROVE  IDOf(batch, k) # IDOf(batch, m)
  <2>1. \A e \in Top(batch) : IDOf(batch, e) = <<NumberOf(batch, e), 0>>
    BY DEF IDOf
  <2>2. \A e \in DOMAIN batch \ Top(batch) :
          /\ IDOf(batch, e) = <<Family(batch, e), LetterOf(batch, e)>>
          /\ LetterOf(batch, e) # 0
    BY LetterOfIsNew DEF IDOf, Letter
  <2>3. CASE k \in Top(batch) /\ m \in Top(batch)
    <3>1. NumberOf(batch, k) < NumberOf(batch, m)
      BY <1>1, <2>3, NumberOfIsNew
    <3>2. NumberOf(batch, k) \in Nat
      BY NumberOfIsNew
    <3> QED
      BY <2>1, <2>3, <3>1, <3>2
  <2>4. CASE k \notin Top(batch) /\ m \notin Top(batch)
    <3>1. Family(batch, k) = Family(batch, m) => LetterOf(batch, k) # LetterOf(batch, m)
      BY <1>1, <2>4, LetterOfIsNew
    <3> QED
      BY <2>2, <2>4, <3>1
  <2>5. CASE (k \in Top(batch)) # (m \in Top(batch))
    BY <2>1, <2>2, <2>5
  <2> QED
    BY <2>3, <2>4, <2>5
<1>2. i \in Nat /\ j \in Nat
  OBVIOUS
<1> QED
  BY <1>1, <1>2

LEMMA PlannedShape ==
  ASSUME TypeOK, NEW batch \in Seq(BatchEntry), Accepted(batch)
  PROVE  /\ Planned(batch) \in Seq([path : Path, rec : Record])
         /\ Len(Planned(batch)) = Len(batch)
         /\ \A i \in DOMAIN batch :
              /\ IDOf(batch, i) \in ID
              /\ Planned(batch)[i].path[2] = IDOf(batch, i)
              /\ Planned(batch)[i].rec.deps = {Resolved(batch, d) : d \in batch[i].deps}
              /\ \A d \in batch[i].deps : Resolved(batch, d) \in ID
         /\ \A w \in Range(Planned(batch)) : \E i \in DOMAIN batch : w = Planned(batch)[i]
         /\ \A i \in DOMAIN batch : Planned(batch)[i] \in Range(Planned(batch))
<1> DEFINE ws == Planned(batch)
<1>1. DOMAIN batch = 1 .. Len(batch) /\ Len(batch) \in Nat
  OBVIOUS
<1>2. ASSUME NEW i \in DOMAIN batch
      PROVE  /\ IDOf(batch, i) \in ID
             /\ batch[i].status \in Status /\ batch[i].deps \in SUBSET Reference
  <2>1. batch[i] \in BatchEntry
    BY <1>1, ElementOfSeq
  <2>2. IDOf(batch, i) \in ID
    BY DEF Accepted
  <2> QED
    BY <2>1, <2>2 DEF BatchEntry
<1>3. ASSUME NEW i \in DOMAIN batch, NEW d \in batch[i].deps
      PROVE  Resolved(batch, d) \in ID
  <2>1. Resolvable(batch, d) /\ d \in Reference
    BY <1>2 DEF Accepted, DepAccepted
  <2>2. CASE d[1] = 0
    BY <1>2, <2>1, <2>2 DEF Resolvable, Resolved
  <2>3. CASE d[1] # 0
    BY <2>1, <2>3 DEF Resolved, Reference
  <2> QED
    BY <2>2, <2>3
<1>4. \A s : BucketForStatus(s) \in Bucket
  BY DEF BucketForStatus, Bucket
<1> DEFINE deps(i) == {Resolved(batch, d) : d \in batch[i].deps}
<1> DEFINE path(i) == <<BucketForStatus(batch[i].status), IDOf(batch, i)>>
<1>5. ASSUME NEW i \in DOMAIN batch
      PROVE  /\ ws[i] = [path |-> path(i),
                         rec |-> [status |-> batch[i].status, deps |-> deps(i)]]
             /\ ws[i] \in [path : Path, rec : Record]
  <2>1. deps(i) \in SUBSET ID
    BY <1>3
  <2>2. path(i) \in Path
    BY <1>2, <1>4 DEF Path
  <2> QED
    BY <1>2, <2>1, <2>2 DEF Planned, Record
<1>6. ws = [i \in 1 .. Len(batch) |-> ws[i]]
  BY <1>1 DEF Planned
<1>7. ws \in Seq([path : Path, rec : Record]) /\ Len(ws) = Len(batch)
        /\ DOMAIN ws = DOMAIN batch
  BY <1>1, <1>5, <1>6
<1>8. \A w \in Range(ws) : \E i \in DOMAIN batch : w = ws[i]
  BY <1>7 DEF Range
<1>9. \A i \in DOMAIN batch : ws[i] \in Range(ws)
  BY <1>7 DEF Range
<1>10. \A i \in DOMAIN batch : path(i)[2] = IDOf(batch, i)
  OBVIOUS
<1> HIDE DEF ws, path, deps
<1>11. ASSUME NEW i \in DOMAIN batch
       PROVE  ws[i].path[2] = IDOf(batch, i) /\ ws[i].rec.deps = deps(i)
  <2>1. ws[i] = [path |-> path(i), rec |-> [status |-> batch[i].status, deps |-> deps(i)]]
    BY <1>5
  <2>2. ws[i].path = path(i) /\ ws[i].rec.deps = deps(i)
    BY <2>1
  <2>3. path(i)[2] = IDOf(batch, i)
    BY <1>10
  <2> QED
    BY <2>2, <2>3
<1> QED
  BY <1>2, <1>3, <1>7, <1>8, <1>9, <1>11 DEF ws, deps

\* An accepted batch has a sound plan.
LEMMA AcceptedIsSound ==
  ASSUME TypeOK, NEW batch \in Seq(BatchEntry), Accepted(batch)
  PROVE  SoundPlan(Planned(batch))
<1> DEFINE ws == Planned(batch)
<1> DEFINE new == {w.path[2] : w \in Range(ws)}
<1>1. /\ Len(ws) = Len(batch)
      /\ \A i \in DOMAIN batch : /\ IDOf(batch, i) \in ID
                                 /\ ws[i].path[2] = IDOf(batch, i)
      /\ \A w \in Range(ws) : \E i \in DOMAIN batch : w = ws[i]
      /\ \A i \in DOMAIN batch : ws[i] \in Range(ws)
  BY PlannedShape
<1>2. DOMAIN batch = 1 .. Len(batch) /\ Len(batch) \in Nat
  OBVIOUS
<1>3. /\ \A i \in DOMAIN batch : IDOf(batch, i) \in new
      /\ \A t \in new : \E i \in DOMAIN batch : t = IDOf(batch, i)
  BY <1>1
<1> HIDE DEF new
<1>4. Cardinality(new) = Len(batch)
  <2> DEFINE f == [i \in 1 .. Len(batch) |-> IDOf(batch, i)]
  <2>1. \A i, j \in 1 .. Len(batch) : i # j => f[i] # f[j]
    BY <1>2, IDsDiffer
  <2>2. /\ f \in [1 .. Len(batch) -> new]
        /\ \A t \in new : \E i \in 1 .. Len(batch) : f[i] = t
    BY <1>2, <1>3
  <2> HIDE DEF f
  <2>3. f \in Bijection(1 .. Len(batch), new)
    BY <2>1, <2>2 DEF Bijection, Injection, Surjection, IsInjective
  <2>4. IsFiniteSet(1 .. Len(batch)) /\ Cardinality(1 .. Len(batch)) = Len(batch)
    BY <1>2, FS_Interval
  <2>5. ExistsBijection(1 .. Len(batch), new)
    BY <2>3 DEF ExistsBijection
  <2> QED
    BY <2>4, <2>5, FS_Bijection
<1>5. ASSUME NEW i \in DOMAIN batch
      PROVE  /\ IDOf(batch, i) \notin Taken
             /\ inStore => LET t == IDOf(batch, i) IN
                  IF t[2] = 0 THEN t[1] >= marks.next ELSE t[2] > marks.mark[t[1]]
  <2>1. CASE i \in Top(batch)
    <3>1. IDOf(batch, i) = <<NumberOf(batch, i), 0>>
      BY <2>1 DEF IDOf
    <3>2. NumberOf(batch, i) \in Nat /\ NumberOf(batch, i) >= FirstNumber
      BY NumberOfIsNew
    <3>3. /\ FirstNumber \in Nat /\ (inStore => FirstNumber >= marks.next)
          /\ \A t \in Taken : t[2] = 0 => t[1] < FirstNumber
      BY FirstNumberIsNew
    <3>4. marks.next \in Nat
      BY ConstantsAssumption DEF TypeOK, Marks
    <3>5. IDOf(batch, i) \notin Taken
      <4> SUFFICES ASSUME <<NumberOf(batch, i), 0>> \in Taken PROVE FALSE
        BY <3>1
      <4>1. <<NumberOf(batch, i), 0>>[1] < FirstNumber
        BY <3>3
      <4> QED
        BY <3>2, <3>3, <4>1
    <3> QED
      BY <3>1, <3>2, <3>3, <3>4, <3>5
  <2>2. CASE i \notin Top(batch)
    <3>1. /\ IDOf(batch, i) = <<Family(batch, i), LetterOf(batch, i)>>
          /\ LetterOf(batch, i) # 0
      BY <2>2, LetterOfIsNew DEF IDOf, Letter
    <3> QED
      BY <2>2, <3>1, LetterOfIsNew
  <2> QED
    BY <2>1, <2>2
<1>6. ASSUME NEW ref \in Reference, ref[1] # 0, Resolvable(batch, ref)
      PROVE  ref \in Taken
  <2>1. ref \in ID
    BY <1>6 DEF Reference
  <2>2. Cardinality(Copies(ref)) = 1
    BY <1>6 DEF Resolvable
  <2>3. Copies(ref) # {}
    <3>1. Cardinality({}) = 0
      BY FS_EmptySet
    <3> QED
      BY <2>2, <3>1
  <2>4. PICK b \in Bucket : file[<<b, ref>>] # None
    BY <2>3 DEF Copies
  <2> QED
    BY <2>1, <2>4, TakenTyped
<1>7. ASSUME NEW i \in DOMAIN batch
      PROVE  <<IDOf(batch, i)[1], 0>> \in Taken \cup new
  <2>1. CASE i \in Top(batch)
    BY <1>3, <2>1 DEF IDOf
  <2>2. CASE i \notin Top(batch)
    <3> DEFINE p == batch[i].parent
    <3>1. IDOf(batch, i)[1] = Family(batch, i) /\ p # NoRef
      BY <2>2 DEF IDOf, Top
    <3>2. Resolvable(batch, p) /\ IF p[1] = 0 THEN p[2] \in Top(batch) ELSE p[2] = 0
      BY <3>1 DEF Accepted, ParentAccepted
    <3>3. p \in Reference
      <4>1. batch[i] \in BatchEntry
        BY <1>2, ElementOfSeq
      <4> QED
        BY <4>1 DEF BatchEntry
    <3>4. CASE p[1] = 0
      <4>1. Family(batch, i) = NumberOf(batch, p[2]) /\ p[2] \in Top(batch)
        BY <2>2, <3>2, <3>4 DEF Family
      <4>2. IDOf(batch, p[2]) = <<Family(batch, i), 0>> /\ p[2] \in DOMAIN batch
        BY <4>1 DEF IDOf, Top
      <4> QED
        BY <1>3, <3>1, <4>2
    <3>5. CASE p[1] # 0
      <4>1. Family(batch, i) = p[1] /\ p[2] = 0
        BY <2>2, <3>2, <3>5 DEF Family
      <4>2. p \in Taken
        BY <1>6, <3>2, <3>3, <3>5
      <4>3. p = <<p[1], p[2]>>
        BY <4>2, IDShape, TakenTyped
      <4> HIDE DEF p
      <4> QED
        BY <3>1, <4>1, <4>2, <4>3
    <3> QED
      BY <3>4, <3>5
  <2> QED
    BY <2>1, <2>2
<1>8. ASSUME NEW i \in DOMAIN batch, NEW d \in batch[i].deps
      PROVE  Resolved(batch, d) \in (Taken \cup new) \ {IDOf(batch, i)}
  <2>1. Resolvable(batch, d) /\ d # Named(i)
    BY DEF Accepted, DepAccepted
  <2>2. d \in Reference
    <3>1. batch[i] \in BatchEntry
      BY <1>2, ElementOfSeq
    <3> QED
      BY <3>1 DEF BatchEntry
  <2>3. CASE d[1] = 0
    <3>1. Resolved(batch, d) = IDOf(batch, d[2]) /\ d[2] \in DOMAIN batch
      BY <2>1, <2>3 DEF Resolved, Resolvable
    <3>2. d[2] # i
      <4>1. d = <<d[1], d[2]>>
        BY <2>2, IDShape DEF Reference
      <4> QED
        BY <2>1, <2>3, <4>1 DEF Named
    <3> QED
      BY <1>3, <3>1, <3>2, IDsDiffer
  <2>4. CASE d[1] # 0
    <3>1. Resolved(batch, d) = d /\ d \in Taken
      BY <1>6, <2>1, <2>2, <2>4 DEF Resolved
    <3> QED
      BY <1>5, <3>1
  <2> QED
    BY <2>3, <2>4
<1>9. ASSUME NEW w \in Range(ws)
      PROVE  w.rec.deps \subseteq (Taken \cup new) \ {w.path[2]}
  <2>1. PICK i \in DOMAIN batch : w = ws[i]
    BY <1>1
  <2>2. /\ w.rec.deps = {Resolved(batch, d) : d \in batch[i].deps}
        /\ w.path[2] = IDOf(batch, i)
    BY <2>1, PlannedShape
  <2> QED
    BY <1>8, <2>2
<1>10. ~Cyclic(file, ws)
  BY DEF Accepted
<1>11. /\ Cardinality(new) = Len(ws)
       /\ new \cap Taken = {}
       /\ \A t \in new :
            /\ inStore => IF t[2] = 0 THEN t[1] >= marks.next ELSE t[2] > marks.mark[t[1]]
            /\ <<t[1], 0>> \in Taken \cup new
  <2>1. new \cap Taken = {}
    BY <1>3, <1>5
  <2>2. ASSUME NEW t \in new
        PROVE  /\ inStore => IF t[2] = 0 THEN t[1] >= marks.next ELSE t[2] > marks.mark[t[1]]
               /\ <<t[1], 0>> \in Taken \cup new
    <3>1. PICK i \in DOMAIN batch : t = IDOf(batch, i)
      BY <1>3
    <3> QED
      BY <1>5, <1>7, <3>1
  <2> QED
    BY <1>1, <1>4, <2>1, <2>2
<1> HIDE DEF ws
<1> QED
  BY <1>9, <1>10, <1>11 DEF SoundPlan, ws, new

------------------------------------------------------------------------------
(* Targets, their writes and their restorations *)

LEMMA PlanTyped ==
  ASSUME TypeOK, NEW w \in Range(plan)
  PROVE  /\ w \in [path : Path, rec : Record]
         /\ w.path \in Path /\ w.rec \in Record
         /\ w.path[1] \in Bucket /\ w.path[2] \in ID
<1>1. w \in [path : Path, rec : Record]
  BY RangeTyped DEF TypeOK
<1>2. w.path \in Path /\ w.rec \in Record
  BY <1>1
<1> QED
  BY <1>1, <1>2 DEF Path

LEMMA PathIsARecord ==
  ASSUME NEW p \in Path
  PROVE  p[1] # "index" /\ p[1] # "state" /\ p[1] \in Bucket /\ p[2] \in ID
BY DEF Path, Bucket

LEMMA TargetsShape ==
  ASSUME TypeOK
  PROVE  /\ Targets(plan) \in Seq(Target)
         /\ \A x \in Range(Targets(plan)) :
              \/ \E w \in Range(plan) : x = w.path
              \/ \E b \in Bucket : x = <<"index", b>>
              \/ inStore /\ x = <<"state", "file">>
         /\ \A w \in Range(plan) : w.path \in Range(Targets(plan))
         /\ \A b \in Bucket : <<"index", b>> \in Range(Targets(plan))
         /\ inStore => <<"state", "file">> \in Range(Targets(plan))
<1> DEFINE R == Records(plan)
<1> DEFINE S == IF inStore THEN << <<"state", "file">> >> ELSE <<>>
<1>1. /\ plan \in Seq([path : Path, rec : Record])
      /\ DOMAIN plan = 1 .. Len(plan) /\ Len(plan) \in Nat
  BY DEF TypeOK
<1>2. /\ R \in Seq(Target)
      /\ \A w \in Range(plan) : w.path \in Range(R)
      /\ \A x \in Range(R) : \E w \in Range(plan) : x = w.path
  <2>1. \A i \in 1 .. Len(plan) : plan[i] \in Range(plan) /\ plan[i].path \in Target
    BY <1>1, RangeTyped, PlanTyped DEF Target
  <2>2. R = [i \in 1 .. Len(plan) |-> plan[i].path]
    BY <1>1 DEF Records
  <2>3. R \in Seq(Target) /\ DOMAIN R = 1 .. Len(plan)
    BY <1>1, <2>1, <2>2
  <2> HIDE DEF R
  <2>4. \A w \in Range(plan) : \E i \in 1 .. Len(plan) : w = plan[i]
    BY <1>1 DEF Range
  <2> QED
    BY <2>1, <2>2, <2>3, <2>4 DEF Range
<1>3. /\ Indexes \in Seq(Target)
      /\ \A b \in Bucket : <<"index", b>> \in Range(Indexes)
      /\ \A x \in Range(Indexes) : \E b \in Bucket : x = <<"index", b>>
  <2>1. /\ DOMAIN SortedBuckets = 1 .. 3
        /\ SortedBuckets[1] = "active" /\ SortedBuckets[2] = "cancelled"
        /\ SortedBuckets[3] = "completed"
    BY DEF SortedBuckets
  <2>2. /\ Indexes = [i \in 1 .. 3 |-> Indexes[i]]
        /\ \A i \in 1 .. 3 : Indexes[i] = <<"index", SortedBuckets[i]>>
    BY <2>1 DEF Indexes
  <2>3. \A i \in 1 .. 3 : SortedBuckets[i] \in Bucket /\ Indexes[i] \in Target
    BY <2>1, <2>2 DEF Bucket, Target
  <2>4. Indexes \in Seq(Target) /\ DOMAIN Indexes = 1 .. 3
    BY <2>2, <2>3
  <2>5. /\ Indexes[1] = <<"index", "active">> /\ Indexes[2] = <<"index", "cancelled">>
        /\ Indexes[3] = <<"index", "completed">>
    BY <2>1, <2>2
  <2>6. {Indexes[1], Indexes[2], Indexes[3]} \subseteq Range(Indexes)
    BY <2>4 DEF Range
  <2>7. \A b \in Bucket : <<"index", b>> \in Range(Indexes)
    BY <2>5, <2>6 DEF Bucket
  <2> QED
    BY <2>2, <2>3, <2>4, <2>7 DEF Range
<1>4. /\ S \in Seq(Target)
      /\ Range(S) = IF inStore THEN {<<"state", "file">>} ELSE {}
  <2>1. <<"state", "file">> \in Target
    BY DEF Target
  <2>2. CASE inStore
    <3>1. S = << <<"state", "file">> >>
      BY <2>2
    <3> HIDE DEF S
    <3>2. S \in Seq(Target) /\ DOMAIN S = {1} /\ S[1] = <<"state", "file">>
      BY <2>1, <3>1
    <3> QED
      BY <2>2, <3>2 DEF Range
  <2>3. CASE ~inStore
    BY <2>3 DEF Range
  <2> QED
    BY <2>2, <2>3
<1>5. Targets(plan) = R \o Indexes \o S
  BY DEF Targets
<1> HIDE DEF R, S
<1>6. R \o Indexes \in Seq(Target) /\ Range(R \o Indexes) = Range(R) \cup Range(Indexes)
  BY <1>2, <1>3, RangeConcat
<1>7. /\ Targets(plan) \in Seq(Target)
      /\ Range(Targets(plan)) = Range(R) \cup Range(Indexes) \cup Range(S)
  <2> DEFINE Q == R \o Indexes
  <2>1. Q \in Seq(Target)
    BY <1>6
  <2> HIDE DEF Q
  <2>2. Q \o S \in Seq(Target) /\ Range(Q \o S) = Range(Q) \cup Range(S)
    BY <1>4, <2>1, RangeConcat
  <2> QED
    BY <1>5, <1>6, <2>2 DEF Q
<1> QED
  BY <1>2, <1>3, <1>4, <1>7

LEMMA TargetsStay ==
  ASSUME UNCHANGED <<inStore, plan>>
  PROVE  Targets(plan)' = Targets(plan)
BY DEF Targets, Records, Indexes

\* The write of a target changes this one, to what the plan says; marks only grow.
LEMMA WriteTargetDoes ==
  ASSUME TypeOK, PlanFits, NEW x \in Range(Targets(plan)), WriteTarget(x)
  PROVE  /\ file' \in [Path -> Record \cup {None}]
         /\ index' \in [Bucket -> SUBSET ID] /\ marks' \in Marks
         /\ \A p \in Path : p # x => file'[p] = file[p]
         /\ \A w \in Range(plan) : x = w.path => file'[w.path] = w.rec
         /\ \A b \in Bucket : <<"index", b>> # x => index'[b] = index[b]
         /\ \A b \in Bucket : <<"index", b>> = x => index'[b] = list[b]
         /\ AtLeast(marks', marks)
         /\ x = <<"state", "file">> => \A w \in Range(plan) : Covers(marks', w.path[2])
<1>1. AtLeast(marks, marks)
  BY AtLeastOrders DEF TypeOK
<1>2. CASE \E w \in Range(plan) : x = w.path
  <2>1. PICK w \in Range(plan) : x = w.path
    BY <1>2
  <2>2. /\ x \in Path /\ x[1] # "index" /\ x[1] # "state" /\ w.rec \in Record
    BY <2>1, PlanTyped, PathIsARecord
  <2>3. \A v \in Range(plan) : v.path = x => v = w
    BY <2>1 DEF PlanFits
  <2>4. (CHOOSE v \in Range(plan) : v.path = x) = w
    BY <2>1, <2>3
  <2>5. file' = [file EXCEPT ![x] = w.rec] /\ index' = index /\ marks' = marks
    BY <2>2, <2>4 DEF WriteTarget
  <2>6. \A b \in Bucket : <<"index", b>> # x /\ <<"state", "file">> # x
    BY <2>2
  <2>7. \A v \in Range(plan) : x = v.path => file'[v.path] = v.rec
    BY <2>2, <2>3, <2>5 DEF TypeOK
  <2>8. /\ file' \in [Path -> Record \cup {None}]
        /\ \A p \in Path : p # x => file'[p] = file[p]
    BY <2>2, <2>5 DEF TypeOK
  <2> QED
    BY <1>1, <2>5, <2>6, <2>7, <2>8 DEF TypeOK, Bucket
<1>3. CASE \E b \in Bucket : x = <<"index", b>>
  <2>1. PICK b \in Bucket : x = <<"index", b>>
    BY <1>3
  <2>2. index' = [index EXCEPT ![b] = list[b]] /\ file' = file /\ marks' = marks
    BY <2>1 DEF WriteTarget
  <2>3. \A v \in Range(plan) : x # v.path
    BY <2>1, PlanTyped, PathIsARecord
  <2>4. /\ index' \in [Bucket -> SUBSET ID]
        /\ \A c \in Bucket : c # b => index'[c] = index[c]
        /\ index'[b] = list[b]
    BY <2>2 DEF TypeOK
  <2> QED
    BY <1>1, <2>1, <2>2, <2>3, <2>4 DEF TypeOK
<1>4. CASE x = <<"state", "file">>
  <2> DEFINE T == Taken \cup UNION Range(list)
  <2>1. marks' = Raised(marks, T) /\ file' = file /\ index' = index
    BY <1>4 DEF WriteTarget
  <2>2. \A v \in Range(plan) : x # v.path
    BY <1>4, PlanTyped, PathIsARecord
  <2>3. T \in SUBSET ID
    BY TakenTyped DEF TypeOK, Range
  <2>4. \A w \in Range(plan) : w.path[2] \in T
    BY PlanTyped DEF PlanFits, TypeOK, Range
  <2>5. /\ marks' \in Marks /\ AtLeast(marks', marks)
        /\ \A t \in T : Covers(marks', t)
    BY <2>1, <2>3, RaisedCovers DEF TypeOK
  <2> QED
    BY <1>4, <2>1, <2>2, <2>4, <2>5 DEF TypeOK
<1> QED
  BY <1>2, <1>3, <1>4, TargetsShape

\* The restoration of a target changes this one, to what the snapshot has.
LEMMA RestoreDoes ==
  ASSUME TypeOK, NEW x \in Range(Targets(plan)), Restore(x)
  PROVE  /\ file' \in [Path -> Record \cup {None}]
         /\ index' \in [Bucket -> SUBSET ID] /\ marks' \in Marks
         /\ \A p \in Path : p # x => file'[p] = file[p]
         /\ \A w \in Range(plan) : x = w.path => file'[w.path] = None
         /\ \A b \in Bucket : <<"index", b>> # x => index'[b] = index[b]
         /\ \A b \in Bucket : <<"index", b>> = x => index'[b] = backup.index[b]
         /\ marks' = marks \/ marks' = backup.marks
<1>1. CASE \E w \in Range(plan) : x = w.path
  <2>1. PICK w \in Range(plan) : x = w.path
    BY <1>1
  <2>2. /\ x \in Path /\ x[1] # "index" /\ x[1] # "state"
    BY <2>1, PlanTyped, PathIsARecord
  <2>3. file' = [file EXCEPT ![x] = None] /\ index' = index /\ marks' = marks
    BY <2>2 DEF Restore
  <2>4. \A b \in Bucket : <<"index", b>> # x
    BY <2>2
  <2> QED
    BY <2>2, <2>3, <2>4 DEF TypeOK
<1>2. CASE \E b \in Bucket : x = <<"index", b>>
  <2>1. PICK b \in Bucket : x = <<"index", b>>
    BY <1>2
  <2>2. index' = [index EXCEPT ![b] = backup.index[b]] /\ file' = file /\ marks' = marks
    BY <2>1 DEF Restore
  <2>3. \A v \in Range(plan) : x # v.path
    BY <2>1, PlanTyped, PathIsARecord
  <2>4. backup.index \in [Bucket -> SUBSET ID]
    BY DEF TypeOK
  <2>5. /\ index' \in [Bucket -> SUBSET ID]
        /\ \A c \in Bucket : c # b => index'[c] = index[c]
        /\ index'[b] = backup.index[b]
    BY <2>2, <2>4 DEF TypeOK
  <2> QED
    BY <2>1, <2>2, <2>3, <2>5 DEF TypeOK
<1>3. CASE x = <<"state", "file">>
  <2>1. marks' = backup.marks /\ file' = file /\ index' = index
    BY <1>3 DEF Restore
  <2>2. \A v \in Range(plan) : x # v.path
    BY <1>3, PlanTyped, PathIsARecord
  <2>3. backup.marks \in Marks
    BY DEF TypeOK
  <2> QED
    BY <1>3, <2>1, <2>2, <2>3 DEF TypeOK
<1> QED
  BY <1>1, <1>2, <1>3, TargetsShape

------------------------------------------------------------------------------
(* The steps of the import *)

LEMMA EmptyRange == Range(<<>>) = {}
BY DEF Range

LEMMA InitIsSound == Init => IInv
<1> SUFFICES ASSUME Init PROVE IInv
  OBVIOUS
<1>1. PICK S \in SUBSET {t \in ID : t[1] = 1} :
        file = [p \in Path |-> IF p[1] = "active" /\ p[2] \in S
                               THEN [status |-> "Open", deps |-> {}] ELSE None]
  BY DEF Init
<1>2. [status |-> "Open", deps |-> {}] \in Record
  BY ConstantsAssumption DEF Record
<1>3. file \in [Path -> Record \cup {None}]
  BY <1>1, <1>2
<1>4. index \in [Bucket -> SUBSET ID]
  BY DEF Init, ListedIn
<1>5. NoMarks \in Marks
  BY ConstantsAssumption DEF NoMarks, Marks
<1>6. Empty \in [Bucket -> SUBSET ID]
  BY DEF Empty
<1>7. TypeOK
  <2>1. /\ backup \in [index : [Bucket -> SUBSET ID], marks : Marks]
        /\ before \in [file : [Path -> Record \cup {None}], index : [Bucket -> SUBSET ID]]
    BY <1>3, <1>4, <1>5, <1>6 DEF Init
  <2>2. plan \in Seq([path : Path, rec : Record]) /\ todo \in Seq(Target) /\ touched \in Seq(Target)
    BY DEF Init
  <2>3. mishaps \in 0 .. MaxMishaps /\ pc \in PC
    BY ConstantsAssumption DEF Init, PC
  <2> QED
    BY <1>3, <1>4, <1>5, <1>6, <2>1, <2>2, <2>3 DEF Init, TypeOK
<1>8. AtLeast(NoMarks, NoMarks)
  BY <1>5, AtLeastOrders
<1> QED
  BY <1>7, <1>8, EmptyRange
     DEF Init, IInv, LocksFit, ResultFits, PlanFits, TargetsFit, WrittenStands, RestStands,
         SnapshotIsCurrent, OthersUntouched, MarksKept, AtLeast, Writing

LEMMA StartKeeps ==
  ASSUME IInv, NEW batch \in Batch, Start(batch)
  PROVE  IInv'
<1> USE DEF disk
<1>1. TypeOK /\ batch \in Seq(BatchEntry) /\ Accepted(batch)
  BY ConstantsAssumption DEF IInv, Start
<1> DEFINE ws == Planned(batch)
<1>2. /\ pc = "idle" /\ pc' \in {"wantState", "snapshot"} /\ plan' = ws
      /\ list' = [b \in Bucket |-> ListedIn(file, b) \cup
                   {w.path[2] : w \in {v \in Range(ws) : v.path[1] = b}}]
      /\ before' = [before EXCEPT !.index = index] /\ dirty' = FALSE
      /\ pc' = IF inStore THEN "wantState" ELSE "snapshot"
      /\ UNCHANGED <<inStore, file, index, marks, stLock, backup, todo, touched, result,
                     floor, mishaps>>
  BY DEF Start
<1>3. /\ ws \in Seq([path : Path, rec : Record])
      /\ \A w \in Range(ws) : \E i \in DOMAIN batch : w = ws[i] /\ w.path[2] = IDOf(batch, i)
  <2>1. ws \in Seq([path : Path, rec : Record])
    BY <1>1, PlannedShape
  <2>2. ASSUME NEW w \in Range(ws)
        PROVE  \E i \in DOMAIN batch : w = ws[i] /\ w.path[2] = IDOf(batch, i)
    <3>1. PICK i \in DOMAIN batch : w = ws[i]
      BY <1>1, PlannedShape
    <3>2. ws[i].path[2] = IDOf(batch, i)
      BY <1>1, PlannedShape
    <3> QED
      BY <3>1, <3>2
  <2> QED
    BY <2>1, <2>2
<1>4. \A v, w \in Range(ws) : v.path[2] = w.path[2] => v = w
  <2> SUFFICES ASSUME NEW v \in Range(ws), NEW w \in Range(ws), v.path[2] = w.path[2]
               PROVE  v = w
    OBVIOUS
  <2>1. PICK i \in DOMAIN batch : v = ws[i] /\ v.path[2] = IDOf(batch, i)
    BY <1>3
  <2>2. PICK j \in DOMAIN batch : w = ws[j] /\ w.path[2] = IDOf(batch, j)
    BY <1>3
  <2>3. i = j
    BY <1>1, <2>1, <2>2, IDsDiffer
  <2> QED
    BY <2>1, <2>2, <2>3
<1> HIDE DEF ws
<1>5. \A w \in Range(ws) : w.path[1] \in Bucket /\ w.path[2] \in ID
  <2> SUFFICES ASSUME NEW w \in Range(ws) PROVE w.path[1] \in Bucket /\ w.path[2] \in ID
    OBVIOUS
  <2>1. w \in [path : Path, rec : Record]
    BY <1>3, RangeTyped
  <2>2. w.path \in Path
    BY <2>1
  <2> QED
    BY <2>2, PathIsARecord
<1>6. list' \in [Bucket -> SUBSET ID]
  <2>1. \A b \in Bucket : ListedIn(file, b) \subseteq ID
    BY DEF ListedIn
  <2> QED
    BY <1>2, <1>5, <2>1
<1>7. \A w \in Range(ws) : w.path[2] \in list'[w.path[1]]
  BY <1>2, <1>5
<1>8. TypeOK'
  <2>1. before' \in [file : [Path -> Record \cup {None}], index : [Bucket -> SUBSET ID]]
    BY <1>1, <1>2 DEF TypeOK
  <2> QED
    BY <1>1, <1>2, <1>3, <1>6, <2>1 DEF TypeOK, PC, Writing
<1>9. before'.file = before.file /\ before'.index = index
  BY <1>1, <1>2 DEF TypeOK
<1>10. LocksFit' /\ ResultFits'
  BY <1>2 DEF IInv, LocksFit, ResultFits, Writing
<1>11. PlanFits'
  BY <1>2, <1>4, <1>7 DEF PlanFits
<1>12. TargetsFit' /\ WrittenStands'
  BY <1>2 DEF IInv, TargetsFit, WrittenStands, ResultFits
<1>13. RestStands'
  BY <1>2, <1>9 DEF IInv, RestStands
<1>14. SnapshotIsCurrent' /\ OthersUntouched' /\ MarksKept'
  BY <1>2, <1>9 DEF IInv, SnapshotIsCurrent, OthersUntouched, MarksKept
<1> QED
  BY <1>8, <1>10, <1>11, <1>12, <1>13, <1>14 DEF IInv

LEMMA LockStateKeeps ==
  ASSUME IInv, LockState
  PROVE  IInv'
<1> USE DEF disk, mem, LockState
<1>1. TypeOK'
  BY DEF IInv, TypeOK, PC, Writing
<1>2. LocksFit' /\ ResultFits'
  BY DEF IInv, LocksFit, ResultFits, Writing
<1>3. PlanFits' /\ TargetsFit' /\ WrittenStands'
  BY DEF IInv, PlanFits, TargetsFit, WrittenStands, ResultFits
<1>4. RestStands' /\ SnapshotIsCurrent' /\ OthersUntouched' /\ MarksKept'
  BY DEF IInv, RestStands, SnapshotIsCurrent, OthersUntouched, MarksKept
<1> QED
  BY <1>1, <1>2, <1>3, <1>4 DEF IInv

\* The end of a command, however it comes about.
LEMMA LeaveKeeps ==
  ASSUME IInv, Leave, mishaps' \in 0 .. MaxMishaps
  PROVE  IInv'
<1> USE DEF disk, Leave
<1>1. TypeOK
  BY DEF IInv
<1>2. /\ pc' = "idle" /\ plan' = <<>> /\ list' = Empty /\ todo' = <<>> /\ touched' = <<>>
      /\ backup' = [index |-> Empty, marks |-> NoMarks] /\ result' = "none"
      /\ before' = [file |-> file, index |-> index] /\ dirty' = FALSE
      /\ stLock' = IF stLock = "import" THEN "nobody" ELSE stLock
      /\ UNCHANGED <<inStore, file, index, marks, floor>>
  OBVIOUS
<1>3. NoMarks \in Marks /\ Empty \in [Bucket -> SUBSET ID]
  BY ConstantsAssumption DEF NoMarks, Marks, Empty
<1>4. TypeOK'
  <2>1. /\ backup' \in [index : [Bucket -> SUBSET ID], marks : Marks]
        /\ before' \in [file : [Path -> Record \cup {None}], index : [Bucket -> SUBSET ID]]
    BY <1>1, <1>2, <1>3 DEF TypeOK
  <2>2. plan' \in Seq([path : Path, rec : Record]) /\ todo' \in Seq(Target) /\ touched' \in Seq(Target)
    BY <1>2
  <2>3. pc' \in PC /\ stLock' \in {"import", "init", "nobody"}
    BY <1>1, <1>2 DEF PC, TypeOK
  <2> HIDE DEF Leave
  <2> QED
    BY <1>1, <1>2, <1>3, <2>1, <2>2, <2>3 DEF TypeOK
<1>5. LocksFit' /\ ResultFits'
  BY <1>2 DEF IInv, LocksFit, ResultFits, Writing
<1>6. PlanFits' /\ TargetsFit' /\ WrittenStands'
  BY <1>2, EmptyRange DEF PlanFits, TargetsFit, WrittenStands
<1>7. RestStands' /\ SnapshotIsCurrent'
  BY <1>2 DEF RestStands, SnapshotIsCurrent
<1>8. OthersUntouched' /\ MarksKept'
  BY <1>2 DEF IInv, OthersUntouched, MarksKept
<1> QED
  BY <1>4, <1>5, <1>6, <1>7, <1>8 DEF IInv

LEMMA LeavingKeeps ==
  ASSUME IInv, End \/ GiveUp \/ Crash
  PROVE  IInv'
<1>1. Leave /\ mishaps' \in 0 .. MaxMishaps
  BY ConstantsAssumption DEF End, GiveUp, Crash, IInv, TypeOK
<1> QED
  BY <1>1, LeaveKeeps

\* The snapshot ends the command, or finds the paths of the batch free.
LEMMA SnapshotKeeps ==
  ASSUME IInv, Snapshot
  PROVE  IInv'
<1> USE DEF disk
<1>1. TypeOK /\ file = before.file /\ pc = "snapshot" /\ touched = <<>>
  BY DEF IInv, RestStands, TargetsFit, Snapshot
<1>2. UNCHANGED <<inStore, file, index, marks, stLock, plan, list, touched, before, floor,
                  dirty, mishaps>>
  BY DEF Snapshot
<1>3. CASE \E w \in Range(plan) : file[w.path] # None
  <2>1. pc' = "end" /\ result' = "failed" /\ UNCHANGED <<backup, todo>>
    BY <1>3 DEF Snapshot
  <2>2. TypeOK'
    BY <1>1, <1>2, <2>1 DEF TypeOK, PC, Writing
  <2>3. LocksFit' /\ ResultFits'
    BY <1>1, <1>2, <2>1 DEF IInv, LocksFit, ResultFits, Writing
  <2>4. PlanFits' /\ TargetsFit' /\ WrittenStands'
    BY <1>1, <1>2, <2>1 DEF IInv, PlanFits, TargetsFit, WrittenStands
  <2>5. RestStands'
    BY <1>1, <1>2, <2>1 DEF IInv, RestStands, SameBut
  <2>6. SnapshotIsCurrent' /\ OthersUntouched' /\ MarksKept'
    BY <1>2, <2>1 DEF IInv, SnapshotIsCurrent, OthersUntouched, MarksKept
  <2> QED
    BY <2>2, <2>3, <2>4, <2>5, <2>6 DEF IInv
<1>4. CASE \A w \in Range(plan) : file[w.path] = None
  <2>1. /\ pc' = "write" /\ backup' = [index |-> index, marks |-> marks]
        /\ todo' = Targets(plan) /\ result' = result
    BY <1>4 DEF Snapshot
  <2>2. TypeOK'
    BY <1>1, <1>2, <2>1, TargetsShape DEF TypeOK, PC, Writing
  <2>3. LocksFit' /\ ResultFits'
    BY <1>1, <1>2, <2>1 DEF IInv, LocksFit, ResultFits, Writing
  <2>4. PlanFits'
    BY <1>1, <1>2, <1>4, <2>1 DEF IInv, PlanFits
  <2>5. TargetsFit' /\ WrittenStands'
    BY <1>1, <1>2, <2>1, TargetsStay, EmptyRange
       DEF IInv, TargetsFit, WrittenStands, ResultFits
  <2>6. RestStands'
    BY <1>1, <1>2, <2>1, EmptyRange DEF IInv, RestStands, SameBut
  <2>7. SnapshotIsCurrent' /\ OthersUntouched' /\ MarksKept'
    BY <1>2, <2>1 DEF IInv, SnapshotIsCurrent, OthersUntouched, MarksKept, AtLeast
  <2> QED
    BY <2>2, <2>3, <2>4, <2>5, <2>6, <2>7 DEF IInv
<1> QED
  BY <1>3, <1>4

\* Where there is more to write or to put back.
LEMMA NextTarget ==
  ASSUME IInv, pc \in {"write", "undo"}, todo # <<>>
  PROVE  /\ Head(todo) \in Target /\ Tail(todo) \in Seq(Target)
         /\ Range(todo) = {Head(todo)} \cup Range(Tail(todo))
         /\ Head(todo) \in Range(Targets(plan))
<1>1. todo \in Seq(Target)
  BY DEF IInv, TypeOK
<1>2. /\ Head(todo) \in Target /\ Tail(todo) \in Seq(Target)
      /\ Range(todo) = {Head(todo)} \cup Range(Tail(todo))
  BY <1>1, RangeHeadTail
<1>3. Range(todo) \subseteq Range(Targets(plan))
  BY DEF IInv, TargetsFit
<1> QED
  BY <1>2, <1>3

\* The write of a target of the batch, whatever comes of it.
LEMMA WritingKeeps ==
  ASSUME IInv, pc = "write", NEW x \in Range(Targets(plan)),
         WriteTarget(x) \/ UNCHANGED disk,
         UNCHANGED <<before, dirty, list, plan, floor, backup, inStore>>
  PROVE  /\ file' \in [Path -> Record \cup {None}]
         /\ index' \in [Bucket -> SUBSET ID] /\ marks' \in Marks
         /\ \A p \in Path : p \notin Range(touched) /\ p # x => file'[p] = before.file[p]
         /\ ~dirty => \A b \in Bucket : <<"index", b>> \notin Range(touched) /\ <<"index", b>> # x
                                          => index'[b] = before.index[b]
         /\ AtLeast(marks', marks)
         /\ OthersUntouched' /\ MarksKept'
<1> USE DEF disk
<1>1. TypeOK /\ PlanFits /\ SameBut(Range(touched))
  BY DEF IInv, RestStands
<1>2. CASE WriteTarget(x)
  <2>1. /\ file' \in [Path -> Record \cup {None}]
        /\ index' \in [Bucket -> SUBSET ID] /\ marks' \in Marks
        /\ \A p \in Path : p # x => file'[p] = file[p]
        /\ \A b \in Bucket : <<"index", b>> # x => index'[b] = index[b]
        /\ AtLeast(marks', marks)
    BY <1>1, <1>2, WriteTargetDoes
  <2>2. /\ \A p \in Path : p \notin Range(touched) /\ p # x => file'[p] = before.file[p]
        /\ ~dirty => \A b \in Bucket : <<"index", b>> \notin Range(touched) /\ <<"index", b>> # x
                                         => index'[b] = before.index[b]
    BY <1>1, <2>1 DEF SameBut
  <2>3. OthersUntouched'
    <3> SUFFICES ASSUME NEW p \in Path, before.file[p] # None
                 PROVE  file'[p] = before.file[p]
      BY DEF OthersUntouched
    <3>1. file[p] = before.file[p]
      BY DEF IInv, OthersUntouched
    <3>2. p # x
      <4> SUFFICES ASSUME p = x PROVE FALSE
        OBVIOUS
      <4>1. \/ \E w \in Range(plan) : x = w.path
            \/ \E b \in Bucket : x = <<"index", b>>
            \/ x = <<"state", "file">>
        BY <1>1, TargetsShape
      <4>2. \A w \in Range(plan) : x # w.path
        BY <1>1 DEF PlanFits
      <4> QED
        BY <4>1, <4>2, PathIsARecord
    <3> QED
      BY <2>1, <3>1, <3>2
  <2>4. MarksKept'
    <3>1. marks \in Marks /\ floor \in Marks /\ AtLeast(marks, floor)
      BY <1>1 DEF IInv, MarksKept, AtLeast, TypeOK
    <3>2. AtLeast(marks', floor)
      BY <2>1, <3>1, AtLeastOrders
    <3> QED
      BY <3>2 DEF MarksKept, AtLeast
  <2> QED
    BY <2>1, <2>2, <2>3, <2>4
<1>3. CASE UNCHANGED disk
  <2>1. OthersUntouched' /\ MarksKept'
    BY <1>3 DEF IInv, OthersUntouched, MarksKept
  <2>2. AtLeast(marks', marks)
    BY <1>1, <1>3, AtLeastOrders DEF TypeOK
  <2> QED
    BY <1>1, <1>3, <2>1, <2>2 DEF TypeOK, SameBut
<1> QED
  BY <1>2, <1>3

LEMMA WriteNextKeeps ==
  ASSUME IInv, WriteNext
  PROVE  IInv'
<1> DEFINE x == Head(todo)
<1>1. /\ pc = "write" /\ pc' = "write" /\ todo # <<>> /\ WriteTarget(x)
      /\ todo' = Tail(todo) /\ touched' = Append(touched, x)
      /\ UNCHANGED <<inStore, stLock, plan, list, backup, result, before, floor, dirty, mishaps>>
  BY DEF WriteNext
<1>2. TypeOK /\ PlanFits /\ result = "none"
  BY <1>1 DEF IInv, ResultFits
<1>3. /\ x \in Target /\ Tail(todo) \in Seq(Target)
      /\ Range(todo) = {x} \cup Range(Tail(todo))
      /\ x \in Range(Targets(plan))
  BY <1>1, NextTarget
<1>4. touched' \in Seq(Target) /\ Range(touched') = Range(touched) \cup {x}
  BY <1>1, <1>2, <1>3, RangeAppend DEF TypeOK
<1> HIDE DEF x
<1>5. /\ file' \in [Path -> Record \cup {None}]
      /\ index' \in [Bucket -> SUBSET ID] /\ marks' \in Marks
      /\ \A p \in Path : p # x => file'[p] = file[p]
      /\ \A w \in Range(plan) : x = w.path => file'[w.path] = w.rec
      /\ \A b \in Bucket : <<"index", b>> # x => index'[b] = index[b]
      /\ \A b \in Bucket : <<"index", b>> = x => index'[b] = list[b]
      /\ x = <<"state", "file">> => \A w \in Range(plan) : Covers(marks', w.path[2])
  BY <1>1, <1>2, <1>3, WriteTargetDoes
<1>6. /\ \A p \in Path : p \notin Range(touched) /\ p # x => file'[p] = before.file[p]
      /\ ~dirty => \A b \in Bucket : <<"index", b>> \notin Range(touched) /\ <<"index", b>> # x
                                       => index'[b] = before.index[b]
      /\ AtLeast(marks', marks) /\ OthersUntouched' /\ MarksKept'
  BY <1>1, <1>3, WritingKeeps
<1>7. TypeOK'
  BY <1>1, <1>2, <1>3, <1>4, <1>5 DEF TypeOK
<1>8. LocksFit' /\ ResultFits' /\ SnapshotIsCurrent' /\ PlanFits'
  BY <1>1 DEF IInv, LocksFit, ResultFits, SnapshotIsCurrent, PlanFits
<1>9. TargetsFit'
  <2>1. Targets(plan)' = Targets(plan)
    BY <1>1, TargetsStay
  <2> QED
    BY <1>1, <1>2, <1>3, <1>4, <2>1 DEF IInv, TargetsFit
<1>10. RestStands'
  BY <1>1, <1>4, <1>6 DEF IInv, RestStands, SameBut
<1>11. WrittenStands'
  <2> SUFFICES ASSUME NEW y \in Range(touched')
               PROVE  /\ \A w \in Range(plan) : y = w.path => file'[w.path] = w.rec
                      /\ \A b \in Bucket : y = <<"index", b>> /\ ~dirty => index'[b] = list[b]
                      /\ y = <<"state", "file">> =>
                           \A w \in Range(plan) : Covers(marks', w.path[2])
    BY <1>1 DEF WrittenStands
  <2>1. CASE y = x
    BY <1>5, <2>1
  <2>2. CASE y # x
    <3>1. y \in Range(touched)
      BY <1>4, <2>2
    <3>2. /\ \A w \in Range(plan) : y = w.path => file[w.path] = w.rec
          /\ \A b \in Bucket : y = <<"index", b>> /\ ~dirty => index[b] = list[b]
          /\ y = <<"state", "file">> => \A w \in Range(plan) : Covers(marks, w.path[2])
      BY <1>1, <3>1 DEF IInv, WrittenStands
    <3>3. ASSUME NEW w \in Range(plan), Covers(marks, w.path[2])
          PROVE  Covers(marks', w.path[2])
      <4>1. w.path[2] \in ID
        BY <1>2, PlanTyped
      <4>2. w.path[2][1] \in Number /\ w.path[2][2] \in {0} \cup Letter
        BY <4>1, IDShape
      <4>3. /\ marks.next \in Nat /\ marks'.next \in Nat
            /\ \A i \in Number : marks.mark[i] \in Nat /\ marks'.mark[i] \in Nat
        BY <1>2, <1>5, ConstantsAssumption DEF TypeOK, Marks, Letter
      <4> QED
        BY <1>6, <3>3, <4>2, <4>3 DEF Covers, AtLeast, Number, Letter
    <3> QED
      BY <1>2, <1>5, <2>2, <3>2, <3>3, PlanTyped
  <2> QED
    BY <2>1, <2>2
<1> QED
  BY <1>6, <1>7, <1>8, <1>9, <1>10, <1>11 DEF IInv

\* The failed write counts as touched, so that what it may have left is put back.
LEMMA WriteFailsKeeps ==
  ASSUME IInv, WriteFails
  PROVE  IInv'
<1> DEFINE x == Head(todo)
<1> DEFINE undo == Append(touched, x)
<1>1. /\ pc = "write" /\ pc' = "undo" /\ todo # <<>> /\ (WriteTarget(x) \/ UNCHANGED disk)
      /\ touched' = <<>> /\ todo' = Reverse(undo) /\ result' = "failed"
      /\ mishaps < MaxMishaps /\ mishaps' = mishaps + 1
      /\ UNCHANGED <<inStore, stLock, plan, list, backup, before, floor, dirty>>
  BY DEF WriteFails
<1>2. TypeOK /\ PlanFits
  BY DEF IInv
<1>3. /\ x \in Target /\ x \in Range(Targets(plan)) /\ Range(todo) = {x} \cup Range(Tail(todo))
  BY <1>1, NextTarget
<1>4. undo \in Seq(Target) /\ Range(undo) = Range(touched) \cup {x}
  BY <1>2, <1>3, RangeAppend DEF TypeOK
<1> HIDE DEF x, undo
<1>5. todo' \in Seq(Target) /\ Range(todo') = Range(touched) \cup {x}
  BY <1>1, <1>4, RangeReverse
<1>6. /\ file' \in [Path -> Record \cup {None}]
      /\ index' \in [Bucket -> SUBSET ID] /\ marks' \in Marks
      /\ \A p \in Path : p \notin Range(touched) /\ p # x => file'[p] = before.file[p]
      /\ ~dirty => \A b \in Bucket : <<"index", b>> \notin Range(touched) /\ <<"index", b>> # x
                                       => index'[b] = before.index[b]
      /\ OthersUntouched' /\ MarksKept'
  BY <1>1, <1>3, WritingKeeps
<1>7. TypeOK'
  <2>1. touched' \in Seq(Target) /\ mishaps' \in 0 .. MaxMishaps
    BY <1>1, <1>2, ConstantsAssumption DEF TypeOK
  <2>2. pc' \in PC /\ result' \in {"none", "imported", "failed", "incomplete"}
    BY <1>1 DEF PC, Writing
  <2> QED
    BY <1>1, <1>2, <1>5, <1>6, <2>1, <2>2 DEF TypeOK
<1>8. LocksFit' /\ ResultFits'
  BY <1>1 DEF IInv, LocksFit, ResultFits, Writing
<1>9. SnapshotIsCurrent' /\ PlanFits' /\ WrittenStands'
  BY <1>1 DEF IInv, SnapshotIsCurrent, PlanFits, WrittenStands
<1>10. TargetsFit'
  <2>1. Targets(plan)' = Targets(plan)
    BY <1>1, TargetsStay
  <2> QED
    BY <1>1, <1>3, <1>5, <2>1 DEF IInv, TargetsFit
<1>11. RestStands'
  BY <1>1, <1>5, <1>6 DEF IInv, RestStands, SameBut
<1> QED
  BY <1>6, <1>7, <1>8, <1>9, <1>10, <1>11 DEF IInv

\* A target is put back, or not, and is not tried again.
LEMMA RestoringKeeps ==
  ASSUME IInv, pc = "undo", todo # <<>>, NEW x, x = Head(todo),
         Restore(x) \/ UNCHANGED disk, todo' = Tail(todo), pc' = "undo",
         UNCHANGED <<inStore, stLock, plan, list, backup, touched, before, floor, dirty, mishaps>>,
         \/ result' = result /\ Restore(x)
         \/ result' = "incomplete"
  PROVE  IInv'
<1> USE DEF disk
<1>1. TypeOK /\ PlanFits /\ result \in {"failed", "incomplete"}
  BY DEF IInv, ResultFits
<1>2. /\ Tail(todo) \in Seq(Target) /\ Range(todo) = {x} \cup Range(Tail(todo))
      /\ x \in Range(Targets(plan))
  BY NextTarget
<1>3. ASSUME NEW p \in Path, p = x
      PROVE  \E w \in Range(plan) : x = w.path
  BY <1>1, <1>2, <1>3, TargetsShape, PathIsARecord
<1>4. ASSUME NEW p \in Path, p = x
      PROVE  before.file[p] = None
  BY <1>1, <1>3, <1>4 DEF PlanFits
<1>5. /\ file' \in [Path -> Record \cup {None}]
      /\ index' \in [Bucket -> SUBSET ID] /\ marks' \in Marks
      /\ \A p \in Path : p # x => file'[p] = file[p]
      /\ marks' = marks \/ marks' = backup.marks
  <2>1. CASE Restore(x)
    BY <1>1, <1>2, <2>1, RestoreDoes
  <2>2. CASE UNCHANGED disk
    BY <1>1, <2>2 DEF TypeOK
  <2> QED
    BY <2>1, <2>2
<1>6. TypeOK'
  <2>1. pc' \in PC /\ result' \in {"none", "imported", "failed", "incomplete"}
    BY <1>1 DEF PC, Writing
  <2> QED
    BY <1>1, <1>2, <1>5, <2>1 DEF TypeOK
<1>7. LocksFit' /\ ResultFits' /\ PlanFits' /\ WrittenStands' /\ SnapshotIsCurrent'
  BY <1>1
     DEF IInv, LocksFit, ResultFits, PlanFits, WrittenStands, SnapshotIsCurrent, Writing
<1>8. TargetsFit'
  <2>1. Targets(plan)' = Targets(plan)
    BY TargetsStay
  <2> QED
    BY <1>1, <1>2, <2>1 DEF IInv, TargetsFit
<1>9. RestStands'
  <2> SUFFICES ASSUME result' = "failed"
               PROVE  /\ \A p \in Path : p \notin Range(Tail(todo)) => file'[p] = before.file[p]
                      /\ ~dirty => \A b \in Bucket : <<"index", b>> \notin Range(Tail(todo))
                                                       => index'[b] = before.index[b]
    BY DEF IInv, RestStands, SameBut
  <2>1. result = "failed" /\ Restore(x)
    OBVIOUS
  <2>2. SameBut(Range(todo)) /\ (~dirty => backup.index = before.index)
    BY <2>1 DEF IInv, RestStands
  <2>3. /\ \A w \in Range(plan) : x = w.path => file'[w.path] = None
        /\ \A b \in Bucket : <<"index", b>> # x => index'[b] = index[b]
        /\ \A b \in Bucket : <<"index", b>> = x => index'[b] = backup.index[b]
    BY <1>1, <1>2, <2>1, RestoreDoes
  <2>4. \A p \in Path : p \notin Range(Tail(todo)) => file'[p] = before.file[p]
    BY <1>2, <1>3, <1>4, <1>5, <2>2, <2>3 DEF SameBut
  <2>5. ~dirty => \A b \in Bucket : <<"index", b>> \notin Range(Tail(todo))
                                      => index'[b] = before.index[b]
    BY <1>2, <2>2, <2>3 DEF SameBut
  <2> QED
    BY <2>4, <2>5
<1>10. OthersUntouched'
  BY <1>4, <1>5 DEF IInv, OthersUntouched
<1>11. MarksKept'
  <2>1. AtLeast(marks, floor) /\ AtLeast(backup.marks, floor)
    BY DEF IInv, MarksKept, AtLeast, SnapshotIsCurrent
  <2>2. AtLeast(marks', floor)
    BY <1>5, <2>1
  <2> QED
    BY <2>2 DEF MarksKept, AtLeast
<1> QED
  BY <1>6, <1>7, <1>8, <1>9, <1>10, <1>11 DEF IInv

LEMMA UndoKeeps ==
  ASSUME IInv, Undo \/ UndoFails
  PROVE  IInv'
<1> DEFINE x == Head(todo)
<1>1. /\ pc = "undo" /\ pc' = "undo" /\ todo # <<>>
      /\ Restore(x) \/ UNCHANGED disk
      /\ todo' = Tail(todo)
      /\ UNCHANGED <<inStore, stLock, plan, list, backup, touched, before, floor, dirty, mishaps>>
      /\ \/ result' = result /\ Restore(x)
         \/ result' = "incomplete"
  BY DEF Undo, UndoFails
<1> HIDE DEF x
<1>2. x = Head(todo)
  BY DEF x
<1> QED
  BY <1>1, <1>2, RestoringKeeps

\* All is written, or all has been tried.
LEMMA FinishKeeps ==
  ASSUME IInv, Finish
  PROVE  IInv'
<1> USE DEF disk, mem
<1>1. TypeOK /\ PlanFits
  BY DEF IInv
<1>2. /\ pc \in {"write", "undo"} /\ todo = <<>> /\ pc' = "end" /\ Range(todo) = {}
      /\ result' = IF pc = "write" THEN "imported" ELSE result
      /\ floor' = IF pc = "write" THEN marks ELSE floor
      /\ UNCHANGED <<inStore, file, index, marks, stLock, plan, list, backup, todo, touched,
                     before, dirty, mishaps>>
  BY EmptyRange DEF Finish
<1>3. result \in {"none", "failed", "incomplete"} /\ (pc = "write" => result = "none")
  BY <1>2 DEF IInv, ResultFits
<1>4. TypeOK'
  <2>1. /\ pc' \in PC /\ result' \in {"none", "imported", "failed", "incomplete"}
        /\ floor' \in Marks
    BY <1>1, <1>2, <1>3 DEF TypeOK, PC, Writing
  <2> QED
    BY <1>1, <1>2, <2>1 DEF TypeOK
<1>5. LocksFit' /\ ResultFits' /\ PlanFits' /\ SnapshotIsCurrent'
  BY <1>2, <1>3 DEF IInv, LocksFit, ResultFits, PlanFits, SnapshotIsCurrent, Writing
<1>6. TargetsFit'
  <2>1. Targets(plan)' = Targets(plan)
    BY <1>2, TargetsStay
  <2> QED
    BY <1>2, <1>3, <2>1 DEF IInv, TargetsFit
<1>7. WrittenStands'
  BY <1>2, <1>3 DEF IInv, WrittenStands
<1>8. RestStands'
  BY <1>2, <1>3 DEF IInv, RestStands, SameBut
<1>9. OthersUntouched' /\ MarksKept'
  <2>1. AtLeast(marks, marks)
    BY <1>1, AtLeastOrders DEF TypeOK
  <2> QED
    BY <1>2, <2>1 DEF IInv, OthersUntouched, MarksKept, AtLeast
<1> QED
  BY <1>4, <1>5, <1>6, <1>7, <1>8, <1>9 DEF IInv

------------------------------------------------------------------------------
(* The steps of the others *)

\* init has the store-state lock only while no import does.
LEMMA InitKeeps ==
  ASSUME IInv, InitLock \/ InitWrite
  PROVE  IInv'
<1> USE DEF disk, mem
<1>1. TypeOK
  BY DEF IInv
<1>2. CASE InitLock
  <2> USE <1>2 DEF InitLock
  <2>1. TypeOK'
    BY <1>1 DEF TypeOK
  <2>2. LocksFit' /\ ResultFits' /\ PlanFits' /\ SnapshotIsCurrent'
    BY DEF IInv, LocksFit, ResultFits, PlanFits, SnapshotIsCurrent
  <2>3. TargetsFit'
    <3>1. Targets(plan)' = Targets(plan)
      BY TargetsStay
    <3> QED
      BY <3>1 DEF IInv, TargetsFit
  <2>4. WrittenStands' /\ RestStands' /\ OthersUntouched' /\ MarksKept'
    BY DEF IInv, WrittenStands, RestStands, SameBut, OthersUntouched, MarksKept
  <2> QED
    BY <2>1, <2>2, <2>3, <2>4 DEF IInv
<1>3. CASE InitWrite
  <2>1. /\ stLock = "init" /\ marks' = Raised(marks, Taken) /\ floor' = marks'
        /\ stLock' = "nobody"
        /\ UNCHANGED <<inStore, file, index, pc, plan, list, backup, todo, touched, result,
                       before, dirty, mishaps>>
    BY <1>3 DEF InitWrite
  <2>2. pc \in {"idle", "wantState"} /\ result = "none" /\ touched = <<>> /\ inStore
    BY <1>1, <2>1 DEF IInv, LocksFit, ResultFits, TargetsFit, TypeOK, PC
  <2>3. marks' \in Marks
    <3>1. Taken \in SUBSET ID
      BY <1>1, TakenTyped
    <3> QED
      BY <1>1, <2>1, <3>1, RaisedCovers DEF TypeOK
  <2>4. TypeOK'
    BY <1>1, <2>1, <2>3 DEF TypeOK
  <2>5. LocksFit' /\ ResultFits' /\ PlanFits' /\ SnapshotIsCurrent'
    BY <2>1, <2>2 DEF IInv, LocksFit, ResultFits, PlanFits, SnapshotIsCurrent, Writing
  <2>6. TargetsFit' /\ WrittenStands' /\ RestStands' /\ OthersUntouched'
    BY <2>1, <2>2 DEF IInv, TargetsFit, WrittenStands, RestStands, OthersUntouched
  <2>7. MarksKept'
    <3>1. AtLeast(marks', marks')
      BY <2>3, AtLeastOrders
    <3> QED
      BY <2>1, <3>1 DEF MarksKept, AtLeast
  <2> QED
    BY <2>4, <2>5, <2>6, <2>7 DEF IInv
<1> QED
  BY <1>2, <1>3

\* A regeneration changes the indexes alone, and the history knows of it.
LEMMA RegenerateKeeps ==
  ASSUME IInv, Regenerate
  PROVE  IInv'
<1> USE DEF mem
<1>1. /\ index' = [b \in Bucket |-> ListedIn(file, b)] /\ dirty' = (pc # "idle")
      /\ UNCHANGED <<inStore, file, marks, stLock, pc, plan, list, backup, todo, touched,
                     result, before, floor, mishaps>>
  BY DEF Regenerate
<1>2. TypeOK'
  <2>1. index' \in [Bucket -> SUBSET ID]
    BY <1>1 DEF ListedIn
  <2>2. dirty' \in BOOLEAN
    BY <1>1
  <2> QED
    BY <1>1, <2>1, <2>2 DEF IInv, TypeOK
<1>3. LocksFit' /\ ResultFits' /\ PlanFits' /\ SnapshotIsCurrent'
  BY <1>1 DEF IInv, LocksFit, ResultFits, PlanFits, SnapshotIsCurrent
<1>4. TargetsFit'
  <2>1. Targets(plan)' = Targets(plan)
    BY <1>1, TargetsStay
  <2> QED
    BY <1>1, <2>1 DEF IInv, TargetsFit
<1>5. WrittenStands' /\ RestStands'
  BY <1>1 DEF IInv, WrittenStands, RestStands, SameBut, ResultFits
<1>6. OthersUntouched' /\ MarksKept'
  BY <1>1 DEF IInv, OthersUntouched, MarksKept
<1> QED
  BY <1>2, <1>3, <1>4, <1>5, <1>6 DEF IInv

\* What a user does to a record while none of the batch is written is his.
LEMMA HandKeeps ==
  ASSUME IInv, HandAdd \/ HandDelete
  PROVE  IInv'
<1> USE DEF mem
<1>1. PICK p \in Path, rec \in Record \cup {None} : HandChange(p, rec)
  <2>1. [status |-> "Open", deps |-> {}] \in Record
    BY ConstantsAssumption DEF Record
  <2> QED
    BY <2>1 DEF HandAdd, HandDelete, Present
<1>2. /\ pc \in {"idle", "wantState"} /\ mishaps < MaxMishaps /\ mishaps' = mishaps + 1
      /\ file' = [file EXCEPT ![p] = rec]
      /\ before' = [before EXCEPT !.file[p] = rec]
      /\ UNCHANGED <<inStore, index, marks, stLock, pc, plan, list, backup, todo, touched,
                     result, floor, dirty>>
  BY <1>1 DEF HandChange
<1>3. TypeOK /\ file = before.file /\ result = "none" /\ touched = <<>>
  BY <1>2 DEF IInv, RestStands, ResultFits, TargetsFit
<1>4. before'.file = file' /\ before'.index = before.index
  BY <1>2, <1>3 DEF TypeOK
<1>5. TypeOK'
  <2>1. file' \in [Path -> Record \cup {None}]
    BY <1>2, <1>3 DEF TypeOK
  <2>2. before' \in [file : [Path -> Record \cup {None}], index : [Bucket -> SUBSET ID]]
    BY <1>2, <1>3 DEF TypeOK
  <2>3. mishaps' \in 0 .. MaxMishaps
    BY <1>2, <1>3, ConstantsAssumption DEF TypeOK
  <2> QED
    BY <1>2, <1>3, <2>1, <2>2, <2>3 DEF TypeOK
<1>6. LocksFit' /\ ResultFits' /\ PlanFits' /\ SnapshotIsCurrent'
  BY <1>2 DEF IInv, LocksFit, ResultFits, PlanFits, SnapshotIsCurrent
<1>7. TargetsFit' /\ WrittenStands' /\ RestStands'
  BY <1>2, <1>3, <1>4 DEF IInv, TargetsFit, WrittenStands, RestStands
<1>8. OthersUntouched' /\ MarksKept'
  BY <1>2, <1>4 DEF IInv, OthersUntouched, MarksKept
<1> QED
  BY <1>5, <1>6, <1>7, <1>8 DEF IInv

LEMMA StutterKeeps ==
  ASSUME IInv, UNCHANGED vars
  PROVE  IInv'
<1> USE DEF vars, disk, mem
<1>1. TypeOK'
  BY DEF IInv, TypeOK
<1>2. LocksFit' /\ ResultFits' /\ PlanFits' /\ SnapshotIsCurrent'
  BY DEF IInv, LocksFit, ResultFits, PlanFits, SnapshotIsCurrent
<1>3. TargetsFit'
  <2>1. Targets(plan)' = Targets(plan)
    BY TargetsStay
  <2> QED
    BY <2>1 DEF IInv, TargetsFit
<1>4. WrittenStands' /\ RestStands' /\ OthersUntouched' /\ MarksKept'
  BY DEF IInv, WrittenStands, RestStands, SameBut, OthersUntouched, MarksKept
<1> QED
  BY <1>1, <1>2, <1>3, <1>4 DEF IInv

LEMMA StepKeeps == IInv /\ [Next]_vars => IInv'
<1> SUFFICES ASSUME IInv, [Next]_vars PROVE IInv'
  OBVIOUS
<1>1. ASSUME NEW batch \in Batch, Start(batch) PROVE IInv'
  BY <1>1, StartKeeps
<1>2. CASE LockState
  BY <1>2, LockStateKeeps
<1>3. CASE Snapshot
  BY <1>3, SnapshotKeeps
<1>4. CASE WriteNext
  BY <1>4, WriteNextKeeps
<1>5. CASE WriteFails
  BY <1>5, WriteFailsKeeps
<1>6. CASE Undo \/ UndoFails
  BY <1>6, UndoKeeps
<1>7. CASE Finish
  BY <1>7, FinishKeeps
<1>8. CASE End \/ GiveUp \/ Crash
  BY <1>8, LeavingKeeps
<1>9. CASE InitLock \/ InitWrite
  BY <1>9, InitKeeps
<1>10. CASE Regenerate
  BY <1>10, RegenerateKeeps
<1>11. CASE HandAdd \/ HandDelete
  BY <1>11, HandKeeps
<1>12. CASE UNCHANGED vars
  BY <1>12, StutterKeeps
<1> QED
  BY <1>1, <1>2, <1>3, <1>4, <1>5, <1>6, <1>7, <1>8, <1>9, <1>10, <1>11, <1>12 DEF Next

------------------------------------------------------------------------------
(* What follows *)

\* Whatever fails, whoever stops and whatever the others do, the invariant holds
\* in every state: locks, result, plan and targets fit the step of the command,
\* what is written stands, and what is not, or has been put back, is as it was.
THEOREM InvariantHolds == Spec => []IInv
BY InitIsSound, StepKeeps, PTL DEF Spec

\* Every variable has its type.
THEOREM TypeCorrect == Spec => []TypeOK
<1>1. IInv => TypeOK
  BY DEF IInv
<1> QED
  BY <1>1, InvariantHolds, PTL

LEMMA AllOrNothingFollows ==
  ASSUME IInv
  PROVE  AllOrNothing
<1>1. TypeOK
  BY DEF IInv
<1>2. ASSUME result = "imported", NEW w \in Range(plan)
      PROVE  /\ file[w.path] = w.rec
             /\ ~dirty => w.path[2] \in index[w.path[1]]
             /\ inStore => Covers(marks, w.path[2])
  <2>1. \A x \in Range(Targets(plan)) : x \in Range(touched)
    BY <1>2 DEF IInv, TargetsFit
  <2>2. /\ w.path \in Range(touched)
        /\ \A b \in Bucket : <<"index", b>> \in Range(touched)
        /\ inStore => <<"state", "file">> \in Range(touched)
    BY <1>1, <2>1, TargetsShape
  <2>3. file[w.path] = w.rec
    BY <1>2, <2>2 DEF IInv, WrittenStands
  <2>4. ASSUME ~dirty PROVE w.path[2] \in index[w.path[1]]
    <3>1. w.path[1] \in Bucket
      BY <1>1, PlanTyped
    <3>2. index[w.path[1]] = list[w.path[1]]
      BY <1>2, <2>2, <2>4, <3>1 DEF IInv, WrittenStands
    <3> QED
      BY <3>2 DEF IInv, PlanFits
  <2>5. ASSUME inStore PROVE Covers(marks, w.path[2])
    BY <1>2, <2>2, <2>5 DEF IInv, WrittenStands
  <2> QED
    BY <2>3, <2>4, <2>5
<1>3. ASSUME pc = "end", result = "failed"
      PROVE  file = before.file /\ (~dirty => index = before.index)
  <2>1. /\ \A p \in Path : file[p] = before.file[p]
        /\ ~dirty => \A b \in Bucket : index[b] = before.index[b]
    BY <1>3 DEF IInv, RestStands, SameBut
  <2>2. /\ file \in [Path -> Record \cup {None}] /\ index \in [Bucket -> SUBSET ID]
        /\ before.file \in [Path -> Record \cup {None}]
        /\ before.index \in [Bucket -> SUBSET ID]
    BY <1>1 DEF TypeOK
  <2> QED
    BY <2>1, <2>2
<1> QED
  BY <1>2, <1>3 DEF AllOrNothing, Covers

\* writeTaskImportLocked: an import that reports success has written everything,
\* and one that reports a complete rollback has left nothing, wherever it failed.
THEOREM WholeOrNothing == Spec => []AllOrNothing
<1>1. IInv => AllOrNothing
  BY AllOrNothingFollows
<1> QED
  BY <1>1, InvariantHolds, PTL

\* No write and no rollback, complete or not, changes a record of somebody else.
THEOREM OthersKept == Spec => []OthersUntouched
<1>1. IInv => OthersUntouched
  BY DEF IInv
<1> QED
  BY <1>1, InvariantHolds, PTL

\* The rollback of the state file loses no mark that had been made persistent.
THEOREM MarksNeverFall == Spec => []MarksKept
<1>1. IInv => MarksKept
  BY DEF IInv
<1> QED
  BY <1>1, InvariantHolds, PTL

\* planTaskImport: a plan that is accepted names new IDs, all different and past
\* the marks, refers to nothing that does not exist, and closes no cycle.
THEOREM SoundPlans == Spec => PlansAreSound
<1>1. ASSUME IInv, [Next]_vars, pc = "idle", pc' # "idle"
      PROVE  SoundPlan(plan')
  <2>1. PICK batch \in Batch : Start(batch)
    BY <1>1
       DEF Next, vars, LockState, GiveUp, Snapshot, WriteNext, WriteFails, Undo, UndoFails,
           Finish, End, Crash, Writing, Leave, InitLock, InitWrite, Regenerate, HandAdd,
           HandDelete, HandChange
  <2>2. batch \in Seq(BatchEntry) /\ Accepted(batch) /\ plan' = Planned(batch)
    BY <2>1, ConstantsAssumption DEF Start
  <2>3. SoundPlan(Planned(batch))
    BY <1>1, <2>2, AcceptedIsSound DEF IInv
  <2> QED
    BY <2>2, <2>3
<1>2. IInv /\ [Next]_vars => [pc = "idle" /\ pc' # "idle" => SoundPlan(plan')]_vars
  BY <1>1
<1> QED
  BY <1>2, InvariantHolds, PTL DEF Spec, PlansAreSound
===============================================================================
