----------------------- MODULE DisassemblyView_proofs -----------------------
(***************************************************************************)
(* The list of labels stays tidy, and the listing is the device's, for     *)
(* every device, memory, list of labels and window.                        *)
(***************************************************************************)
EXTENDS DisassemblyView, SequenceTheorems, WellFoundedInduction, TLAPS

-----------------------------------------------------------------------------
(* Numbers *)

(* Every set of numbers has a least one: the form in which the proofs below
   use induction. *)
LEMMA Least ==
  ASSUME NEW T, T \subseteq Nat, T # {}
  PROVE  Min(T) \in T /\ \A n \in T : Min(T) <= n
<1> DEFINE R == OpToRel(<, Nat)
<1>1. IsWellFoundedOn(R, Nat)
  BY NatLessThanWellFounded
<1>2. \A x, y \in Nat : <<x, y>> \in R <=> x < y
  BY DEF OpToRel
<1> HIDE DEF R
<1>3. PICK m \in T : \A y \in T : ~ (<<y, m>> \in R)
  BY <1>1, WFMin
<1>4. \A n \in T : m \in Nat /\ n \in Nat /\ ~(n < m)
  BY <1>2, <1>3
<1>5. \A n \in T : m <= n
  BY <1>4
<1> QED BY <1>3, <1>5 DEF Min

-----------------------------------------------------------------------------
(* Lists: what is put in, replaced and taken out *)

(* t is s with e at position i. *)
IsInserted(s, t, i, e) ==
  /\ Len(t) = Len(s) + 1 /\ i \in 1 .. Len(s) + 1
  /\ \A j \in 1 .. Len(s) + 1 :
       t[j] = IF j < i THEN s[j] ELSE IF j = i THEN e ELSE s[j - 1]

LEMMA Inserted ==
  ASSUME NEW S, NEW s \in Seq(S), NEW i \in DOMAIN s, NEW e \in S
  PROVE  InsertAt(s, i, e) \in Seq(S) /\ IsInserted(s, InsertAt(s, i, e), i, e)
<1> DEFINE a == SubSeq(s, 1, i - 1)
           b == SubSeq(s, i, Len(s))
           m == a \o <<e>>
           n == Len(s)
<1>1. n \in Nat /\ i \in 1 .. n /\ \A j \in 1 .. n : s[j] \in S
  OBVIOUS
<1>2. /\ a \in Seq(S) /\ Len(a) = i - 1
      /\ \A j \in 1 .. i - 1 : a[j] = s[j]
  <2>1. \A j \in 1 .. i - 1 : s[j] \in S
    BY <1>1
  <2> HIDE DEF n
  <2>2. /\ a \in Seq(S) /\ Len(a) = IF 1 <= i - 1 THEN i - 1 - 1 + 1 ELSE 0
        /\ \A j \in 1 .. i - 1 - 1 + 1 : a[j] = s[1 + j - 1]
    BY <1>1, <2>1, SubSeqProperties
  <2> HIDE DEF a
  <2>3. \A j \in 1 .. i - 1 : a[j] = s[j]
    <3> SUFFICES ASSUME NEW j \in 1 .. i - 1 PROVE a[j] = s[j]
      OBVIOUS
    <3>1. j \in 1 .. i - 1 - 1 + 1 /\ 1 + j - 1 = j
      BY <1>1
    <3> QED BY <2>2, <3>1
  <2> QED BY <1>1, <2>2, <2>3
<1>3. /\ b \in Seq(S) /\ Len(b) = n - i + 1
      /\ \A j \in 1 .. n - i + 1 : b[j] = s[i + j - 1]
  <2>1. \A j \in i .. n : s[j] \in S
    BY <1>1
  <2> QED BY <1>1, <2>1, SubSeqProperties
<1> HIDE DEF a, b
<1>4. <<e>> \in Seq(S) /\ Len(<<e>>) = 1 /\ <<e>>[1] = e
  OBVIOUS
<1>5. /\ m \in Seq(S) /\ Len(m) = i
      /\ \A j \in 1 .. i : m[j] = IF j <= i - 1 THEN a[j] ELSE <<e>>[j - (i - 1)]
  BY <1>1, <1>2, <1>4, ConcatProperties
<1> HIDE DEF m
<1> DEFINE t == m \o b
<1>6. /\ t \in Seq(S) /\ Len(t) = Len(m) + Len(b)
      /\ \A j \in 1 .. Len(m) + Len(b) : t[j] = IF j <= Len(m) THEN m[j] ELSE b[j - Len(m)]
  BY <1>3, <1>5, ConcatProperties
<1>7. InsertAt(s, i, e) = t
  BY DEF InsertAt, a, b, m, n
<1> HIDE DEF t, n
<1>8. ASSUME NEW j \in 1 .. n + 1
      PROVE  t[j] = IF j < i THEN s[j] ELSE IF j = i THEN e ELSE s[j - 1]
  <2>0. j <= i => t[j] = m[j]
    <3>1. j <= i => j \in 1 .. Len(m) + Len(b) /\ j <= Len(m)
      BY <1>1, <1>3, <1>5
    <3> QED BY <1>6, <3>1
  <2>1. CASE j < i
    <3>1. j \in 1 .. i - 1 /\ j \in 1 .. i /\ j <= i - 1 /\ j <= i
      BY <1>1, <2>1
    <3>2. t[j] = a[j]
      BY <1>5, <2>0, <3>1
    <3> QED BY <1>2, <2>1, <3>1, <3>2
  <2>2. CASE j = i
    <3>1. i - (i - 1) = 1 /\ ~(i <= i - 1) /\ i \in 1 .. i /\ ~(i < i) /\ i <= i
      BY <1>1
    <3>2. m[i] = <<e>>[1]
      BY <1>5, <3>1
    <3> QED BY <1>4, <2>0, <2>2, <3>1, <3>2
  <2>3. CASE j > i
    <3>1. j - i \in 1 .. n - i + 1 /\ i + (j - i) - 1 = j - 1
      BY <1>1, <2>3
    <3>2. j \in 1 .. Len(m) + Len(b) /\ ~(j <= Len(m)) /\ j - Len(m) = j - i
      BY <1>1, <1>3, <1>5, <2>3
    <3>3. t[j] = b[j - i]
      BY <1>6, <3>2
    <3>4. b[j - i] = s[j - 1]
      BY <1>3, <3>1
    <3>5. ~(j < i) /\ j # i
      BY <1>1, <2>3
    <3> QED BY <3>3, <3>4, <3>5
  <2> QED BY <1>1, <2>1, <2>2, <2>3
<1>9. t \in Seq(S) /\ Len(t) = n + 1
  BY <1>1, <1>3, <1>5, <1>6
<1>10. i \in 1 .. n + 1
  BY <1>1
<1> QED BY <1>7, <1>8, <1>9, <1>10 DEF n, IsInserted

(* t is s without what is at position i. *)
IsRemoved(s, t, i) ==
  /\ Len(t) = Len(s) - 1 /\ i \in 1 .. Len(s)
  /\ \A j \in 1 .. Len(s) - 1 : t[j] = IF j < i THEN s[j] ELSE s[j + 1]

LEMMA Removed ==
  ASSUME NEW S, NEW s \in Seq(S), NEW i \in DOMAIN s
  PROVE  RemoveAt(s, i) \in Seq(S) /\ IsRemoved(s, RemoveAt(s, i), i)
<1> DEFINE a == SubSeq(s, 1, i - 1)
           b == SubSeq(s, i + 1, Len(s))
           n == Len(s)
<1>1. n \in Nat /\ i \in 1 .. n /\ \A j \in 1 .. n : s[j] \in S
  OBVIOUS
<1>2. /\ a \in Seq(S) /\ Len(a) = i - 1
      /\ \A j \in 1 .. i - 1 : a[j] = s[j]
  <2>1. \A j \in 1 .. i - 1 : s[j] \in S
    BY <1>1
  <2> HIDE DEF n
  <2>2. /\ a \in Seq(S) /\ Len(a) = IF 1 <= i - 1 THEN i - 1 - 1 + 1 ELSE 0
        /\ \A j \in 1 .. i - 1 - 1 + 1 : a[j] = s[1 + j - 1]
    BY <1>1, <2>1, SubSeqProperties
  <2> HIDE DEF a
  <2>3. \A j \in 1 .. i - 1 : a[j] = s[j]
    <3> SUFFICES ASSUME NEW j \in 1 .. i - 1 PROVE a[j] = s[j]
      OBVIOUS
    <3>1. j \in 1 .. i - 1 - 1 + 1 /\ 1 + j - 1 = j
      BY <1>1
    <3> QED BY <2>2, <3>1
  <2> QED BY <1>1, <2>2, <2>3
<1>3. /\ b \in Seq(S) /\ Len(b) = n - i
      /\ \A j \in 1 .. n - i : b[j] = s[i + j]
  <2>1. \A j \in i + 1 .. n : s[j] \in S
    BY <1>1
  <2>2. /\ b \in Seq(S) /\ Len(b) = IF i + 1 <= n THEN n - (i + 1) + 1 ELSE 0
        /\ \A j \in 1 .. n - (i + 1) + 1 : b[j] = s[i + 1 + j - 1]
    BY <1>1, <2>1, SubSeqProperties
  <2> HIDE DEF b, n
  <2>3. \A j \in 1 .. n - i : b[j] = s[i + j]
    <3> SUFFICES ASSUME NEW j \in 1 .. n - i PROVE b[j] = s[i + j]
      OBVIOUS
    <3>1. j \in 1 .. n - (i + 1) + 1 /\ i + 1 + j - 1 = i + j
      BY <1>1
    <3> QED BY <2>2, <3>1
  <2> QED BY <1>1, <2>2, <2>3
<1> HIDE DEF a, b
<1> DEFINE t == a \o b
<1>4. /\ t \in Seq(S) /\ Len(t) = Len(a) + Len(b)
      /\ \A j \in 1 .. Len(a) + Len(b) : t[j] = IF j <= Len(a) THEN a[j] ELSE b[j - Len(a)]
  BY <1>2, <1>3, ConcatProperties
<1>5. RemoveAt(s, i) = t
  BY DEF RemoveAt, a, b, n
<1> HIDE DEF t, n
<1>6. ASSUME NEW j \in 1 .. n - 1
      PROVE  t[j] = IF j < i THEN s[j] ELSE s[j + 1]
  <2>1. CASE j < i
    <3>1. j \in 1 .. i - 1 /\ j \in 1 .. Len(a) + Len(b) /\ j <= Len(a)
      BY <1>1, <1>2, <1>3, <2>1
    <3> QED BY <1>2, <1>4, <2>1, <3>1
  <2>2. CASE j >= i
    <3>1. j - (i - 1) \in 1 .. n - i /\ i + (j - (i - 1)) = j + 1
      BY <1>1, <2>2
    <3>2. j \in 1 .. Len(a) + Len(b) /\ ~(j <= Len(a)) /\ j - Len(a) = j - (i - 1)
      BY <1>1, <1>2, <1>3, <2>2
    <3>3. t[j] = b[j - (i - 1)]
      BY <1>4, <3>2
    <3>4. b[j - (i - 1)] = s[j + 1]
      BY <1>3, <3>1
    <3>5. ~(j < i)
      BY <1>1, <2>2
    <3> QED BY <3>3, <3>4, <3>5
  <2> QED BY <1>1, <2>1, <2>2
<1>7. t \in Seq(S) /\ Len(t) = n - 1
  BY <1>1, <1>2, <1>3, <1>4
<1> QED BY <1>1, <1>5, <1>6, <1>7 DEF n, IsRemoved

-----------------------------------------------------------------------------
(* Labels *)

(* What LabelDialog::validate and isValid accept *)
Ranges == {label \in Labelling : label.start <= label.end}

LEMMA RangeOfNumbers ==
  ASSUME ViewAssumption, BuilderAssumption, NEW label \in Ranges
  PROVE  label.start \in Nat /\ label.end \in Nat /\ label.start <= label.end
BY DEF Ranges, Labelling, BuilderAssumption

(* A label that collides with none is put in, in front of those that start
   later. *)
LEMMA TidyInsertion ==
  ASSUME ViewAssumption, BuilderAssumption,
         NEW s \in Seq(Ranges), NEW t \in Seq(Ranges), NEW i, NEW e \in Ranges,
         IsInserted(s, t, i, e), Tidy(s), ~HasCollision(s, 0, e.start, e.end),
         \A j \in DOMAIN s : j < i => s[j].start < e.start,
         \A j \in DOMAIN s : j >= i => e.start <= s[j].start
  PROVE  Tidy(t)
<1> DEFINE n == Len(s)
<1>1. n \in Nat /\ DOMAIN s = 1 .. n /\ DOMAIN t = 1 .. n + 1 /\ Len(t) = n + 1
  BY DEF IsInserted
<1>2. \A j \in 1 .. n : /\ s[j].start \in Nat /\ s[j].end \in Nat
                        /\ s[j].start <= s[j].end
  <2>1. \A j \in 1 .. n : s[j] \in Ranges
    BY <1>1
  <2> QED BY <2>1, RangeOfNumbers
<1>3. e.start \in Nat /\ e.end \in Nat /\ e.start <= e.end
  BY RangeOfNumbers
<1>4. i \in 1 .. n + 1 /\ \A j \in 1 .. n + 1 :
        t[j] = IF j < i THEN s[j] ELSE IF j = i THEN e ELSE s[j - 1]
  BY <1>1 DEF IsInserted
<1>5. \A j \in 1 .. n : s[j].end < e.start \/ e.end < s[j].start
  <2>1. \A j \in 1 .. n : j \in DOMAIN s \ {0}
    BY <1>1
  <2>2. \A j \in 1 .. n : ~(e.start <= s[j].end /\ e.end >= s[j].start)
    BY <2>1 DEF HasCollision
  <2> QED BY <1>2, <1>3, <2>2
<1>6. \A j \in 1 .. n : j < i => s[j].start < e.start
  BY <1>1
<1>7. \A j \in 1 .. n : j >= i => e.start <= s[j].start
  BY <1>1
<1>8. \A j, k \in 1 .. n : j < k => s[j].end < s[k].start
  BY <1>1 DEF Tidy
<1> HIDE DEF n
<1>9. \A j \in 1 .. n : /\ j < i => s[j].end < e.start
                        /\ j >= i => e.end < s[j].start
  BY <1>2, <1>3, <1>5, <1>6, <1>7
<1>10. ASSUME NEW j \in 1 .. n + 1, NEW k \in 1 .. n + 1, j < k
       PROVE  t[j].end < t[k].start
  <2>1. CASE k < i
    <3>1. j \in 1 .. n /\ k \in 1 .. n /\ j < i
      BY <1>1, <1>4, <1>10, <2>1
    <3> QED BY <1>4, <1>8, <1>10, <2>1, <3>1
  <2>2. CASE k = i
    <3>1. j \in 1 .. n /\ j < i /\ ~(k < i)
      BY <1>1, <1>4, <1>10, <2>2
    <3> QED BY <1>4, <1>9, <2>2, <3>1
  <2>3. CASE k > i
    <3>1. k - 1 \in 1 .. n /\ k - 1 >= i /\ t[k] = s[k - 1]
      BY <1>1, <1>4, <2>3
    <3>2. CASE j < i
      <4>1. j \in 1 .. n /\ j < k - 1 /\ t[j] = s[j]
        BY <1>1, <1>4, <2>3, <3>2
      <4> QED BY <1>8, <3>1, <4>1
    <3>3. CASE j = i
      BY <1>4, <1>9, <3>1, <3>3
    <3>4. CASE j > i
      <4>1. j - 1 \in 1 .. n /\ j - 1 < k - 1 /\ t[j] = s[j - 1]
        BY <1>1, <1>4, <1>10, <3>4
      <4> QED BY <1>8, <3>1, <4>1
    <3> QED BY <1>1, <1>4, <3>2, <3>3, <3>4
  <2> QED BY <1>1, <1>4, <2>1, <2>2, <2>3
<1> QED BY <1>1, <1>10 DEF Tidy

(* addLabel keeps a list of labels one, and what is not the new label was there
   before. *)
AddedTo(s, t, e) ==
  /\ t \in Seq(Ranges)
  /\ \A j \in DOMAIN t : t[j] = e \/ \E k \in DOMAIN s : t[j] = s[k]

LEMMA Added ==
  ASSUME ViewAssumption, BuilderAssumption,
         NEW s \in Seq(Ranges), NEW e \in Ranges
  PROVE  /\ AddedTo(s, AddLabel(s, e), e)
         /\ Tidy(s) /\ ~HasCollision(s, 0, e.start, e.end) => Tidy(AddLabel(s, e))
<1> DEFINE later == {j \in DOMAIN s : s[j].start >= e.start}
           i == Min(later)
           t == AddLabel(s, e)
<1>1. /\ Len(s) \in Nat /\ DOMAIN s = 1 .. Len(s)
      /\ \A j \in 1 .. Len(s) : s[j] \in Ranges /\ s[j].start \in Nat /\ s[j].end \in Nat
      /\ e.start \in Nat /\ e.end \in Nat /\ e.start <= e.end
  BY RangeOfNumbers
<1>2. CASE later = {}
  <2>1. t = Append(s, e)
    BY <1>2 DEF AddLabel
  <2>2. /\ t \in Seq(Ranges) /\ Len(t) = Len(s) + 1
        /\ \A j \in 1 .. Len(s) : t[j] = s[j]
        /\ t[Len(s) + 1] = e
    BY <2>1, AppendProperties
  <2>3. DOMAIN t = 1 .. Len(s) + 1
    BY <2>2
  <2> HIDE DEF t
  <2>4. \A j \in DOMAIN t : (j \in DOMAIN s /\ t[j] = s[j]) \/ t[j] = e
    BY <1>1, <2>2, <2>3
  <2>5. IsInserted(s, t, Len(s) + 1, e)
    BY <1>1, <2>2 DEF IsInserted
  <2>6. \A j \in DOMAIN s : /\ j < Len(s) + 1 => s[j].start < e.start
                            /\ j >= Len(s) + 1 => e.start <= s[j].start
    BY <1>1, <1>2
  <2>7. Tidy(s) /\ ~HasCollision(s, 0, e.start, e.end) => Tidy(t)
    BY <2>2, <2>5, <2>6, TidyInsertion
  <2> QED BY <2>2, <2>4, <2>7 DEF AddedTo, t
<1>3. CASE later # {}
  <2>1. i \in later /\ \A j \in later : i <= j
    <3>1. later \subseteq Nat
      BY <1>1
    <3> HIDE DEF later
    <3> QED BY <1>3, <3>1, Least
  <2>2. i \in 1 .. Len(s) /\ i \in DOMAIN s /\ s[i].start >= e.start
    BY <1>1, <2>1
  <2>3. CASE s[i].start = e.start
    <3> DEFINE r == [s EXCEPT ![i] = e]
    <3>1. t = Append(r, e)
      BY <1>3, <2>3 DEF AddLabel, ReplaceAt
    <3>2. /\ r \in Seq(Ranges) /\ Len(r) = Len(s)
          /\ \A j \in 1 .. Len(s) : r[j] = e \/ r[j] = s[j]
      BY <1>1, <2>2
    <3> HIDE DEF r
    <3>3. /\ t \in Seq(Ranges) /\ Len(t) = Len(s) + 1
          /\ \A j \in 1 .. Len(s) : t[j] = r[j]
          /\ t[Len(s) + 1] = e
      BY <3>1, <3>2, AppendProperties
    <3>4. DOMAIN t = 1 .. Len(s) + 1
      BY <3>3
    <3> HIDE DEF t
    <3>5. \A j \in DOMAIN t : (j \in DOMAIN s /\ t[j] = s[j]) \/ t[j] = e
      BY <1>1, <3>2, <3>3, <3>4
    <3>6. HasCollision(s, 0, e.start, e.end)
      <4>1. i \in DOMAIN s \ {0} /\ s[i] \in Ranges
        BY <1>1, <2>2
      <4>2. s[i].start \in Nat /\ s[i].end \in Nat /\ s[i].start <= s[i].end
        BY <4>1, RangeOfNumbers
      <4>3. e.start <= s[i].end /\ e.end >= s[i].start
        BY <1>1, <2>3, <4>2
      <4> QED BY <4>1, <4>3 DEF HasCollision
    <3> QED BY <3>3, <3>5, <3>6 DEF AddedTo, t
  <2>4. CASE s[i].start # e.start
    <3>1. t = InsertAt(s, i, e)
      BY <1>3, <2>4 DEF AddLabel
    <3>2. /\ t \in Seq(Ranges) /\ IsInserted(s, t, i, e)
          /\ Len(t) = Len(s) + 1
          /\ \A j \in 1 .. Len(s) + 1 :
               t[j] = IF j < i THEN s[j] ELSE IF j = i THEN e ELSE s[j - 1]
      <4> HIDE DEF i, t
      <4>1. t \in Seq(Ranges) /\ IsInserted(s, t, i, e)
        BY <2>2, <3>1, Inserted
      <4> QED BY <4>1 DEF IsInserted
    <3>3. DOMAIN t = 1 .. Len(s) + 1
      BY <3>2
    <3> HIDE DEF t, i
    <3>4. \A j \in DOMAIN t : \/ j \in DOMAIN s /\ t[j] = s[j]
                              \/ t[j] = e
                              \/ j - 1 \in DOMAIN s /\ t[j] = s[j - 1]
      BY <1>1, <2>2, <3>2, <3>3
    <3>5. ASSUME Tidy(s), ~HasCollision(s, 0, e.start, e.end) PROVE Tidy(t)
      <4>1. \A j \in DOMAIN s : j < i => s[j].start < e.start
        BY <1>1, <2>1, <2>2
      <4>2. \A j \in DOMAIN s : j >= i => e.start <= s[j].start
        <5> SUFFICES ASSUME NEW j \in DOMAIN s, j >= i PROVE e.start <= s[j].start
          OBVIOUS
        <5>1. CASE j = i
          BY <1>1, <2>2, <5>1
        <5>2. CASE i < j
          <6>1. s[i].end < s[j].start
            BY <2>2, <3>5, <5>2 DEF Tidy
          <6>2. s[i] \in Ranges
            BY <1>1, <2>2
          <6>3. s[i].start \in Nat /\ s[i].end \in Nat /\ s[i].start <= s[i].end
            BY <6>2, RangeOfNumbers
          <6> QED BY <1>1, <2>2, <6>1, <6>3
        <5> QED BY <1>1, <2>2, <5>1, <5>2
      <4> QED BY <3>2, <3>5, <4>1, <4>2, TidyInsertion
    <3> QED BY <3>2, <3>4, <3>5 DEF AddedTo, t
  <2> QED BY <2>3, <2>4
<1> QED BY <1>2, <1>3

(* removeLabel *)
LEMMA RemovedLabel ==
  ASSUME NEW s \in Seq(Ranges), NEW i
  PROVE  LET t == RemoveLabel(s, i)
         IN  /\ t \in Seq(Ranges)
             /\ Tidy(s) => Tidy(t)
             /\ \A j \in DOMAIN t : \E k \in DOMAIN s \ {i} : t[j] = s[k]
<1>1. Len(s) \in Nat /\ DOMAIN s = 1 .. Len(s)
  OBVIOUS
<1>2. CASE i \in DOMAIN s
  <2> DEFINE t == RemoveAt(s, i)
  <2>1. t \in Seq(Ranges) /\ IsRemoved(s, t, i) /\ RemoveLabel(s, i) = t
    BY <1>2, Removed DEF RemoveLabel
  <2>2. DOMAIN t = 1 .. Len(t)
    BY <2>1
  <2> HIDE DEF t
  <2>3. /\ DOMAIN t = 1 .. Len(s) - 1 /\ i \in 1 .. Len(s)
        /\ \A j \in 1 .. Len(s) - 1 : t[j] = IF j < i THEN s[j] ELSE s[j + 1]
    BY <2>1, <2>2 DEF IsRemoved
  <2>4. \A j \in DOMAIN t : t[j] = s[IF j < i THEN j ELSE j + 1]
    BY <2>3
  <2>5. \A j \in DOMAIN t : (IF j < i THEN j ELSE j + 1) \in DOMAIN s \ {i}
    BY <1>1, <2>3
  <2>6. ASSUME Tidy(s) PROVE Tidy(t)
    <3> SUFFICES ASSUME NEW j \in DOMAIN t, NEW k \in DOMAIN t, j < k
                 PROVE  t[j].end < t[k].start
      BY DEF Tidy
    <3> DEFINE a == IF j < i THEN j ELSE j + 1
               b == IF k < i THEN k ELSE k + 1
    <3>1. a \in DOMAIN s /\ b \in DOMAIN s /\ t[j] = s[a] /\ t[k] = s[b]
      BY <2>4, <2>5
    <3>2. a < b
      BY <1>1, <2>3
    <3> HIDE DEF a, b
    <3> QED BY <2>6, <3>1, <3>2 DEF Tidy
  <2> QED BY <2>1, <2>4, <2>5, <2>6
<1>3. CASE i \notin DOMAIN s
  BY <1>3 DEF RemoveLabel
<1> QED BY <1>2, <1>3

(* clearLabels: f[n] is what is kept of the first n labels. *)
IsClearing(f, s, start, end, k) ==
  /\ f = [n \in 0 .. k |-> f[n]]
  /\ f[0] = <<>>
  /\ \A n \in 1 .. k : f[n] = KeepOutside(f[n - 1], s[n], start, end)

LEMMA ClearingExists ==
  ASSUME NEW s, NEW start, NEW end, NEW k \in Nat
  PROVE  \E f : IsClearing(f, s, start, end, k)
<1> SUFFICES ASSUME ~ \E f : IsClearing(f, s, start, end, k) PROVE FALSE
  OBVIOUS
<1> DEFINE T == {n \in Nat : ~ \E f : IsClearing(f, s, start, end, n)}
           Next1(g, n) == KeepOutside(g[n - 1], s[n], start, end)
<1>1. PICK m \in T : \A n \in T : m <= n
  <2>1. T \subseteq Nat /\ k \in T
    OBVIOUS
  <2> QED BY <2>1, Least
<1>2. m # 0
  <2> DEFINE f == [n \in 0 .. 0 |-> <<>>]
  <2>1. IsClearing(f, s, start, end, 0)
    BY DEF IsClearing
  <2> QED BY <2>1
<1>3. PICK f : IsClearing(f, s, start, end, m - 1)
  BY <1>1, <1>2
<1> DEFINE g == [n \in 0 .. m |-> IF n = m THEN Next1(f, m) ELSE f[n]]
<1>4. IsClearing(g, s, start, end, m)
  <2>1. g = [n \in 0 .. m |-> g[n]] /\ g[0] = <<>>
    BY <1>2, <1>3 DEF IsClearing
  <2>2. ASSUME NEW n \in 1 .. m PROVE g[n] = Next1(g, n)
    <3>1. n - 1 \in 0 .. m - 1 /\ n \in 0 .. m /\ g[n - 1] = f[n - 1]
      BY <1>1
    <3>2. CASE n = m
      BY <3>1, <3>2
    <3>3. CASE n # m
      <4>1. n \in 1 .. m - 1 /\ g[n] = f[n]
        BY <1>1, <3>3
      <4>2. f[n] = Next1(f, n)
        BY <1>3, <4>1 DEF IsClearing
      <4> QED BY <3>1, <4>1, <4>2
    <3> QED BY <3>2, <3>3
  <2> QED BY <2>1, <2>2 DEF IsClearing
<1> QED BY <1>4

LEMMA ClearLabelsIs ==
  ASSUME NEW s, NEW start, NEW end, Len(s) \in Nat
  PROVE  \E f : /\ IsClearing(f, s, start, end, Len(s))
                /\ ClearLabels(s, start, end) = f[Len(s)]
<1> DEFINE K == Len(s)
           Body(f) == [n \in 0 .. K |->
                         IF n = 0 THEN <<>>
                         ELSE KeepOutside(f[n - 1], s[n], start, end)]
           kept == CHOOSE f : f = Body(f)
<1>1. K \in Nat
  OBVIOUS
<1>2. PICK f : IsClearing(f, s, start, end, K)
  BY <1>1, ClearingExists
<1>3. ClearLabels(s, start, end) = kept[K]
  BY DEF ClearLabels
<1> HIDE DEF K
<1>4. f = Body(f)
  <2>1. ASSUME NEW n \in 0 .. K PROVE f[n] = Body(f)[n]
    <3>1. CASE n = 0
      BY <1>1, <1>2, <3>1 DEF IsClearing
    <3>2. CASE n \in 1 .. K
      BY <1>1, <1>2, <3>2 DEF IsClearing
    <3> QED BY <1>1, <3>1, <3>2
  <2>2. f = [n \in 0 .. K |-> f[n]]
    BY <1>2 DEF IsClearing
  <2> QED BY <2>1, <2>2
<1>5. kept = Body(kept)
  BY <1>4
<1> HIDE DEF kept
<1>6. IsClearing(kept, s, start, end, K)
  BY <1>1, <1>5 DEF IsClearing
<1> QED BY <1>3, <1>6 DEF K

(* t consists of labels of s among the first n. *)
PartOf(s, t, n, start, end) ==
  /\ t \in Seq(Ranges)
  /\ Tidy(s) => Tidy(t)
  /\ \A j \in DOMAIN t : \E k \in DOMAIN s :
       k <= n /\ t[j] = s[k] /\ s[k].start \notin start .. end

LEMMA Cleared ==
  ASSUME ViewAssumption, BuilderAssumption, NEW s \in Seq(Ranges), NEW start, NEW end
  PROVE  PartOf(s, ClearLabels(s, start, end), Len(s), start, end)
<1> DEFINE K == Len(s)
<1>1. K \in Nat /\ DOMAIN s = 1 .. K
  OBVIOUS
<1>2. PICK f : IsClearing(f, s, start, end, K) /\ ClearLabels(s, start, end) = f[K]
  BY <1>1, ClearLabelsIs
<1> HIDE DEF K
<1> DEFINE T == {n \in 0 .. K : ~PartOf(s, f[n], n, start, end)}
<1>3. T = {}
  <2> SUFFICES ASSUME T # {} PROVE FALSE
    OBVIOUS
  <2>1. PICK m \in T : \A n \in T : m <= n
    <3>1. T \subseteq Nat
      BY <1>1
    <3> QED BY <3>1, Least
  <2>2. m # 0
    <3>1. PartOf(s, <<>>, 0, start, end)
      BY DEF PartOf, Tidy
    <3> QED BY <1>2, <2>1, <3>1 DEF IsClearing
  <2>3. m \in 1 .. K /\ m - 1 \in 0 .. K /\ m - 1 \notin T
    BY <1>1, <2>1, <2>2
  <2>4. PartOf(s, f[m - 1], m - 1, start, end)
    BY <2>3
  <2> DEFINE old == f[m - 1]
             new == f[m]
  <2>5. new = IF s[m].start \in start .. end THEN old ELSE Append(old, s[m])
    BY <1>2, <2>3 DEF IsClearing, KeepOutside
  <2>6. m \in DOMAIN s /\ s[m] \in Ranges
    BY <1>1, <2>3
  <2> HIDE DEF old, new
  <2>7. CASE s[m].start \in start .. end
    <3>1. PartOf(s, old, m, start, end)
      BY <1>1, <2>3, <2>4 DEF PartOf, old
    <3> QED BY <2>1, <2>5, <2>7, <3>1 DEF new
  <2>8. CASE s[m].start \notin start .. end
    <3>1. /\ old \in Seq(Ranges) /\ Len(old) \in Nat /\ DOMAIN old = 1 .. Len(old)
          /\ Tidy(s) => Tidy(old)
          /\ \A j \in DOMAIN old : \E k \in DOMAIN s :
               k <= m - 1 /\ old[j] = s[k] /\ s[k].start \notin start .. end
      <4>1. old \in Seq(Ranges)
        BY <2>4 DEF PartOf, old
      <4> QED BY <2>4, <4>1 DEF PartOf, old
    <3>2. /\ new \in Seq(Ranges) /\ Len(new) = Len(old) + 1
          /\ \A j \in 1 .. Len(old) : new[j] = old[j]
          /\ new[Len(old) + 1] = s[m]
      BY <2>5, <2>6, <2>8, <3>1, AppendProperties
    <3>3. DOMAIN new = 1 .. Len(old) + 1
      BY <3>2
    <3>4. ASSUME NEW j \in DOMAIN new
          PROVE  \E k \in DOMAIN s :
                   k <= m /\ new[j] = s[k] /\ s[k].start \notin start .. end
      <4>1. CASE j \in 1 .. Len(old)
        <5>1. PICK k \in DOMAIN s :
                k <= m - 1 /\ old[j] = s[k] /\ s[k].start \notin start .. end
          BY <3>1, <4>1
        <5>2. k <= m
          BY <1>1, <2>3, <5>1
        <5> QED BY <3>2, <4>1, <5>1, <5>2
      <4>2. CASE j = Len(old) + 1
        <5>1. m <= m
          BY <2>3
        <5> QED BY <2>6, <2>8, <3>2, <4>2, <5>1
      <4> QED BY <3>1, <3>3, <4>1, <4>2
    <3>5. ASSUME Tidy(s) PROVE Tidy(new)
      <4> SUFFICES ASSUME NEW i \in DOMAIN new, NEW j \in DOMAIN new, i < j
                   PROVE  new[i].end < new[j].start
        BY DEF Tidy
      <4>1. i \in DOMAIN old
        BY <3>1, <3>3
      <4>2. CASE j \in DOMAIN old
        BY <3>1, <3>2, <3>5, <4>1, <4>2 DEF Tidy
      <4>3. CASE j = Len(old) + 1
        <5>1. PICK k \in DOMAIN s : k <= m - 1 /\ old[i] = s[k]
          BY <3>1, <4>1
        <5>2. k < m
          BY <1>1, <2>3, <5>1
        <5>3. s[k].end < s[m].start
          BY <2>6, <3>5, <5>2 DEF Tidy
        <5> QED BY <3>1, <3>2, <4>1, <4>3, <5>1, <5>3
      <4> QED BY <3>1, <3>3, <4>2, <4>3
    <3>6. PartOf(s, new, m, start, end)
      BY <3>2, <3>4, <3>5 DEF PartOf
    <3> QED BY <2>1, <3>6 DEF new
  <2> QED BY <2>7, <2>8
<1>4. K \in 0 .. K
  BY <1>1
<1> QED BY <1>2, <1>3, <1>4 DEF K

(* addLabels: f[n] is the list after the first n labels of a file. *)
IsAdding(f, s, file, k) ==
  /\ f = [n \in 0 .. k |-> f[n]]
  /\ f[0] = s
  /\ \A n \in 1 .. k : f[n] = AddIfValid(f[n - 1], file[n])

LEMMA AddingExists ==
  ASSUME NEW s, NEW file, NEW k \in Nat
  PROVE  \E f : IsAdding(f, s, file, k)
<1> SUFFICES ASSUME ~ \E f : IsAdding(f, s, file, k) PROVE FALSE
  OBVIOUS
<1> DEFINE T == {n \in Nat : ~ \E f : IsAdding(f, s, file, n)}
<1>1. PICK m \in T : \A n \in T : m <= n
  <2>1. T \subseteq Nat /\ k \in T
    OBVIOUS
  <2> QED BY <2>1, Least
<1>2. m # 0
  <2> DEFINE f == [n \in 0 .. 0 |-> s]
  <2>1. IsAdding(f, s, file, 0)
    BY DEF IsAdding
  <2> QED BY <2>1
<1>3. PICK f : IsAdding(f, s, file, m - 1)
  BY <1>1, <1>2
<1> DEFINE g == [n \in 0 .. m |-> IF n = m THEN AddIfValid(f[m - 1], file[m]) ELSE f[n]]
<1>4. IsAdding(g, s, file, m)
  <2>1. g = [n \in 0 .. m |-> g[n]] /\ g[0] = s
    BY <1>2, <1>3 DEF IsAdding
  <2>2. ASSUME NEW n \in 1 .. m PROVE g[n] = AddIfValid(g[n - 1], file[n])
    <3>1. n - 1 \in 0 .. m - 1 /\ n \in 0 .. m /\ g[n - 1] = f[n - 1]
      BY <1>1
    <3>2. CASE n = m
      BY <3>1, <3>2
    <3>3. CASE n # m
      <4>1. n \in 1 .. m - 1 /\ g[n] = f[n]
        BY <1>1, <3>3
      <4>2. f[n] = AddIfValid(f[n - 1], file[n])
        BY <1>3, <4>1 DEF IsAdding
      <4> QED BY <3>1, <4>1, <4>2
    <3> QED BY <3>2, <3>3
  <2> QED BY <2>1, <2>2 DEF IsAdding
<1> QED BY <1>4

LEMMA AddLabelsIs ==
  ASSUME NEW s, NEW file, Len(file) \in Nat
  PROVE  \E f : IsAdding(f, s, file, Len(file)) /\ AddLabels(s, file) = f[Len(file)]
<1> DEFINE K == Len(file)
           Body(f) == [n \in 0 .. K |->
                         IF n = 0 THEN s ELSE AddIfValid(f[n - 1], file[n])]
           after == CHOOSE f : f = Body(f)
<1>1. K \in Nat
  OBVIOUS
<1>2. PICK f : IsAdding(f, s, file, K)
  BY <1>1, AddingExists
<1>3. AddLabels(s, file) = after[K]
  BY DEF AddLabels
<1> HIDE DEF K
<1>4. f = Body(f)
  <2>1. ASSUME NEW n \in 0 .. K PROVE f[n] = Body(f)[n]
    <3>1. CASE n = 0
      BY <1>1, <1>2, <3>1 DEF IsAdding
    <3>2. CASE n \in 1 .. K
      BY <1>1, <1>2, <3>2 DEF IsAdding
    <3> QED BY <1>1, <3>1, <3>2
  <2>2. f = [n \in 0 .. K |-> f[n]]
    BY <1>2 DEF IsAdding
  <2> QED BY <2>1, <2>2
<1>5. after = Body(after)
  BY <1>4
<1> HIDE DEF after
<1>6. IsAdding(after, s, file, K)
  BY <1>1, <1>5 DEF IsAdding
<1> QED BY <1>3, <1>6 DEF K

Apart(a, b) == a.end < b.start \/ b.end < a.start

(* What isValid accepts of a file meets neither the list nor itself. *)
Valid(file) == {k \in DOMAIN file : file[k].end >= file[k].start}

FitsIn(s, file) ==
  \A k \in Valid(file) :
    /\ \A j \in DOMAIN s : Apart(s[j], file[k])
    /\ \A j \in Valid(file) \ {k} : Apart(file[j], file[k])

(* t is s with labels of the file among the first n. *)
WithPartOf(s, t, file, n) ==
  /\ t \in Seq(Ranges)
  /\ Tidy(s) /\ FitsIn(s, file) => Tidy(t)
  /\ \A j \in DOMAIN t : \/ \E k \in DOMAIN s : t[j] = s[k]
                         \/ \E k \in Valid(file) : k <= n /\ t[j] = file[k]

LEMMA FileAdded ==
  ASSUME ViewAssumption, BuilderAssumption,
         NEW s \in Seq(Ranges), NEW file \in Seq(Labelling)
  PROVE  WithPartOf(s, AddLabels(s, file), file, Len(file))
<1> DEFINE K == Len(file)
<1>1. K \in Nat /\ DOMAIN file = 1 .. K
  OBVIOUS
<1>2. PICK f : IsAdding(f, s, file, K) /\ AddLabels(s, file) = f[K]
  BY <1>1, AddLabelsIs
<1> HIDE DEF K
<1> DEFINE T == {n \in 0 .. K : ~WithPartOf(s, f[n], file, n)}
<1>3. T = {}
  <2> SUFFICES ASSUME T # {} PROVE FALSE
    OBVIOUS
  <2>1. PICK m \in T : \A n \in T : m <= n
    <3>1. T \subseteq Nat
      BY <1>1
    <3> QED BY <3>1, Least
  <2>2. m # 0
    <3>1. WithPartOf(s, s, file, 0)
      BY DEF WithPartOf
    <3> QED BY <1>2, <2>1, <3>1 DEF IsAdding
  <2>3. m \in 1 .. K /\ m - 1 \in 0 .. K /\ m - 1 \notin T
    BY <1>1, <2>1, <2>2
  <2>4. WithPartOf(s, f[m - 1], file, m - 1)
    BY <2>3
  <2> DEFINE old == f[m - 1]
             new == f[m]
             e == file[m]
  <2>5. new = AddIfValid(old, e)
    BY <1>2, <2>3 DEF IsAdding
  <2>6. m \in DOMAIN file /\ e \in Labelling
    BY <1>1, <2>3
  <2> HIDE DEF old, new, e
  <2>7. /\ old \in Seq(Ranges)
        /\ Tidy(s) /\ FitsIn(s, file) => Tidy(old)
        /\ \A j \in DOMAIN old : \/ \E k \in DOMAIN s : old[j] = s[k]
                                 \/ \E k \in Valid(file) : k <= m - 1 /\ old[j] = file[k]
    BY <2>4 DEF WithPartOf, old
  <2>8. CASE ~(e.end >= e.start)
    <3>1. \A k \in Valid(file) : k <= m - 1 => k <= m
      BY <1>1, <2>3 DEF Valid
    <3>2. new = old
      BY <2>5, <2>8 DEF AddIfValid
    <3>3. WithPartOf(s, new, file, m)
      BY <2>7, <3>1, <3>2 DEF WithPartOf
    <3> QED BY <2>1, <3>3 DEF new
  <2>9. CASE e.end >= e.start
    <3>1. e \in Ranges /\ m \in Valid(file)
      <4>1. e.start \in Nat /\ e.end \in Nat
        BY <2>6 DEF Labelling, BuilderAssumption
      <4> QED BY <2>6, <2>9, <4>1 DEF Ranges, Valid, e
    <3>2. new = AddLabel(old, e)
      BY <2>5, <2>9 DEF AddIfValid
    <3>3. /\ AddedTo(old, new, e)
          /\ Tidy(old) /\ ~HasCollision(old, 0, e.start, e.end) => Tidy(new)
      BY <2>7, <3>1, <3>2, Added
    <3>4. ASSUME FitsIn(s, file) PROVE ~HasCollision(old, 0, e.start, e.end)
      <4> SUFFICES ASSUME NEW j \in DOMAIN old,
                          e.start <= old[j].end, e.end >= old[j].start
                   PROVE  FALSE
        BY DEF HasCollision
      <4>1. old[j] \in Ranges
        BY <2>7
      <4>2. ~Apart(old[j], e)
        <5>1. /\ old[j].start \in Nat /\ old[j].end \in Nat
              /\ e.start \in Nat /\ e.end \in Nat
          BY <3>1, <4>1, RangeOfNumbers
        <5> QED BY <5>1 DEF Apart
      <4>3. CASE \E k \in DOMAIN s : old[j] = s[k]
        BY <3>1, <3>4, <4>2, <4>3 DEF FitsIn, e
      <4>4. CASE \E k \in Valid(file) : k <= m - 1 /\ old[j] = file[k]
        <5>1. PICK k \in Valid(file) : k <= m - 1 /\ old[j] = file[k]
          BY <4>4
        <5>2. k # m
          BY <1>1, <2>3, <5>1 DEF Valid
        <5> QED BY <3>1, <3>4, <4>2, <5>1, <5>2 DEF FitsIn, e
      <4> QED BY <2>7, <4>3, <4>4
    <3>5. ASSUME NEW j \in DOMAIN new
          PROVE  \/ \E k \in DOMAIN s : new[j] = s[k]
                 \/ \E k \in Valid(file) : k <= m /\ new[j] = file[k]
      <4>1. CASE new[j] = e
        <5>1. m <= m
          BY <2>3
        <5> QED BY <3>1, <4>1, <5>1 DEF e
      <4>2. CASE \E k \in DOMAIN old : new[j] = old[k]
        <5>1. PICK i \in DOMAIN old : new[j] = old[i]
          BY <4>2
        <5>2. \A k \in Valid(file) : k <= m - 1 => k <= m
          BY <1>1, <2>3 DEF Valid
        <5> QED BY <2>7, <5>1, <5>2
      <4> QED BY <3>3, <4>1, <4>2 DEF AddedTo
    <3>6. WithPartOf(s, new, file, m)
      BY <2>7, <3>3, <3>4, <3>5 DEF WithPartOf, AddedTo
    <3> QED BY <2>1, <3>6 DEF new
  <2> QED BY <2>8, <2>9
<1>4. K \in 0 .. K
  BY <1>1
<1> QED BY <1>2, <1>3, <1>4 DEF K

-----------------------------------------------------------------------------
(* LabelsStayTidy *)

(* What the theorem assumes of the labels that are entered and loaded: those of
   one file do not overlap, and none starts in front of the device and reaches
   into it.  Such a label would survive the clearing of the device's labels, and
   those of a file would then be put in behind it. *)
Reaches(label) == label.start < Start /\ label.end >= Start

FilesAreTidy ==
  \A file \in Files : \A j, k \in Valid(file) : j # k => Apart(file[j], file[k])

NothingReachesIn ==
  /\ \A label \in Candidates : ~Reaches(label)
  /\ \A file \in Files : \A k \in Valid(file) : ~Reaches(file[k])

Whole(s) ==
  /\ s \in Seq(Ranges)
  /\ \A j \in DOMAIN s : ~Reaches(s[j])

LEMMA CandidatesAreRanges ==
  ASSUME ViewAssumption, BuilderAssumption, NothingReachesIn, NEW label \in Candidates
  PROVE  label \in Ranges /\ ~Reaches(label)
BY DEF ViewAssumption, Ranges, NothingReachesIn

LEMMA WholeAdded ==
  ASSUME ViewAssumption, BuilderAssumption, NEW s, Whole(s),
         NEW e \in Ranges, ~Reaches(e)
  PROVE  Whole(AddLabel(s, e))
<1> DEFINE t == AddLabel(s, e)
<1>1. AddedTo(s, t, e)
  BY Added DEF Whole
<1> HIDE DEF t
<1>2. Whole(t)
  BY <1>1 DEF AddedTo, Whole
<1> QED BY <1>2 DEF t

LEMMA WholeRemoved ==
  ASSUME NEW s, Whole(s), NEW i
  PROVE  Whole(RemoveLabel(s, i))
<1> DEFINE t == RemoveLabel(s, i)
<1>1. t \in Seq(Ranges) /\ \A j \in DOMAIN t : \E k \in DOMAIN s \ {i} : t[j] = s[k]
  BY RemovedLabel DEF Whole
<1> HIDE DEF t
<1>2. Whole(t)
  BY <1>1 DEF Whole
<1> QED BY <1>2 DEF t

LEMMA WholeCleared ==
  ASSUME ViewAssumption, BuilderAssumption, NEW s, Whole(s), NEW start, NEW end
  PROVE  LET t == ClearLabels(s, start, end)
         IN  /\ Whole(t)
             /\ Tidy(s) => Tidy(t)
             /\ \A j \in DOMAIN t : t[j].start \notin start .. end
<1> DEFINE t == ClearLabels(s, start, end)
<1>1. PartOf(s, t, Len(s), start, end)
  BY Cleared DEF Whole
<1> HIDE DEF t
<1>2. Whole(t) /\ (Tidy(s) => Tidy(t)) /\ \A j \in DOMAIN t : t[j].start \notin start .. end
  BY <1>1 DEF PartOf, Whole
<1> QED BY <1>2 DEF t

LEMMA WholeLoaded ==
  ASSUME ViewAssumption, BuilderAssumption, NothingReachesIn,
         NEW s, Whole(s), NEW file \in Files
  PROVE  Whole(AddLabels(s, file))
<1> DEFINE t == AddLabels(s, file)
<1>1. WithPartOf(s, t, file, Len(file))
  BY FileAdded DEF Whole, ViewAssumption
<1>2. \A k \in Valid(file) : ~Reaches(file[k])
  BY DEF NothingReachesIn
<1> HIDE DEF t
<1>3. Whole(t)
  BY <1>1, <1>2 DEF WithPartOf, Whole
<1> QED BY <1>3 DEF t

(* A file that fits the device is loaded over labels outside of it. *)
LEMMA LoadedFits ==
  ASSUME ViewAssumption, BuilderAssumption, FilesAreTidy, NothingReachesIn,
         NEW s, Whole(s), NEW file \in Files,
         \A j \in DOMAIN s : s[j].start \notin Start .. End,
         \A k \in DOMAIN file : file[k].start >= Start /\ file[k].end <= End
  PROVE  FitsIn(s, file)
<1> SUFFICES ASSUME NEW k \in Valid(file)
             PROVE  /\ \A j \in DOMAIN s : Apart(s[j], file[k])
                    /\ \A j \in Valid(file) \ {k} : Apart(file[j], file[k])
  BY DEF FitsIn
<1>1. \A j \in Valid(file) \ {k} : Apart(file[j], file[k])
  BY DEF FilesAreTidy
<1>2. ASSUME NEW j \in DOMAIN s PROVE Apart(s[j], file[k])
  <2>1. s[j] \in Ranges /\ ~Reaches(s[j]) /\ s[j].start \notin Start .. End
    BY DEF Whole
  <2>2. s[j].start \in Nat /\ s[j].end \in Nat /\ s[j].start <= s[j].end
    BY <2>1, RangeOfNumbers
  <2>3. k \in DOMAIN file /\ file \in Seq(Labelling) /\ file[k] \in Labelling
    BY DEF Valid, ViewAssumption
  <2>4. file[k].start \in Nat /\ file[k].end \in Nat
    BY <2>3 DEF Labelling, BuilderAssumption
  <2>5. file[k].start >= Start /\ file[k].end <= End
    BY <2>3
  <2> QED BY <2>1, <2>2, <2>4, <2>5 DEF Apart, Reaches, BuilderAssumption
<1> QED BY <1>1, <1>2

LEMMA WholeInit ==
  ASSUME ViewAssumption, BuilderAssumption, NothingReachesIn, Init
  PROVE  Whole(labels)
<1>1. Whole(<<>>)
  BY DEF Whole
<1>2. \A s : Whole(s) => \A file \in Files \union {<<>>} : Whole(AddLabels(s, file))
  <2> SUFFICES ASSUME NEW s, Whole(s), NEW file \in Files \union {<<>>}
               PROVE  Whole(AddLabels(s, file))
    OBVIOUS
  <2>1. CASE file \in Files
    BY <2>1, WholeLoaded
  <2>2. CASE file = <<>>
    <3>1. Len(file) = 0 /\ Len(file) \in Nat
      BY <2>2
    <3>2. PICK f : IsAdding(f, s, file, Len(file)) /\ AddLabels(s, file) = f[Len(file)]
      BY <3>1, AddLabelsIs
    <3>3. AddLabels(s, file) = s
      BY <3>1, <3>2 DEF IsAdding
    <3> QED BY <3>3
  <2> QED BY <2>1, <2>2
<1> QED BY <1>1, <1>2 DEF Init

(* One step, for each way in which an action changes the list *)
LEMMA TidyStep ==
  ASSUME ViewAssumption, BuilderAssumption, FilesAreTidy, NothingReachesIn,
         Whole(labels), [Next]_vars
  PROVE  Whole(labels') /\ StaysTidy
<1>1. ASSUME NEW label \in Candidates, Validates(label, 0),
             labels' = AddLabel(labels, label)
      PROVE  Whole(labels') /\ StaysTidy
  <2>1. label \in Ranges /\ ~Reaches(label)
    BY CandidatesAreRanges
  <2>2. labels \in Seq(Ranges)
    BY DEF Whole
  <2>3. Tidy(labels) => Tidy(labels')
    BY <1>1, <2>1, <2>2, Added DEF Validates
  <2>4. Whole(labels')
    BY <1>1, <2>1, WholeAdded
  <2> QED BY <2>3, <2>4 DEF StaysTidy
<1>2. ASSUME UNCHANGED labels PROVE Whole(labels') /\ StaysTidy
  BY <1>2 DEF StaysTidy
<1>3. ASSUME NEW i, labels' = RemoveLabel(labels, i)
      PROVE  Whole(labels') /\ StaysTidy
  BY <1>3, WholeRemoved, RemovedLabel DEF Whole, StaysTidy
<1>4. ASSUME NEW label \in Candidates, AcceptEdit(label)
      PROVE  Whole(labels') /\ StaysTidy
  <2>1. PICK edited \in SlotLabels(dialog.slot) :
          labels' = AddLabel(RemoveLabel(labels, edited), label)
    BY <1>4 DEF AcceptEdit
  <2>2. label \in Ranges /\ ~Reaches(label)
    BY CandidatesAreRanges
  <2> DEFINE s == RemoveLabel(labels, edited)
  <2>3. /\ Whole(s) /\ s \in Seq(Ranges)
        /\ Tidy(labels) => Tidy(s)
        /\ \A j \in DOMAIN s : \E k \in DOMAIN labels \ {edited} : s[j] = labels[k]
    BY WholeRemoved, RemovedLabel DEF Whole
  <2> HIDE DEF s
  <2>4. labels' = AddLabel(s, label)
    BY <2>1 DEF s
  <2>5. Whole(labels')
    BY <2>2, <2>3, <2>4, WholeAdded
  <2>6. CASE edited = dialog.label
    <3>1. ~HasCollision(labels, edited, label.start, label.end)
      BY <1>4, <2>6 DEF AcceptEdit, Validates
    <3>2. ~HasCollision(s, 0, label.start, label.end)
      BY <2>3, <3>1 DEF HasCollision
    <3>3. Tidy(labels) => Tidy(labels')
      BY <2>2, <2>3, <2>4, <3>2, Added
    <3> QED BY <2>5, <3>3 DEF StaysTidy
  <2>7. CASE edited # dialog.label
    BY <1>4, <2>5, <2>7 DEF AcceptEdit, StaysTidy
  <2> QED BY <2>6, <2>7
<1>5. ASSUME TableClear PROVE Whole(labels') /\ StaysTidy
  <2>1. labels' = ClearLabels(labels, Start, End)
    BY <1>5 DEF TableClear, Changes
  <2> QED BY <2>1, WholeCleared DEF StaysTidy
<1>6. ASSUME NEW file \in Files, TableLoad(file) PROVE Whole(labels') /\ StaysTidy
  <2>1. CASE \E i \in DOMAIN file : file[i].start < Start \/ file[i].end > End
    BY <1>2, <1>6, <2>1 DEF TableLoad, Changes
  <2>2. CASE ~\E i \in DOMAIN file : file[i].start < Start \/ file[i].end > End
    <3> DEFINE s == ClearLabels(labels, Start, End)
    <3>1. labels' = AddLabels(s, file)
      BY <1>6, <2>2 DEF TableLoad, Changes
    <3>2. /\ Whole(s)
          /\ Tidy(labels) => Tidy(s)
          /\ \A j \in DOMAIN s : s[j].start \notin Start .. End
      BY WholeCleared
    <3> HIDE DEF s
    <3>3. file \in Seq(Labelling)
      BY DEF ViewAssumption
    <3>4. \A k \in DOMAIN file : file[k].start >= Start /\ file[k].end <= End
      <4> SUFFICES ASSUME NEW k \in DOMAIN file
                   PROVE  file[k].start >= Start /\ file[k].end <= End
        OBVIOUS
      <4>1. file[k] \in Labelling
        BY <3>3
      <4>2. file[k].start \in Nat /\ file[k].end \in Nat
        BY <4>1 DEF Labelling, BuilderAssumption
      <4> QED BY <2>2, <4>2 DEF BuilderAssumption
    <3>5. FitsIn(s, file)
      BY <3>2, <3>4, LoadedFits
    <3>6. WithPartOf(s, labels', file, Len(file))
      BY <3>1, <3>2, <3>3, FileAdded DEF Whole
    <3>7. Tidy(labels) => Tidy(labels')
      BY <3>2, <3>5, <3>6 DEF WithPartOf
    <3>8. Whole(labels')
      BY <3>1, <3>2, WholeLoaded
    <3> QED BY <3>7, <3>8 DEF StaysTidy
  <2> QED BY <2>1, <2>2
<1>7. ASSUME NEW label \in Candidates, AcceptAdd(label) \/ TableAdd(label)
      PROVE  Whole(labels') /\ StaysTidy
  BY <1>1, <1>7 DEF AcceptAdd, TableAdd, Changes
<1>8. ASSUME NEW label \in Candidates, TableEdit(label)
      PROVE  Whole(labels') /\ StaysTidy
  BY <1>2, <1>8 DEF TableEdit, Changes
<1>9. ASSUME AcceptRemove PROVE Whole(labels') /\ StaysTidy
  BY <1>3, <1>9 DEF AcceptRemove
<1>10. ASSUME NEW row \in DOMAIN table, TableDelete(row)
       PROVE  Whole(labels') /\ StaysTidy
  BY <1>3, <1>10 DEF TableDelete, Changes
<1>11. ASSUME \/ Program \/ Refresh \/ Run
              \/ \E address \in Start .. End :
                   Stop(address) \/ BreakpointHit(address) \/ Step(address)
              \/ Wheel(1) \/ Wheel(-1)
              \/ \E value \in 0 .. End - Start + MaxLabels : Slide(value)
       PROVE  Whole(labels') /\ StaysTidy
  BY <1>2, <1>11 DEF Program, Refresh, Run, Stop, BreakpointHit, Step, Wheel, Slide
<1>12. ASSUME \/ \E row \in 0 .. Visible : Click(row) \/ ClickMargin(row)
              \/ \E direction \in {-1, 1, -Visible, Visible} : Key(direction)
              \/ KeyTo(Start) \/ KeyTo(End)
              \/ OpenMenu \/ Cancel
              \/ \E op \in {"add", "edit", "remove"} : Choose(op) \/ Shortcut(op)
       PROVE  Whole(labels') /\ StaysTidy
  BY <1>2, <1>12 DEF Click, ClickMargin, Key, KeyTo, OpenMenu, Cancel, Choose, Shortcut,
                     Opens, Aborts
<1>13. ASSUME UNCHANGED vars PROVE Whole(labels') /\ StaysTidy
  BY <1>2, <1>13 DEF vars
<1> QED
  BY <1>4, <1>5, <1>6, <1>7, <1>8, <1>9, <1>10, <1>11, <1>12, <1>13 DEF Next

(* Through everything the user does in the view and in the table, a list of
   labels that is sorted and free of overlaps stays so (label_manager.cpp), but
   for an edit whose line has been built again under the open dialog. *)
THEOREM LabelsRemainTidy ==
  ASSUME FilesAreTidy, NothingReachesIn
  PROVE  Spec => LabelsStayTidy
<1>1. Init => Whole(labels)
  BY WholeInit, ViewAssumption, BuilderAssumption
<1>2. Whole(labels) /\ [Next]_vars => Whole(labels)' /\ [StaysTidy]_vars
  BY TidyStep, ViewAssumption, BuilderAssumption
<1> QED BY <1>1, <1>2, PTL DEF Spec, LabelsStayTidy

-----------------------------------------------------------------------------
(* The lines of build *)

(* Lines with labels from a list of n *)
Lined(n) == [address : Nat, type : {"Comment", "Assembly", "Data"},
             bytes : Nat, label : 0 .. n]

(* The address after a line: a filler line claims too many bytes. *)
EndsAt(line, address) ==
  IF IsFiller(line) THEN address \in line.address + 1 .. line.address + line.bytes
  ELSE address = line.address + line.bytes

Chained(l) == \A k \in 2 .. Len(l) : EndsAt(l[k - 1], l[k].address)

(* A comment has no bytes and marks an address of the device. *)
IsProper(line) == line.type = "Comment" => line.bytes = 0 /\ line.address <= End

(* The lines run from one address to the next one. *)
RunsTo(n, l, from, to) ==
  /\ l \in Seq(Lined(n)) /\ Len(l) > 0
  /\ l[1].address = from /\ EndsAt(l[Len(l)], to)
  /\ Chained(l)
  /\ \A k \in 1 .. Len(l) : IsProper(l[k])

(* ... or there are none yet. *)
TilesTo(n, l, to) == (l = <<>> /\ to = Start) \/ RunsTo(n, l, Start, to)

IsLine(n, e, address, type, bytes, label) ==
  /\ e \in Lined(n)
  /\ e.address = address /\ e.type = type /\ e.bytes = bytes /\ e.label = label

LEMMA LineIs ==
  ASSUME NEW n \in Nat, NEW a \in Nat, NEW type \in {"Comment", "Assembly", "Data"},
         NEW bytes \in Nat, NEW label \in 0 .. n
  PROVE  IsLine(n, Line(a, type, bytes, label), a, type, bytes, label)
BY DEF Line, Lined, IsLine

(* Rows of data: all but the last are full. *)
LEMMA RowAt ==
  ASSUME BuilderAssumption, NEW first \in Nat, NEW last \in Nat, first <= last
  PROVE  LET K == (last - first) \div PerLine + 1
         IN  /\ K \in Nat \ {0}
             /\ \A i \in 1 .. K : LET a == first + (i - 1) * PerLine
                                  IN  /\ a \in Nat /\ a <= last
                                      /\ i < K => a + PerLine <= last
                                      /\ i = K => last + 1 <= a + PerLine
<1> DEFINE q == (last - first) \div PerLine
<1>1. /\ PerLine \in Nat \ {0}
      /\ q \in Nat /\ q * PerLine <= last - first
      /\ last - first < q * PerLine + PerLine
  BY DEF BuilderAssumption
<1> HIDE DEF q
<1>2. ASSUME NEW i \in 1 .. q + 1
      PROVE  LET a == first + (i - 1) * PerLine
             IN  /\ a \in Nat /\ a <= last
                 /\ i < q + 1 => a + PerLine <= last
                 /\ i = q + 1 => last + 1 <= a + PerLine
  <2> DEFINE p == (i - 1) * PerLine
  <2>1. i - 1 \in Nat /\ p \in Nat /\ i - 1 <= q
    BY <1>1
  <2>2. p <= q * PerLine
    BY <1>1, <2>1
  <2>3. i < q + 1 => p + PerLine <= q * PerLine
    <3>1. p + PerLine = i * PerLine
      BY <1>1
    <3>2. i < q + 1 => i * PerLine <= q * PerLine
      BY <1>1
    <3> QED BY <3>1, <3>2
  <2>4. i = q + 1 => p = q * PerLine
    BY <1>1
  <2>5. q * PerLine \in Nat
    BY <1>1
  <2> HIDE DEF p
  <2>6. /\ first + p \in Nat /\ first + p <= last
        /\ i < q + 1 => first + p + PerLine <= last
        /\ i = q + 1 => last + 1 <= first + p + PerLine
    BY <1>1, <2>1, <2>2, <2>3, <2>4, <2>5
  <2> QED BY <2>6 DEF p
<1> QED BY <1>1, <1>2 DEF q

LEMMA DataRuns ==
  ASSUME BuilderAssumption, NEW n \in Nat, NEW label \in 1 .. n,
         NEW first \in Nat, NEW last \in Nat, first <= last
  PROVE  RunsTo(n, DataLines(first, last, label), first, last + 1)
<1> DEFINE K == (last - first) \div PerLine + 1
           A(i) == first + (i - 1) * PerLine
           B(i) == Smaller(PerLine, last - A(i) + 1)
           d == DataLines(first, last, label)
<1>1. /\ K \in Nat \ {0} /\ PerLine \in Nat \ {0}
      /\ \A i \in 1 .. K : /\ A(i) \in Nat /\ A(i) <= last
                           /\ i < K => A(i) + PerLine <= last
                           /\ i = K => last + 1 <= A(i) + PerLine
  BY RowAt DEF BuilderAssumption
<1>2. d = [i \in 1 .. K |-> Line(A(i), "Data", B(i), label)]
  BY DEF DataLines
<1>3. \A i \in 1 .. K : i > 1 => A(i) = A(i - 1) + PerLine
  BY <1>1
<1>4. A(1) = first
  BY <1>1
<1> HIDE DEF K, A, d
<1>5. \A i \in 1 .. K : /\ B(i) \in Nat
                        /\ i < K => B(i) = PerLine
                        /\ i = K => B(i) = last + 1 - A(i)
  BY <1>1 DEF Smaller
<1> HIDE DEF B
<1>6. \A i \in 1 .. K : /\ d[i] \in Lined(n)
                        /\ d[i].address = A(i) /\ d[i].type = "Data"
                        /\ d[i].bytes = B(i) /\ d[i].label = label
  <2> TAKE i \in 1 .. K
  <2>1. d[i] = Line(A(i), "Data", B(i), label) /\ label \in 0 .. n /\ A(i) \in Nat
    BY <1>1, <1>2
  <2>2. B(i) \in Nat
    BY <1>5
  <2>3. IsLine(n, d[i], A(i), "Data", B(i), label)
    BY <2>1, <2>2, LineIs
  <2> QED BY <2>3 DEF IsLine
<1>7. d \in Seq(Lined(n)) /\ Len(d) = K
  <2>1. d = [i \in 1 .. K |-> d[i]]
    BY <1>2
  <2> QED BY <1>1, <1>6, <2>1
<1>8. \A i \in 1 .. K : ~IsFiller(d[i])
  BY <1>6 DEF IsFiller
<1>9. Chained(d)
  <2> SUFFICES ASSUME NEW k \in 2 .. K PROVE EndsAt(d[k - 1], d[k].address)
    BY <1>7 DEF Chained
  <2>1. k - 1 \in 1 .. K /\ k \in 1 .. K /\ k - 1 < K /\ k > 1
    BY <1>1
  <2>2. d[k].address = A(k - 1) + PerLine
    BY <1>3, <1>6, <2>1
  <2>3. d[k - 1].address = A(k - 1) /\ d[k - 1].bytes = PerLine
    BY <1>5, <1>6, <2>1
  <2> QED BY <1>8, <2>1, <2>2, <2>3 DEF EndsAt
<1>10. EndsAt(d[K], last + 1)
  <2>1. K \in 1 .. K
    BY <1>1
  <2>2. d[K].address = A(K) /\ d[K].bytes = last + 1 - A(K) /\ A(K) \in Nat
    BY <1>1, <1>5, <1>6, <2>1
  <2> QED BY <1>8, <2>1, <2>2 DEF EndsAt
<1>11. d[1].address = first
  BY <1>1, <1>4, <1>6
<1>12. \A k \in 1 .. K : IsProper(d[k])
  BY <1>6 DEF IsProper
<1>13. K > 0
  BY <1>1
<1> QED BY <1>7, <1>9, <1>10, <1>11, <1>12, <1>13 DEF RunsTo, d

LEMMA FillerRuns ==
  ASSUME BuilderAssumption, NEW n \in Nat,
         NEW first \in Nat, NEW last \in Nat, first <= last
  PROVE  RunsTo(n, FillerLines(first, last), first, last + 1)
<1> DEFINE K == (last - first) \div PerLine + 1
           A(i) == first + (i - 1) * PerLine
           B(i) == Smaller(PerLine, last - A(i) + 1)
           d == FillerLines(first, last)
<1>1. /\ K \in Nat \ {0} /\ PerLine \in Nat \ {0}
      /\ \A i \in 1 .. K : /\ A(i) \in Nat /\ A(i) <= last
                           /\ i < K => A(i) + PerLine <= last
                           /\ i = K => last + 1 <= A(i) + PerLine
  BY RowAt DEF BuilderAssumption
<1>2. d = [i \in 1 .. K |-> Line(A(i), "Data", PerLine, 0)]
  <2>1. DataLines(first, last, 0) = [i \in 1 .. K |-> Line(A(i), "Data", B(i), 0)]
    BY DEF DataLines
  <2>2. \A a, bytes : [Line(a, "Data", bytes, 0) EXCEPT !.bytes = PerLine]
                        = Line(a, "Data", PerLine, 0)
    BY DEF Line
  <2> HIDE DEF A, B, K
  <2>3. d = [i \in 1 .. K |-> [Line(A(i), "Data", B(i), 0) EXCEPT !.bytes = PerLine]]
    BY <2>1 DEF FillerLines
  <2> HIDE DEF d
  <2> QED BY <2>2, <2>3
<1>3. \A i \in 1 .. K : i > 1 => A(i) = A(i - 1) + PerLine
  BY <1>1
<1>4. A(1) = first
  BY <1>1
<1> HIDE DEF K, A, B, d
<1>5. \A i \in 1 .. K : /\ d[i] \in Lined(n)
                        /\ d[i].address = A(i) /\ d[i].type = "Data"
                        /\ d[i].bytes = PerLine /\ d[i].label = 0
  <2> TAKE i \in 1 .. K
  <2>1. d[i] = Line(A(i), "Data", PerLine, 0) /\ 0 \in 0 .. n /\ A(i) \in Nat
    BY <1>1, <1>2
  <2>2. IsLine(n, d[i], A(i), "Data", PerLine, 0)
    BY <1>1, <2>1, LineIs
  <2> QED BY <2>2 DEF IsLine
<1>6. d \in Seq(Lined(n)) /\ Len(d) = K
  <2>1. d = [i \in 1 .. K |-> d[i]]
    BY <1>2
  <2> QED BY <1>1, <1>5, <2>1
<1>7. \A i \in 1 .. K : IsFiller(d[i])
  BY <1>5 DEF IsFiller
<1>8. Chained(d)
  <2> SUFFICES ASSUME NEW k \in 2 .. K PROVE EndsAt(d[k - 1], d[k].address)
    BY <1>6 DEF Chained
  <2>1. k - 1 \in 1 .. K /\ k \in 1 .. K /\ k > 1
    BY <1>1
  <2>2. d[k].address = A(k - 1) + PerLine /\ A(k - 1) \in Nat
    BY <1>1, <1>3, <1>5, <2>1
  <2>3. d[k - 1].address = A(k - 1) /\ d[k - 1].bytes = PerLine
    BY <1>5, <2>1
  <2> QED BY <1>1, <1>7, <2>1, <2>2, <2>3 DEF EndsAt
<1>9. EndsAt(d[K], last + 1)
  <2>1. K \in 1 .. K
    BY <1>1
  <2>2. /\ d[K].address = A(K) /\ d[K].bytes = PerLine /\ A(K) \in Nat
        /\ A(K) <= last /\ last + 1 <= A(K) + PerLine
    BY <1>1, <1>5, <2>1
  <2> QED BY <1>1, <1>7, <2>1, <2>2 DEF EndsAt
<1>10. d[1].address = first
  BY <1>1, <1>4, <1>5
<1>11. \A k \in 1 .. K : IsProper(d[k])
  BY <1>5 DEF IsProper
<1>12. K > 0
  BY <1>1
<1> QED BY <1>6, <1>8, <1>9, <1>10, <1>11, <1>12 DEF RunsTo, d

(* Lines put behind lines *)
IsJoined(l, d, t) ==
  /\ Len(t) = Len(l) + Len(d)
  /\ \A k \in 1 .. Len(l) : t[k] = l[k]
  /\ \A k \in 1 .. Len(d) : t[Len(l) + k] = d[k]

LEMMA ListOfLines ==
  ASSUME NEW n \in Nat, NEW l, NEW a, TilesTo(n, l, a)
  PROVE  l \in Seq(Lined(n))
<1>1. CASE l = <<>>
  BY <1>1
<1>2. CASE l # <<>>
  BY <1>2 DEF TilesTo, RunsTo
<1> QED BY <1>1, <1>2

LEMMA Joined ==
  ASSUME NEW n \in Nat, NEW l, NEW d, NEW a \in Nat, NEW b \in Nat,
         TilesTo(n, l, a), RunsTo(n, d, a, b)
  PROVE  TilesTo(n, l \o d, b) /\ IsJoined(l, d, l \o d)
<1> DEFINE t == l \o d
<1>1. /\ l \in Seq(Lined(n)) /\ Len(l) \in Nat
      /\ d \in Seq(Lined(n)) /\ Len(d) \in Nat \ {0}
  <2>1. l \in Seq(Lined(n))
    BY ListOfLines
  <2>2. d \in Seq(Lined(n)) /\ Len(d) > 0
    BY DEF RunsTo
  <2>3. Len(l) \in Nat
    BY <2>1
  <2>4. Len(d) \in Nat
    BY <2>2
  <2> QED BY <2>1, <2>2, <2>3, <2>4
<1>2. /\ t \in Seq(Lined(n)) /\ Len(t) = Len(l) + Len(d)
      /\ \A k \in 1 .. Len(l) + Len(d) : t[k] = IF k <= Len(l) THEN l[k] ELSE d[k - Len(l)]
  BY <1>1, ConcatProperties
<1> HIDE DEF t
<1>3. IsJoined(l, d, t)
  <2>1. \A k \in 1 .. Len(l) : k \in 1 .. Len(l) + Len(d) /\ k <= Len(l)
    BY <1>1
  <2>2. \A k \in 1 .. Len(d) : /\ Len(l) + k \in 1 .. Len(l) + Len(d)
                               /\ ~(Len(l) + k <= Len(l)) /\ Len(l) + k - Len(l) = k
    BY <1>1
  <2>3. ASSUME NEW k \in 1 .. Len(d) PROVE t[Len(l) + k] = d[k]
    BY <1>2, <2>2
  <2> QED BY <1>2, <2>1, <2>3 DEF IsJoined
<1>4. CASE l = <<>>
  <2>1. t = d
    BY <1>1, <1>4 DEF t
  <2>2. a = Start
    BY <1>4 DEF TilesTo, RunsTo
  <2> QED BY <1>3, <2>1, <2>2 DEF TilesTo, t
<1>5. CASE l # <<>>
  <2> DEFINE m == Len(l)
             j == Len(d)
  <2>1. /\ RunsTo(n, l, Start, a) /\ m \in Nat \ {0} /\ j \in Nat \ {0}
        /\ Len(t) = m + j
        /\ \A k \in 1 .. m : t[k] = l[k]
        /\ \A k \in 1 .. j : t[m + k] = d[k]
    BY <1>1, <1>3, <1>5 DEF TilesTo, RunsTo, IsJoined
  <2>2. /\ l[1].address = Start /\ EndsAt(l[m], a)
        /\ \A k \in 2 .. m : EndsAt(l[k - 1], l[k].address)
        /\ \A k \in 1 .. m : IsProper(l[k])
    BY <2>1 DEF RunsTo, Chained
  <2>3. /\ d[1].address = a /\ EndsAt(d[j], b)
        /\ \A k \in 2 .. j : EndsAt(d[k - 1], d[k].address)
        /\ \A k \in 1 .. j : IsProper(d[k])
    BY DEF RunsTo, Chained
  <2> HIDE DEF m, j
  <2>4. \A k \in m + 1 .. m + j : k - m \in 1 .. j /\ t[k] = d[k - m]
    <3> SUFFICES ASSUME NEW k \in m + 1 .. m + j PROVE k - m \in 1 .. j /\ t[k] = d[k - m]
      OBVIOUS
    <3>1. k - m \in 1 .. j /\ m + (k - m) = k
      BY <2>1
    <3>2. t[m + (k - m)] = d[k - m]
      BY <2>1, <3>1
    <3> QED BY <3>1, <3>2
  <2>5. ASSUME NEW k \in 2 .. m + j PROVE EndsAt(t[k - 1], t[k].address)
    <3>1. CASE k <= m
      <4>1. k \in 2 .. m /\ k - 1 \in 1 .. m /\ k \in 1 .. m
        BY <2>1, <3>1
      <4> QED BY <2>1, <2>2, <4>1
    <3>2. CASE k = m + 1
      <4>1. m \in 1 .. m /\ k - 1 = m /\ k \in m + 1 .. m + j /\ k - m = 1
        BY <2>1, <3>2
      <4>2. t[k - 1] = l[m] /\ t[k] = d[1]
        BY <2>1, <2>4, <4>1
      <4> QED BY <2>2, <2>3, <4>2
    <3>3. CASE k > m + 1
      <4>1. /\ k - 1 \in m + 1 .. m + j /\ k \in m + 1 .. m + j
            /\ k - m \in 2 .. j /\ k - 1 - m = k - m - 1
        BY <2>1, <3>3
      <4>2. t[k - 1] = d[k - m - 1] /\ t[k] = d[k - m]
        BY <2>4, <4>1
      <4> QED BY <2>3, <4>1, <4>2
    <3> QED BY <2>1, <3>1, <3>2, <3>3
  <2>6. ASSUME NEW k \in 1 .. m + j PROVE IsProper(t[k])
    <3>1. k \in 1 .. m \/ k \in m + 1 .. m + j
      BY <2>1
    <3> QED BY <2>1, <2>2, <2>3, <2>4, <3>1
  <2>7. t[1].address = Start
    <3>1. 1 \in 1 .. m
      BY <2>1
    <3> QED BY <2>1, <2>2, <3>1
  <2>8. EndsAt(t[m + j], b)
    <3> DEFINE k == m + j
    <3>1. k \in m + 1 .. m + j /\ k - m = j
      BY <2>1
    <3> HIDE DEF k
    <3>2. t[k] = d[j]
      BY <2>4, <3>1
    <3> QED BY <2>3, <3>2 DEF k
  <2>9. m + j > 0
    BY <2>1
  <2>10. Chained(t)
    BY <2>1, <2>5 DEF Chained
  <2>11. RunsTo(n, t, Start, b)
    BY <1>2, <2>1, <2>6, <2>7, <2>8, <2>9, <2>10 DEF RunsTo
  <2> QED BY <1>3, <2>11 DEF TilesTo, t
<1> QED BY <1>4, <1>5

LEMMA OneLine ==
  ASSUME NEW n \in Nat, NEW e \in Lined(n), NEW a \in Nat, NEW b \in Nat,
         NEW l, TilesTo(n, l, a),
         e.address = a, EndsAt(e, b), IsProper(e)
  PROVE  TilesTo(n, Append(l, e), b) /\ IsJoined(l, <<e>>, Append(l, e))
<1>1. /\ <<e>> \in Seq(Lined(n)) /\ Len(<<e>>) = 1 /\ <<e>>[1] = e
      /\ l \in Seq(Lined(n))
  BY ListOfLines
<1>2. RunsTo(n, <<e>>, a, b)
  <2>1. Chained(<<e>>)
    BY <1>1 DEF Chained
  <2>2. \A k \in 1 .. 1 : <<e>>[k] = e
    BY <1>1
  <2> QED BY <1>1, <2>1, <2>2 DEF RunsTo
<1>3. Append(l, e) = l \o <<e>>
  BY <1>1, AppendIsConcat
<1> QED BY <1>2, <1>3, Joined

(* The label i, which starts at a, is marked, or the instruction of a label in
   front of it covers its start. *)
IsShown(l, i, a) ==
  \E p \in 1 .. Len(l) :
    \/ Marks(l[p]) /\ l[p].type # "Data" /\ l[p].label = i /\ l[p].address = a
    \/ /\ l[p].label \in 1 .. i - 1 /\ l[p].type = "Assembly"
       /\ l[p].address < a /\ a < l[p].address + l[p].bytes

LEMMA StillShown ==
  ASSUME NEW l, NEW d, NEW t, IsJoined(l, d, t), Len(l) \in Nat, Len(d) \in Nat,
         NEW i, NEW a, IsShown(l, i, a) \/ IsShown(d, i, a)
  PROVE  IsShown(t, i, a)
<1>1. CASE IsShown(l, i, a)
  <2>1. \A p \in 1 .. Len(l) : p \in 1 .. Len(t) /\ t[p] = l[p]
    BY DEF IsJoined
  <2> QED BY <1>1, <2>1 DEF IsShown
<1>2. CASE IsShown(d, i, a)
  <2>1. \A p \in 1 .. Len(d) : Len(l) + p \in 1 .. Len(t) /\ t[Len(l) + p] = d[p]
    BY DEF IsJoined
  <2>2. PICK p \in 1 .. Len(d) :
          \/ Marks(d[p]) /\ d[p].type # "Data" /\ d[p].label = i /\ d[p].address = a
          \/ /\ d[p].label \in 1 .. i - 1 /\ d[p].type = "Assembly"
             /\ d[p].address < a /\ a < d[p].address + d[p].bytes
    BY <1>2 DEF IsShown
  <2> DEFINE q == Len(l) + p
  <2>3. q \in 1 .. Len(t) /\ t[q] = d[p]
    BY <2>1
  <2> HIDE DEF q
  <2> QED BY <2>2, <2>3 DEF IsShown
<1> QED BY <1>1, <1>2

-----------------------------------------------------------------------------
(* One turn of build *)

(* What is built so far *)
Builds(n) == [address : Nat, next : Nat, inside : Nat, lines : Seq(Lined(n)),
              returns : BOOLEAN]

GoodBuild(list, b) ==
  /\ b \in Builds(Len(list))
  /\ b.address >= Start
  /\ b.next \in 1 .. Len(list) + 1 /\ b.inside < b.next
  /\ TilesTo(Len(list), b.lines, b.address)
  /\ ~b.returns => ReachesBehind(list)

(* A label of the device that is not shown is still ahead. *)
AllShown(list, b) ==
  \A i \in 1 .. Len(list) : list[i].start \in Start .. End =>
    \/ i >= b.next /\ list[i].start >= b.address
    \/ IsShown(b.lines, i, list[i].start)

Onward(list, b, c) ==
  /\ GoodBuild(list, c)
  /\ Tidy(list) /\ AllShown(list, b) => AllShown(list, c)

LEMMA OnwardTwice ==
  ASSUME NEW list, NEW a, NEW b, NEW c, Onward(list, a, b), Onward(list, b, c)
  PROVE  Onward(list, a, c)
BY DEF Onward

LEMMA LabelOfList ==
  ASSUME ViewAssumption, BuilderAssumption, NEW list \in Seq(Ranges),
         NEW i \in 1 .. Len(list)
  PROVE  /\ list[i].start \in Nat /\ list[i].end \in Nat
         /\ list[i].start <= list[i].end /\ list[i].end <= Highest
         /\ list[i].type \in Types
<1>1. list[i] \in Ranges
  OBVIOUS
<1> QED BY <1>1 DEF Ranges, Labelling, BuilderAssumption

(* The mark of a label *)
MarkedWith(b, type, i) ==
  [b EXCEPT !.lines = Append(@, Line(b.address, type, 0, i)), !.next = i + 1]

LEMMA MarkedOnward ==
  ASSUME ViewAssumption, BuilderAssumption, NEW list \in Seq(Ranges),
         NEW b, GoodBuild(list, b), b.address <= End,
         NEW i, i = b.next, i <= Len(list), list[i].start = b.address,
         NEW type \in {"Comment", "Assembly"}
  PROVE  LET c == MarkedWith(b, type, i)
         IN  /\ Onward(list, b, c)
             /\ c.address = b.address /\ c.next = i + 1
             /\ c.inside = b.inside /\ c.returns = b.returns
<1> DEFINE n == Len(list)
           e == Line(b.address, type, 0, i)
           c == MarkedWith(b, type, i)
<1>1. /\ n \in Nat /\ i \in 1 .. n /\ b.address \in Nat /\ b.inside \in Nat
      /\ b.inside < i /\ b.returns \in BOOLEAN /\ b.address >= Start
      /\ b.lines \in Seq(Lined(n)) /\ TilesTo(n, b.lines, b.address)
  BY DEF GoodBuild, Builds
<1>2. IsLine(n, e, b.address, type, 0, i)
  BY <1>1, LineIs
<1> HIDE DEF e, n
<1>3. ~IsFiller(e) /\ EndsAt(e, b.address)
  BY <1>1, <1>2 DEF IsLine, IsFiller, EndsAt
<1> DEFINE t == Append(b.lines, e)
<1>4. TilesTo(n, t, b.address) /\ IsJoined(b.lines, <<e>>, t)
  BY <1>1, <1>2, <1>3, OneLine DEF IsLine, IsProper
<1>5. t \in Seq(Lined(n))
  BY <1>1, <1>4, ListOfLines
<1>6. c = [b EXCEPT !.lines = t, !.next = i + 1]
  BY DEF MarkedWith, e
<1> HIDE DEF t, c
<1>7. /\ c \in Builds(n) /\ c.lines = t /\ c.address = b.address /\ c.next = i + 1
      /\ c.inside = b.inside /\ c.returns = b.returns
  <2>1. b \in Builds(n) /\ i + 1 \in Nat
    BY <1>1 DEF GoodBuild, n
  <2> QED BY <1>5, <1>6, <2>1 DEF Builds
<1>8. GoodBuild(list, c)
  BY <1>1, <1>4, <1>7 DEF GoodBuild, n
<1>9. ASSUME AllShown(list, b) PROVE AllShown(list, c)
  <2> SUFFICES ASSUME NEW k \in 1 .. n, list[k].start \in Start .. End
               PROVE  \/ k >= c.next /\ list[k].start >= c.address
                      \/ IsShown(c.lines, k, list[k].start)
    BY DEF AllShown, n
  <2>0. Len(b.lines) \in Nat /\ Len(<<e>>) = 1 /\ <<e>>[1] = e
    BY <1>1
  <2>1. CASE k = i
    <3>1. IsShown(<<e>>, k, list[k].start)
      <4>1. Marks(e) /\ e.type # "Data" /\ e.label = k /\ e.address = list[k].start
        BY <1>2, <2>1 DEF IsLine, Marks
      <4>2. 1 \in 1 .. Len(<<e>>)
        BY <2>0
      <4> HIDE DEF e
      <4> QED BY <2>0, <4>1, <4>2 DEF IsShown
    <3> QED BY <1>4, <1>7, <2>0, <3>1, StillShown
  <2>2. CASE k # i
    <3>1. \/ k >= b.next /\ list[k].start >= b.address
          \/ IsShown(b.lines, k, list[k].start)
      BY <1>9 DEF AllShown, n
    <3>2. CASE k >= b.next /\ list[k].start >= b.address
      BY <1>1, <1>7, <2>2, <3>2
    <3>3. CASE IsShown(b.lines, k, list[k].start)
      <4>1. Len(<<e>>) \in Nat
        BY <2>0
      <4> QED BY <1>4, <1>7, <2>0, <3>3, <4>1, StillShown
    <3> QED BY <3>1, <3>2, <3>3
  <2> QED BY <2>1, <2>2
<1> QED BY <1>7, <1>8, <1>9 DEF Onward, c

(* An instruction: a label that comes next starts behind it, or it belongs to an
   earlier label. *)
LEMMA DecodedOnward ==
  ASSUME ViewAssumption, BuilderAssumption, NEW list \in Seq(Ranges),
         NEW m \in [Start .. Highest -> 1 .. 3],
         NEW b, GoodBuild(list, b), b.address <= Highest,
         NEW label \in 0 .. Len(list),
         Tidy(list) => \A k \in b.next .. Len(list) :
           list[k].start >= b.address =>
             \/ list[k].start >= b.address + m[b.address]
             \/ label \in 1 .. k - 1 /\ list[k].start > b.address
  PROVE  LET c == Decoded(m, b, label)
         IN  /\ Onward(list, b, c)
             /\ c.address \in Nat /\ c.address > b.address
             /\ c.next = b.next /\ c.inside = b.inside /\ c.returns = b.returns
<1> DEFINE n == Len(list)
           a == b.address
           bytes == m[a]
           e == Line(a, "Assembly", bytes, label)
           c == Decoded(m, b, label)
<1>1. /\ n \in Nat /\ a \in Nat /\ b.inside \in Nat
      /\ b.next \in 1 .. n + 1 /\ b.inside < b.next
      /\ b.returns \in BOOLEAN /\ a >= Start /\ Start \in Nat
      /\ b.lines \in Seq(Lined(n)) /\ TilesTo(n, b.lines, a)
  BY DEF GoodBuild, Builds, BuilderAssumption
<1>2. bytes \in 1 .. 3
  BY <1>1 DEF BuilderAssumption
<1> HIDE DEF n, bytes
<1>3. IsLine(n, e, a, "Assembly", bytes, label)
  <2>1. label \in 0 .. n
    BY DEF n
  <2>2. bytes \in Nat
    BY <1>2
  <2> QED BY <1>1, <2>1, <2>2, LineIs
<1> HIDE DEF e
<1> DEFINE to == a + bytes
<1>4. to \in Nat /\ to > a
  BY <1>1, <1>2
<1>5. ~IsFiller(e) /\ EndsAt(e, to)
  BY <1>1, <1>3 DEF IsLine, IsFiller, EndsAt
<1> DEFINE t == Append(b.lines, e)
<1>6. TilesTo(n, t, to) /\ IsJoined(b.lines, <<e>>, t)
  BY <1>1, <1>3, <1>4, <1>5, OneLine DEF IsLine, IsProper
<1>7. t \in Seq(Lined(n))
  BY <1>1, <1>6, ListOfLines
<1>8. c = [b EXCEPT !.lines = t, !.address = to]
  BY DEF Decoded, e, bytes
<1> HIDE DEF t, to
<1>9. /\ c \in Builds(n) /\ c.lines = t /\ c.address = to /\ c.next = b.next
      /\ c.inside = b.inside /\ c.returns = b.returns
  BY <1>1, <1>4, <1>7, <1>8 DEF GoodBuild, Builds, n
<1> HIDE DEF c
<1>10. GoodBuild(list, c)
  BY <1>1, <1>4, <1>6, <1>9 DEF GoodBuild, n
<1>11. ASSUME Tidy(list), AllShown(list, b) PROVE AllShown(list, c)
  <2> SUFFICES ASSUME NEW k \in 1 .. n, list[k].start \in Start .. End
               PROVE  \/ k >= c.next /\ list[k].start >= c.address
                      \/ IsShown(c.lines, k, list[k].start)
    BY DEF AllShown, n
  <2>0. Len(b.lines) \in Nat /\ Len(<<e>>) = 1 /\ <<e>>[1] = e /\ Len(<<e>>) \in Nat
    BY <1>1
  <2>1. \/ k >= b.next /\ list[k].start >= a
        \/ IsShown(b.lines, k, list[k].start)
    BY <1>11 DEF AllShown, n
  <2>2. CASE IsShown(b.lines, k, list[k].start)
    BY <1>6, <1>9, <2>0, <2>2, StillShown
  <2>3. CASE k >= b.next /\ list[k].start >= a
    <3>1. k \in b.next .. n
      BY <1>1, <2>3
    <3>2. \/ list[k].start >= to
          \/ label \in 1 .. k - 1 /\ list[k].start > a
      BY <1>11, <2>3, <3>1 DEF n, to, bytes
    <3>3. CASE list[k].start >= to
      BY <1>9, <2>3, <3>3
    <3>4. CASE label \in 1 .. k - 1 /\ list[k].start > a /\ list[k].start < to
      <4>1. /\ e.label \in 1 .. k - 1 /\ e.type = "Assembly"
            /\ e.address < list[k].start
            /\ list[k].start < e.address + e.bytes
        BY <1>3, <3>4 DEF IsLine, to
      <4>2. 1 \in 1 .. Len(<<e>>)
        BY <2>0
      <4>3. IsShown(<<e>>, k, list[k].start)
        BY <2>0, <4>1, <4>2 DEF IsShown
      <4> QED BY <1>6, <1>9, <2>0, <4>3, StillShown
    <3>5. list[k].start \in Nat
      BY LabelOfList DEF n
    <3> QED BY <1>4, <3>2, <3>3, <3>4, <3>5
  <2> QED BY <2>1, <2>2, <2>3
<1> QED BY <1>4, <1>9, <1>10, <1>11 DEF Onward, c

(* Lines of data, in front of all the labels that come next *)
LEMMA ListedOnward ==
  ASSUME ViewAssumption, BuilderAssumption, NEW list \in Seq(Ranges),
         NEW b, GoodBuild(list, b), NEW d, NEW to \in Nat, to > b.address,
         RunsTo(Len(list), d, b.address, to),
         Tidy(list) => \A k \in b.next .. Len(list) :
           list[k].start >= b.address => list[k].start >= to
  PROVE  LET c == Listed(b, d, to)
         IN  /\ Onward(list, b, c)
             /\ c.address = to
             /\ c.next = b.next /\ c.inside = b.inside /\ c.returns = b.returns
<1> DEFINE n == Len(list)
           a == b.address
           c == Listed(b, d, to)
           t == b.lines \o d
<1>1. /\ n \in Nat /\ a \in Nat /\ b.inside \in Nat
      /\ b.next \in 1 .. n + 1 /\ b.inside < b.next
      /\ b.returns \in BOOLEAN /\ a >= Start /\ Start \in Nat
      /\ b.lines \in Seq(Lined(n)) /\ TilesTo(n, b.lines, a)
  BY DEF GoodBuild, Builds, BuilderAssumption
<1> HIDE DEF n
<1>2. TilesTo(n, t, to) /\ IsJoined(b.lines, d, t)
  BY <1>1, Joined DEF n
<1>3. t \in Seq(Lined(n))
  BY <1>1, <1>2, ListOfLines
<1>4. c = [b EXCEPT !.lines = t, !.address = to]
  BY DEF Listed
<1> HIDE DEF t
<1>5. /\ c \in Builds(n) /\ c.lines = t /\ c.address = to /\ c.next = b.next
      /\ c.inside = b.inside /\ c.returns = b.returns
  BY <1>1, <1>3, <1>4 DEF GoodBuild, Builds, n
<1> HIDE DEF c
<1>6. GoodBuild(list, c)
  BY <1>1, <1>2, <1>5 DEF GoodBuild, n
<1>7. ASSUME Tidy(list), AllShown(list, b) PROVE AllShown(list, c)
  <2> SUFFICES ASSUME NEW k \in 1 .. n, list[k].start \in Start .. End
               PROVE  \/ k >= c.next /\ list[k].start >= c.address
                      \/ IsShown(c.lines, k, list[k].start)
    BY DEF AllShown, n
  <2>0. Len(b.lines) \in Nat /\ Len(d) \in Nat
    BY <1>1 DEF RunsTo
  <2>1. \/ k >= b.next /\ list[k].start >= a
        \/ IsShown(b.lines, k, list[k].start)
    BY <1>7 DEF AllShown, n
  <2>2. CASE IsShown(b.lines, k, list[k].start)
    BY <1>2, <1>5, <2>0, <2>2, StillShown
  <2>3. CASE k >= b.next /\ list[k].start >= a
    <3>1. k \in b.next .. n
      BY <1>1, <2>3
    <3> QED BY <1>5, <1>7, <2>3, <3>1 DEF n
  <2> QED BY <2>1, <2>2, <2>3
<1> QED BY <1>5, <1>6, <1>7 DEF Onward, c

(* Every turn gets past an address or a label, or build never returns. *)
Advances(b, c) ==
  /\ c.address \in Nat /\ c.next \in Nat /\ c.returns \in BOOLEAN
  /\ c.returns => c.address + c.next > b.address + b.next

LEMMA StuckOnward ==
  ASSUME NEW list, NEW b, GoodBuild(list, b), ReachesBehind(list)
  PROVE  Onward(list, b, Stuck(b)) /\ Advances(b, Stuck(b))
<1> DEFINE c == Stuck(b)
<1>1. b \in Builds(Len(list))
  BY DEF GoodBuild
<1>2. /\ c \in Builds(Len(list)) /\ c.lines = b.lines /\ c.address = b.address
      /\ c.next = b.next /\ c.inside = b.inside /\ c.returns = FALSE
  BY <1>1 DEF Stuck, Builds
<1>3. c.address \in Nat /\ c.next \in Nat
  BY <1>2 DEF Builds
<1> HIDE DEF c
<1>4. GoodBuild(list, c)
  BY <1>2 DEF GoodBuild
<1>5. AllShown(list, b) => AllShown(list, c)
  BY <1>2 DEF AllShown
<1> QED BY <1>2, <1>3, <1>4, <1>5 DEF Onward, Advances, c

LEMMA LabelledOnward ==
  ASSUME ViewAssumption, BuilderAssumption, NEW list \in Seq(Ranges),
         NEW m \in [Start .. Highest -> 1 .. 3],
         NEW b, GoodBuild(list, b), b.address <= End,
         NEW i, i = b.next, i <= Len(list), list[i].start = b.address
  PROVE  Onward(list, b, Labelled(m, list, b, i)) /\ Advances(b, Labelled(m, list, b, i))
<1> DEFINE n == Len(list)
           label == list[i]
           c == Labelled(m, list, b, i)
<1>1. /\ n \in Nat /\ i \in 1 .. n /\ i \in 0 .. n /\ b.address \in Nat /\ b.next \in Nat
      /\ Start \in Nat /\ End \in Nat /\ Highest \in Nat /\ End <= Highest
      /\ b.address <= Highest
  BY DEF GoodBuild, Builds, BuilderAssumption
<1>2. /\ label.start \in Nat /\ label.end \in Nat /\ label.start <= label.end
      /\ label.end <= Highest /\ label.type \in Types
  BY <1>1, LabelOfList
<1>3. Tidy(list) => \A k \in i + 1 .. n : label.end < list[k].start /\ list[k].start \in Nat
  <2> SUFFICES ASSUME Tidy(list), NEW k \in i + 1 .. n
               PROVE  label.end < list[k].start /\ list[k].start \in Nat
    OBVIOUS
  <2>1. k \in 1 .. n /\ i < k /\ i \in DOMAIN list /\ k \in DOMAIN list
    BY <1>1
  <2> QED BY <2>1, LabelOfList DEF Tidy
<1>4. c = IF label.type = "COMMENT" THEN Decoded(m, MarkedWith(b, "Comment", i), i)
          ELSE IF label.type = "ASSEMBLY"
            THEN [MarkedWith(b, "Assembly", i) EXCEPT !.inside = i]
          ELSE IF label.end > End THEN Stuck(b)
          ELSE Listed(MarkedWith(b, "Comment", i), DataLines(label.start, label.end, i),
                      label.end + 1)
  BY DEF Labelled, MarkedWith
<1> DEFINE Mark(type) == MarkedWith(b, type, i)
<1>5. \A type \in {"Comment", "Assembly"} :
        /\ Onward(list, b, Mark(type))
        /\ Mark(type).address = b.address /\ Mark(type).next = i + 1
        /\ Mark(type).inside = b.inside /\ Mark(type).returns = b.returns
  BY MarkedOnward
<1>6. b.returns \in BOOLEAN
  BY DEF GoodBuild, Builds
<1> HIDE DEF c, Mark, n
<1>7. CASE label.type = "COMMENT"
  <2> DEFINE a == Mark("Comment")
  <2>1. Onward(list, b, a) /\ a.address = b.address /\ a.next = i + 1 /\ a.returns = b.returns
    BY <1>5
  <2>2. c = Decoded(m, a, i)
    BY <1>4, <1>7 DEF Mark
  <2> HIDE DEF a
  <2>3. GoodBuild(list, a)
    BY <2>1 DEF Onward
  <2>4. Tidy(list) => \A k \in a.next .. n :
          list[k].start >= a.address =>
            \/ list[k].start >= a.address + m[a.address]
            \/ i \in 1 .. k - 1 /\ list[k].start > a.address
    BY <1>1, <1>2, <1>3, <2>1
  <2>5. /\ Onward(list, a, c) /\ c.address \in Nat /\ c.address > a.address
        /\ c.next = a.next /\ c.returns = a.returns
    <3>1. a.address <= Highest /\ i \in 0 .. Len(list)
      BY <1>1, <2>1 DEF n
    <3>2. LET e == Decoded(m, a, i)
          IN  /\ Onward(list, a, e) /\ e.address \in Nat /\ e.address > a.address
              /\ e.next = a.next /\ e.returns = a.returns
      BY <2>3, <2>4, <3>1, DecodedOnward, SMTT(30) DEF n
    <3> QED BY <2>2, <3>2
  <2>6. Onward(list, b, c)
    BY <2>1, <2>5, OnwardTwice
  <2>7. Advances(b, c)
    <3>1. /\ a.address \in Nat /\ a.address = b.address /\ b.next \in Nat
          /\ c.next = i + 1 /\ c.address > b.address /\ c.returns = b.returns
          /\ i = b.next /\ c.address \in Nat
      BY <1>1, <2>1, <2>5
    <3> QED BY <1>1, <1>6, <3>1 DEF Advances
  <2> QED BY <2>6, <2>7 DEF c
<1>8. CASE label.type = "ASSEMBLY"
  <2> DEFINE a == Mark("Assembly")
  <2>1. Onward(list, b, a) /\ a.address = b.address /\ a.next = i + 1 /\ a.returns = b.returns
    BY <1>5
  <2>2. c = [a EXCEPT !.inside = i]
    BY <1>4, <1>8 DEF Mark
  <2> HIDE DEF a
  <2>3. GoodBuild(list, a) /\ a \in Builds(n)
    BY <2>1 DEF Onward, GoodBuild, n
  <2>4. /\ c \in Builds(n) /\ c.lines = a.lines /\ c.address = a.address
        /\ c.next = a.next /\ c.inside = i /\ c.returns = a.returns
    BY <1>1, <2>2, <2>3 DEF Builds
  <2>5. GoodBuild(list, c)
    BY <1>1, <2>1, <2>3, <2>4 DEF GoodBuild, n
  <2>6. AllShown(list, a) => AllShown(list, c)
    BY <2>4 DEF AllShown
  <2>7. Onward(list, b, c)
    BY <2>1, <2>5, <2>6 DEF Onward
  <2>8. Advances(b, c)
    BY <1>1, <1>6, <2>1, <2>4 DEF Advances
  <2> QED BY <2>7, <2>8 DEF c
<1>9. CASE label.type \notin {"COMMENT", "ASSEMBLY"} /\ label.end > End
  <2>1. c = Stuck(b)
    BY <1>4, <1>9
  <2>2. ReachesBehind(list)
    BY <1>1, <1>9 DEF ReachesBehind, n
  <2> QED BY <2>1, <2>2, StuckOnward DEF c
<1>10. CASE label.type \notin {"COMMENT", "ASSEMBLY"} /\ ~(label.end > End)
  <2> DEFINE a == Mark("Comment")
             d == DataLines(label.start, label.end, i)
             to == label.end + 1
  <2>1. Onward(list, b, a) /\ a.address = b.address /\ a.next = i + 1 /\ a.returns = b.returns
    BY <1>5
  <2>2. c = Listed(a, d, to)
    BY <1>4, <1>10 DEF Mark
  <2>3. RunsTo(n, d, a.address, to)
    BY <1>1, <1>2, <2>1, DataRuns
  <2> HIDE DEF a, d
  <2>4. GoodBuild(list, a)
    BY <2>1 DEF Onward
  <2>5. to \in Nat /\ to > a.address
    BY <1>2, <2>1
  <2>6. Tidy(list) => \A k \in a.next .. n : list[k].start >= a.address => list[k].start >= to
    BY <1>1, <1>2, <1>3, <2>1
  <2> HIDE DEF to
  <2>7. /\ Onward(list, a, c) /\ c.address = to
        /\ c.next = a.next /\ c.returns = a.returns
    BY <2>2, <2>3, <2>4, <2>5, <2>6, ListedOnward DEF n
  <2>8. Onward(list, b, c)
    BY <2>1, <2>7, OnwardTwice
  <2>9. Advances(b, c)
    BY <1>1, <1>6, <2>1, <2>5, <2>7 DEF Advances
  <2> QED BY <2>8, <2>9 DEF c
<1> QED BY <1>7, <1>8, <1>9, <1>10

LEMMA SkippedIs ==
  ASSUME NEW list, Len(list) \in Nat, NEW a, NEW next \in 1 .. Len(list) + 1
  PROVE  LET i == Skipped(list, a, next)
         IN  /\ i \in next .. Len(list) + 1
             /\ i <= Len(list) => list[i].start >= a
             /\ \A k \in next .. i - 1 : ~(list[k].start >= a)
<1> DEFINE T == {i \in next .. Len(list) : list[i].start >= a} \union {Len(list) + 1}
           i == Min(T)
<1>1. T \subseteq Nat /\ T # {}
  OBVIOUS
<1>2. T \subseteq next .. Len(list) + 1
  OBVIOUS
<1>3. \A k \in next .. Len(list) + 1 : k \notin T => k <= Len(list) /\ ~(list[k].start >= a)
  OBVIOUS
<1>4. \A k \in T : k <= Len(list) => list[k].start >= a
  OBVIOUS
<1>5. Skipped(list, a, next) = i
  BY DEF Skipped
<1> HIDE DEF T
<1>6. i \in T /\ \A k \in T : i <= k
  BY <1>1, Least
<1> HIDE DEF i
<1>7. \A k \in next .. i - 1 : k \in next .. Len(list) + 1 /\ ~(i <= k)
  BY <1>2, <1>6
<1> QED BY <1>2, <1>3, <1>4, <1>5, <1>6, <1>7

LEMMA OutsideOnward ==
  ASSUME ViewAssumption, BuilderAssumption, NEW list \in Seq(Ranges),
         NEW m \in [Start .. Highest -> 1 .. 3],
         NEW b, GoodBuild(list, b), b.address <= End
  PROVE  Onward(list, b, Outside(m, list, b)) /\ Advances(b, Outside(m, list, b))
<1> DEFINE n == Len(list)
           i == Skipped(list, b.address, b.next)
           at == [b EXCEPT !.next = i, !.inside = 0]
           label == list[i]
           c == Outside(m, list, b)
<1>1. /\ n \in Nat /\ b \in Builds(n) /\ b.address \in Nat /\ b.next \in 1 .. n + 1
      /\ b.returns \in BOOLEAN
      /\ Start \in Nat /\ End \in Nat /\ Highest \in Nat /\ End <= Highest
      /\ b.address <= Highest /\ b.address \in Start .. Highest
  BY DEF GoodBuild, Builds, BuilderAssumption
<1>2. /\ i \in b.next .. n + 1
      /\ i <= n => label.start >= b.address
      /\ \A k \in b.next .. i - 1 : ~(list[k].start >= b.address)
  BY <1>1, SkippedIs
<1>3. c = IF i > n THEN Decoded(m, at, 0)
          ELSE IF label.start = b.address THEN Labelled(m, list, at, i)
          ELSE IF ~Conflicts(m, b.address, label) THEN Decoded(m, at, 0)
          ELSE IF label.start - 1 > End THEN Stuck(at)
          ELSE Listed(at, FillerLines(b.address, label.start - 1), label.start)
  BY DEF Outside
<1> HIDE DEF i, c
<1>4. /\ at \in Builds(n) /\ at.lines = b.lines /\ at.address = b.address
      /\ at.next = i /\ at.inside = 0 /\ at.returns = b.returns
  <2> HIDE DEF n
  <2>1. i \in Nat /\ b \in Builds(n)
    BY <1>1, <1>2
  <2> QED BY <2>1 DEF Builds
<1> HIDE DEF at, n
<1>5. GoodBuild(list, at)
  BY <1>1, <1>2, <1>4 DEF GoodBuild, n
<1>6. ASSUME AllShown(list, b) PROVE AllShown(list, at)
  <2> SUFFICES ASSUME NEW k \in 1 .. n, list[k].start \in Start .. End
               PROVE  \/ k >= i /\ list[k].start >= b.address
                      \/ IsShown(b.lines, k, list[k].start)
    BY <1>4 DEF AllShown, n
  <2>1. \/ k >= b.next /\ list[k].start >= b.address
        \/ IsShown(b.lines, k, list[k].start)
    BY <1>6 DEF AllShown, n
  <2>2. k >= b.next /\ list[k].start >= b.address => ~(k \in b.next .. i - 1)
    BY <1>2
  <2>3. k >= b.next /\ list[k].start >= b.address => k >= i
    BY <1>1, <1>2, <2>2
  <2> QED BY <2>1, <2>3
<1>7. Onward(list, b, at) /\ b.address + b.next <= at.address + at.next
  BY <1>1, <1>2, <1>4, <1>5, <1>6 DEF Onward
<1>8. \A x : Onward(list, at, x) /\ Advances(at, x) => Onward(list, b, x) /\ Advances(b, x)
  <2> SUFFICES ASSUME NEW x, Onward(list, at, x), Advances(at, x)
               PROVE  Onward(list, b, x) /\ Advances(b, x)
    OBVIOUS
  <2>1. Onward(list, b, x)
    BY <1>7, OnwardTwice
  <2>2. /\ at.address \in Nat /\ at.next \in Nat /\ b.address \in Nat /\ b.next \in Nat
    BY <1>1, <1>2, <1>4
  <2> QED BY <1>7, <2>1, <2>2 DEF Advances
<1>9. i <= n => label.start \in Nat /\ label.start >= b.address
  <2>1. i <= n => i \in 1 .. n
    BY <1>1, <1>2
  <2> QED BY <1>2, <2>1, LabelOfList DEF n
<1>10. ASSUME i > n \/ (i <= n /\ label.start # b.address /\ ~Conflicts(m, b.address, label)),
              c = Decoded(m, at, 0)
       PROVE  Onward(list, at, c) /\ Advances(at, c)
  <2>1. ASSUME Tidy(list), NEW k \in at.next .. n
        PROVE  list[k].start >= at.address + m[at.address]
    <3>1. i <= n /\ k \in 1 .. n /\ i \in 1 .. n /\ k >= i
      BY <1>1, <1>2, <1>4, <2>1
    <3>2. list[k].start \in Nat /\ label.start \in Nat /\ label.end \in Nat
          /\ label.start <= label.end
      BY <3>1, LabelOfList DEF n
    <3>3. label.start <= list[k].start
      <4>1. CASE k = i
        BY <3>2, <4>1
      <4>2. CASE i < k
        <5>1. i \in DOMAIN list /\ k \in DOMAIN list
          BY <3>1 DEF n
        <5>2. label.end < list[k].start
          BY <2>1, <4>2, <5>1 DEF Tidy
        <5> QED BY <3>2, <5>2
      <4> QED BY <1>2, <3>1, <4>1, <4>2
    <3>4. ~(i > n)
      BY <1>1, <1>2, <3>1
    <3>5. m[b.address] \in Nat
      <4>1. b.address \in Start .. Highest /\ 1 .. 3 \subseteq Nat
        BY <1>1
      <4> QED BY <4>1
    <3>6. b.address + m[b.address] <= label.start
      BY <1>1, <1>10, <3>2, <3>4, <3>5 DEF Conflicts
    <3> QED BY <1>1, <1>4, <3>2, <3>3, <3>5, <3>6
  <2>2. 0 \in 0 .. Len(list)
    BY <1>1 DEF n
  <2>3. /\ Onward(list, at, c) /\ c.address \in Nat /\ c.address > at.address
        /\ c.next = at.next /\ c.returns = at.returns
    BY <1>1, <1>4, <1>5, <1>10, <2>1, <2>2, DecodedOnward, SMTT(30) DEF n
  <2> QED BY <1>1, <1>2, <1>4, <2>3 DEF Advances
<1>11. CASE i > n
  <2>1. c = Decoded(m, at, 0)
    BY <1>3, <1>11
  <2> QED BY <1>8, <1>10, <1>11, <2>1 DEF c
<1>12. CASE i <= n /\ label.start = b.address
  <2>1. c = Labelled(m, list, at, i)
    BY <1>1, <1>2, <1>3, <1>12
  <2>2. at.address <= End /\ i = at.next /\ i <= Len(list) /\ list[i].start = at.address
    BY <1>4, <1>12 DEF n
  <2>3. Onward(list, at, c) /\ Advances(at, c)
    BY <1>5, <2>1, <2>2, LabelledOnward
  <2> QED BY <1>8, <2>3 DEF c
<1>13. CASE i <= n /\ label.start # b.address /\ ~Conflicts(m, b.address, label)
  <2>1. c = Decoded(m, at, 0)
    BY <1>1, <1>2, <1>3, <1>13
  <2> QED BY <1>8, <1>10, <1>13, <2>1 DEF c
<1>14. CASE i <= n /\ label.start # b.address /\ Conflicts(m, b.address, label)
            /\ label.start - 1 > End
  <2>1. c = Stuck(at)
    BY <1>1, <1>2, <1>3, <1>14
  <2>2. ReachesBehind(list)
    <3>1. i \in 1 .. n /\ i \in DOMAIN list
      BY <1>1, <1>2, <1>14 DEF n
    <3>2. label.start \in Nat /\ label.end \in Nat /\ label.start <= label.end
      BY <3>1, LabelOfList DEF n
    <3>3. label.end > End
      BY <1>1, <1>14, <3>2
    <3> QED BY <3>1, <3>3 DEF ReachesBehind
  <2>3. Onward(list, at, c) /\ Advances(at, c)
    BY <1>5, <2>1, <2>2, StuckOnward
  <2> QED BY <1>8, <2>3 DEF c
<1>15. CASE i <= n /\ label.start # b.address /\ Conflicts(m, b.address, label)
            /\ ~(label.start - 1 > End)
  <2> DEFINE to == label.start
             last == to - 1
             d == FillerLines(b.address, last)
  <2>1. c = Listed(at, d, to)
    BY <1>1, <1>2, <1>3, <1>15
  <2>2. to \in Nat /\ last \in Nat /\ b.address <= last /\ to > at.address /\ last + 1 = to
    BY <1>1, <1>4, <1>9, <1>15
  <2> HIDE DEF last, to
  <2>3. RunsTo(n, d, at.address, to)
    BY <1>1, <1>4, <2>2, FillerRuns
  <2> HIDE DEF d
  <2>4. ASSUME Tidy(list), NEW k \in at.next .. n PROVE list[k].start >= to
    <3>1. i <= n /\ k \in 1 .. n /\ i \in 1 .. n /\ k >= i
      BY <1>1, <1>2, <1>4, <2>4
    <3>2. list[k].start \in Nat /\ label.start \in Nat /\ label.end \in Nat
          /\ label.start <= label.end
      BY <3>1, LabelOfList DEF n
    <3>3. label.start <= list[k].start
      <4>1. CASE k = i
        BY <3>2, <4>1
      <4>2. CASE i < k
        <5>1. i \in DOMAIN list /\ k \in DOMAIN list
          BY <3>1 DEF n
        <5>2. label.end < list[k].start
          BY <2>4, <4>2, <5>1 DEF Tidy
        <5> QED BY <3>2, <5>2
      <4> QED BY <1>2, <3>1, <4>1, <4>2
    <3> QED BY <3>2, <3>3 DEF to
  <2>5. /\ Onward(list, at, c) /\ c.address = to
        /\ c.next = at.next /\ c.returns = at.returns
    BY <1>5, <2>1, <2>2, <2>3, <2>4, ListedOnward DEF n
  <2>6. Onward(list, at, c) /\ Advances(at, c)
    BY <1>1, <1>2, <1>4, <2>2, <2>5 DEF Advances
  <2> QED BY <1>8, <2>6 DEF c
<1> QED BY <1>1, <1>2, <1>11, <1>12, <1>13, <1>14, <1>15

-----------------------------------------------------------------------------
(* All the turns *)

IsFinished(list, b) ==
  /\ ~(b.inside # 0 /\ b.address < list[b.inside].end)
  /\ ~(b.address <= End)

LEMMA TurnOnward ==
  ASSUME ViewAssumption, BuilderAssumption, NEW list \in Seq(Ranges),
         NEW m \in [Start .. Highest -> 1 .. 3], NEW b, GoodBuild(list, b)
  PROVE  LET c == Turn(m, list, b)
         IN  /\ Onward(list, b, c)
             /\ ~b.returns \/ IsFinished(list, b) => c = b
             /\ b.returns /\ ~IsFinished(list, b) =>
                  Advances(b, c) /\ b.address + b.next <= Highest + Len(list) + 1
<1> DEFINE n == Len(list)
           c == Turn(m, list, b)
<1>1. /\ n \in Nat /\ b \in Builds(n) /\ b.address \in Nat /\ b.next \in 1 .. n + 1
      /\ b.inside \in Nat /\ b.inside < b.next /\ b.address >= Start
      /\ Start \in Nat /\ End \in Nat /\ Highest \in Nat /\ End <= Highest
  BY DEF GoodBuild, Builds, BuilderAssumption
<1>2. Onward(list, b, b)
  BY DEF Onward
<1>3. CASE ~b.returns
  BY <1>2, <1>3 DEF Turn
<1>4. CASE b.returns /\ b.inside # 0 /\ b.address < list[b.inside].end
  <2>1. c = Decoded(m, b, b.inside)
    BY <1>4 DEF Turn
  <2>2. ~IsFinished(list, b)
    BY <1>4 DEF IsFinished
  <2>3. b.inside \in 1 .. n
    BY <1>1, <1>4
  <2>4. list[b.inside].end \in Nat /\ list[b.inside].end <= Highest
    BY <2>3, LabelOfList
  <2>5. b.address <= Highest
    BY <1>1, <1>4, <2>4
  <2>6. ASSUME Tidy(list), NEW k \in b.next .. n
        PROVE  b.inside \in 1 .. k - 1 /\ list[k].start > b.address
    <3>1. k \in 1 .. n /\ b.inside < k
      BY <1>1
    <3>2. list[b.inside].end < list[k].start
      BY <2>3, <2>6, <3>1 DEF Tidy
    <3>3. list[k].start \in Nat
      BY <3>1, LabelOfList
    <3> QED BY <1>1, <1>4, <2>3, <2>4, <3>1, <3>2, <3>3
  <2>7. b.inside \in 0 .. n
    BY <2>3
  <2> HIDE DEF c
  <2>8. /\ Onward(list, b, c) /\ c.address \in Nat /\ c.address > b.address
        /\ c.next = b.next /\ c.returns = b.returns
    BY <2>1, <2>5, <2>6, <2>7, DecodedOnward
  <2>9. b.returns \in BOOLEAN
    BY <1>1 DEF Builds
  <2>10. Advances(b, c)
    BY <1>1, <2>8, <2>9 DEF Advances
  <2>11. b.address + b.next <= Highest + n + 1
    BY <1>1, <2>5
  <2> QED BY <1>4, <2>2, <2>8, <2>10, <2>11 DEF c
<1>5. CASE b.returns /\ ~(b.inside # 0 /\ b.address < list[b.inside].end)
           /\ b.address <= End
  <2>1. c = Outside(m, list, b)
    BY <1>5 DEF Turn
  <2>2. ~IsFinished(list, b)
    BY <1>5 DEF IsFinished
  <2>3. Onward(list, b, c) /\ Advances(b, c)
    BY <1>5, <2>1, OutsideOnward
  <2>4. b.address + b.next <= Highest + n + 1
    BY <1>1, <1>5
  <2> QED BY <1>5, <2>2, <2>3, <2>4
<1>6. CASE b.returns /\ IsFinished(list, b)
  BY <1>2, <1>6 DEF Turn, IsFinished
<1> QED BY <1>3, <1>4, <1>5, <1>6 DEF IsFinished

(* build: f[k] is what is built after k turns. *)
IsBuilding(f, m, list, k) ==
  /\ f = [i \in 0 .. k |-> f[i]]
  /\ f[0] = Beginning
  /\ \A i \in 1 .. k : f[i] = Turn(m, list, f[i - 1])

LEMMA BuildingExists ==
  ASSUME NEW m, NEW list, NEW k \in Nat
  PROVE  \E f : IsBuilding(f, m, list, k)
<1> SUFFICES ASSUME ~ \E f : IsBuilding(f, m, list, k) PROVE FALSE
  OBVIOUS
<1> DEFINE T == {i \in Nat : ~ \E f : IsBuilding(f, m, list, i)}
<1>1. PICK j \in T : \A i \in T : j <= i
  <2>1. T \subseteq Nat /\ k \in T
    OBVIOUS
  <2> QED BY <2>1, Least
<1>2. j # 0
  <2> DEFINE f == [i \in 0 .. 0 |-> Beginning]
  <2>1. IsBuilding(f, m, list, 0)
    BY DEF IsBuilding
  <2> QED BY <2>1
<1>3. PICK f : IsBuilding(f, m, list, j - 1)
  BY <1>1, <1>2
<1> DEFINE g == [i \in 0 .. j |-> IF i = j THEN Turn(m, list, f[j - 1]) ELSE f[i]]
<1>4. IsBuilding(g, m, list, j)
  <2>1. g = [i \in 0 .. j |-> g[i]] /\ g[0] = Beginning
    BY <1>2, <1>3 DEF IsBuilding
  <2>2. ASSUME NEW i \in 1 .. j PROVE g[i] = Turn(m, list, g[i - 1])
    <3>1. i - 1 \in 0 .. j - 1 /\ i \in 0 .. j /\ g[i - 1] = f[i - 1]
      BY <1>1
    <3>2. CASE i = j
      BY <3>1, <3>2
    <3>3. CASE i # j
      <4>1. i \in 1 .. j - 1 /\ g[i] = f[i]
        BY <1>1, <3>3
      <4>2. f[i] = Turn(m, list, f[i - 1])
        BY <1>3, <4>1 DEF IsBuilding
      <4> QED BY <3>1, <4>1, <4>2
    <3> QED BY <3>2, <3>3
  <2> QED BY <2>1, <2>2 DEF IsBuilding
<1> QED BY <1>4

LEMMA BuildIs ==
  ASSUME NEW m, NEW list, Turns(list) \in Nat
  PROVE  \E f : /\ IsBuilding(f, m, list, Turns(list))
                /\ LET built == f[Turns(list)]
                   IN  Build(m, list) = [lines |-> IF built.returns THEN built.lines ELSE <<>>,
                                         returns |-> built.returns]
<1> DEFINE K == Turns(list)
           Body(f) == [n \in 0 .. K |->
                         IF n = 0 THEN Beginning ELSE Turn(m, list, f[n - 1])]
           after == CHOOSE f : f = Body(f)
           built == after[K]
<1>1. K \in Nat
  OBVIOUS
<1>2. PICK f : IsBuilding(f, m, list, K)
  BY <1>1, BuildingExists
<1>3. Build(m, list) = [lines |-> IF built.returns THEN built.lines ELSE <<>>,
                        returns |-> built.returns]
  BY DEF Build
<1> HIDE DEF K
<1>4. f = Body(f)
  <2>1. ASSUME NEW n \in 0 .. K PROVE f[n] = Body(f)[n]
    <3>1. CASE n = 0
      BY <1>1, <1>2, <3>1 DEF IsBuilding
    <3>2. CASE n \in 1 .. K
      BY <1>1, <1>2, <3>2 DEF IsBuilding
    <3> QED BY <1>1, <3>1, <3>2
  <2>2. f = [n \in 0 .. K |-> f[n]]
    BY <1>2 DEF IsBuilding
  <2> QED BY <2>1, <2>2
<1>5. after = Body(after)
  BY <1>4
<1> HIDE DEF after
<1>6. IsBuilding(after, m, list, K)
  BY <1>1, <1>5 DEF IsBuilding
<1> QED BY <1>3, <1>6 DEF K

(* After k turns build has advanced by k, or it is finished or stuck. *)
GoodAfter(list, b, k) ==
  /\ GoodBuild(list, b)
  /\ Tidy(list) => AllShown(list, b)
  /\ b.returns /\ ~IsFinished(list, b) => b.address + b.next >= Start + 1 + k

LEMMA BeginningIsGood ==
  ASSUME ViewAssumption, BuilderAssumption, NEW list \in Seq(Ranges)
  PROVE  GoodAfter(list, Beginning, 0)
<1> DEFINE n == Len(list)
<1>1. Start \in Nat /\ n \in Nat
  BY DEF BuilderAssumption
<1>2. Beginning \in Builds(n)
  BY <1>1 DEF Beginning, Builds
<1>3. TilesTo(n, <<>>, Start)
  BY DEF TilesTo
<1>4. GoodBuild(list, Beginning)
  BY <1>1, <1>2, <1>3 DEF GoodBuild, Beginning
<1>5. AllShown(list, Beginning)
  BY <1>1, LabelOfList DEF AllShown, Beginning
<1> QED BY <1>1, <1>4, <1>5 DEF GoodAfter, Beginning

LEMMA TurnIsGood ==
  ASSUME ViewAssumption, BuilderAssumption, NEW list \in Seq(Ranges),
         NEW m \in [Start .. Highest -> 1 .. 3], NEW b, NEW k \in Nat, GoodAfter(list, b, k)
  PROVE  GoodAfter(list, Turn(m, list, b), k + 1)
<1> DEFINE c == Turn(m, list, b)
<1>1. GoodBuild(list, b)
  BY DEF GoodAfter
<1>2. /\ Onward(list, b, c)
      /\ ~b.returns \/ IsFinished(list, b) => c = b
      /\ b.returns /\ ~IsFinished(list, b) => Advances(b, c)
  BY <1>1, TurnOnward
<1> HIDE DEF c
<1>3. GoodBuild(list, c) /\ (Tidy(list) => AllShown(list, c))
  BY <1>2 DEF GoodAfter, Onward
<1>4. ASSUME c.returns, ~IsFinished(list, c)
      PROVE  c.address + c.next >= Start + 1 + (k + 1)
  <2>1. b.returns /\ ~IsFinished(list, b)
    BY <1>2, <1>4
  <2>2. Advances(b, c) /\ b.address + b.next >= Start + 1 + k
    BY <1>2, <2>1 DEF GoodAfter
  <2>3. b.address \in Nat /\ b.next \in Nat /\ Start \in Nat
    BY <1>1 DEF GoodBuild, Builds, BuilderAssumption
  <2> QED BY <1>4, <2>2, <2>3 DEF Advances
<1> QED BY <1>3, <1>4 DEF GoodAfter, c

(* What build returns: the lines run up to an address behind the device, and
   every label that starts in it is shown. *)
IsListing(list, l) ==
  \E to \in Nat :
    /\ RunsTo(Len(list), l, Start, to) /\ to > End
    /\ Tidy(list) =>
         \A i \in 1 .. Len(list) : list[i].start \in Start .. End =>
           IsShown(l, i, list[i].start)

LEMMA Built ==
  ASSUME ViewAssumption, BuilderAssumption, NEW list \in Seq(Ranges),
         NEW m \in [Start .. Highest -> 1 .. 3]
  PROVE  LET built == Build(m, list)
         IN  /\ built.returns \in BOOLEAN
             /\ built.returns => IsListing(list, built.lines)
             /\ ~built.returns => built.lines = <<>> /\ ReachesBehind(list)
<1> DEFINE K == Turns(list)
           n == Len(list)
<1>1. /\ K \in Nat /\ n \in Nat /\ K = Highest - Start + n + 1
      /\ Start \in Nat /\ End \in Nat /\ Highest \in Nat
  BY DEF Turns, BuilderAssumption
<1>2. PICK f : /\ IsBuilding(f, m, list, K)
               /\ Build(m, list) = [lines |-> IF f[K].returns THEN f[K].lines ELSE <<>>,
                                    returns |-> f[K].returns]
  BY <1>1, BuildIs
<1> HIDE DEF K
<1> DEFINE T == {k \in 0 .. K : ~GoodAfter(list, f[k], k)}
<1>3. T = {}
  <2> SUFFICES ASSUME T # {} PROVE FALSE
    OBVIOUS
  <2>1. PICK j \in T : \A i \in T : j <= i
    <3>1. T \subseteq Nat
      BY <1>1
    <3> HIDE DEF T
    <3> QED BY <3>1, Least
  <2>2. j # 0
    BY <1>2, <2>1, BeginningIsGood DEF IsBuilding
  <2>3. j \in 1 .. K /\ j - 1 \in 0 .. K /\ j - 1 \notin T /\ j - 1 \in Nat /\ j - 1 + 1 = j
    BY <1>1, <2>1, <2>2
  <2>4. GoodAfter(list, f[j - 1], j - 1)
    BY <2>3
  <2>5. f[j] = Turn(m, list, f[j - 1])
    BY <1>2, <2>3 DEF IsBuilding
  <2>6. GoodAfter(list, f[j], j - 1 + 1)
    BY <2>3, <2>4, <2>5, TurnIsGood
  <2> QED BY <2>1, <2>3, <2>6
<1>4. K \in 0 .. K
  BY <1>1
<1> DEFINE b == f[K]
<1>5. GoodAfter(list, b, K)
  BY <1>3, <1>4
<1> HIDE DEF b
<1>6. /\ GoodBuild(list, b) /\ b.returns \in BOOLEAN /\ b.address \in Nat /\ b.next \in Nat
      /\ TilesTo(n, b.lines, b.address)
      /\ ~b.returns => ReachesBehind(list)
      /\ Tidy(list) => AllShown(list, b)
  BY <1>5 DEF GoodAfter, GoodBuild, Builds
<1>7. ASSUME b.returns PROVE IsListing(list, b.lines)
  <2>1. IsFinished(list, b)
    <3> SUFFICES ASSUME ~IsFinished(list, b) PROVE FALSE
      OBVIOUS
    <3>1. b.address + b.next >= Start + 1 + K
      BY <1>5, <1>7 DEF GoodAfter
    <3>2. b.address + b.next <= Highest + n + 1
      BY <1>6, <1>7, TurnOnward
    <3> QED BY <1>1, <1>6, <3>1, <3>2
  <2>2. b.address > End
    BY <1>1, <1>6, <2>1 DEF IsFinished
  <2>3. RunsTo(n, b.lines, Start, b.address)
    BY <1>1, <1>6, <2>2 DEF TilesTo, BuilderAssumption
  <2>4. ASSUME Tidy(list), NEW i \in 1 .. n, list[i].start \in Start .. End
        PROVE  IsShown(b.lines, i, list[i].start)
    <3>1. \/ list[i].start >= b.address
          \/ IsShown(b.lines, i, list[i].start)
      BY <1>6, <2>4 DEF AllShown
    <3>2. ~(list[i].start >= b.address)
      BY <1>1, <1>6, <2>2, <2>4
    <3> QED BY <3>1, <3>2
  <2> QED BY <1>6, <2>2, <2>3, <2>4 DEF IsListing
<1> QED BY <1>2, <1>6, <1>7 DEF b

-----------------------------------------------------------------------------
(* What a listing is good for *)

LEMMA ListingIs ==
  ASSUME ViewAssumption, BuilderAssumption, NEW list \in Seq(Ranges), NEW l, IsListing(list, l)
  PROVE  /\ l \in Seq(Lined(Len(list))) /\ Len(l) \in Nat \ {0}
         /\ l[1].address = Start
         /\ \A k \in 1 .. Len(l) :
              /\ l[k].address \in Nat /\ l[k].bytes \in Nat
              /\ l[k].label \in 0 .. Len(list)
              /\ IsProper(l[k])
              /\ k < Len(l) => EndsAt(l[k], l[k + 1].address)
         /\ \E to \in Nat : to > End /\ EndsAt(l[Len(l)], to)
<1>1. PICK to \in Nat : RunsTo(Len(list), l, Start, to) /\ to > End
  BY DEF IsListing
<1>2. /\ l \in Seq(Lined(Len(list))) /\ Len(l) > 0 /\ l[1].address = Start
      /\ EndsAt(l[Len(l)], to)
      /\ \A k \in 2 .. Len(l) : EndsAt(l[k - 1], l[k].address)
      /\ \A k \in 1 .. Len(l) : IsProper(l[k])
  BY <1>1 DEF RunsTo, Chained
<1>3. Len(l) \in Nat \ {0}
  <2>1. Len(l) \in Nat
    BY <1>2
  <2> QED BY <1>2, <2>1
<1>4. ASSUME NEW k \in 1 .. Len(l)
      PROVE  /\ l[k].address \in Nat /\ l[k].bytes \in Nat
             /\ l[k].label \in 0 .. Len(list)
  <2>1. l[k] \in Lined(Len(list))
    BY <1>2
  <2> QED BY <2>1 DEF Lined
<1>5. ASSUME NEW k \in 1 .. Len(l), k < Len(l) PROVE EndsAt(l[k], l[k + 1].address)
  <2> DEFINE j == k + 1
  <2>1. j \in 2 .. Len(l) /\ j - 1 = k
    BY <1>3, <1>5
  <2> HIDE DEF j
  <2>2. EndsAt(l[k], l[j].address)
    BY <1>2, <2>1
  <2> QED BY <2>2 DEF j
<1> QED BY <1>1, <1>2, <1>3, <1>4, <1>5

(* ... every address of the device is in a line *)
LEMMA ListingHolds ==
  ASSUME ViewAssumption, BuilderAssumption, NEW list \in Seq(Ranges), NEW l,
         IsListing(list, l), \A k \in 1 .. Len(l) : ~IsFiller(l[k]),
         NEW a \in Start .. End
  PROVE  \E k \in 1 .. Len(l) : l[k].address <= a /\ a < l[k].address + l[k].bytes
<1> DEFINE n == Len(l)
           T == {k \in 1 .. n : l[k].address + l[k].bytes > a}
<1>1. /\ n \in Nat \ {0} /\ l[1].address = Start
      /\ \A k \in 1 .. n :
           /\ l[k].address \in Nat /\ l[k].bytes \in Nat
           /\ k < n => EndsAt(l[k], l[k + 1].address)
      /\ \E to \in Nat : to > End /\ EndsAt(l[n], to)
  BY ListingIs
<1>2. a \in Nat /\ Start <= a /\ a <= End /\ Start \in Nat /\ End \in Nat
  BY DEF BuilderAssumption
<1> HIDE DEF n
<1>3. n \in T
  <2>1. n \in 1 .. n
    BY <1>1
  <2>2. PICK to \in Nat : to > End /\ EndsAt(l[n], to)
    BY <1>1
  <2>3. l[n].address \in Nat /\ l[n].bytes \in Nat /\ ~IsFiller(l[n])
    BY <1>1, <2>1 DEF n
  <2> QED BY <1>2, <2>1, <2>2, <2>3 DEF EndsAt
<1>4. PICK k \in T : \A j \in T : k <= j
  <2>0. T \subseteq 1 .. n
    OBVIOUS
  <2> HIDE DEF T
  <2>1. T \subseteq Nat /\ T # {}
    BY <1>1, <1>3, <2>0
  <2> QED BY <2>1, Least
<1>5. k \in 1 .. n /\ a < l[k].address + l[k].bytes
  BY <1>1, <1>2, <1>4
<1>6. l[k].address <= a
  <2>1. CASE k = 1
    BY <1>1, <1>2, <2>1
  <2>2. CASE k # 1
    <3> DEFINE j == k - 1
    <3>1. j \in 1 .. n /\ j < n /\ j + 1 = k /\ ~(k <= j)
      BY <1>1, <1>5, <2>2
    <3> HIDE DEF j
    <3>2. /\ j \notin T /\ EndsAt(l[j], l[k].address) /\ ~IsFiller(l[j])
          /\ l[j].address \in Nat /\ l[j].bytes \in Nat
      BY <1>1, <1>4, <3>1 DEF n
    <3>3. ~(l[j].address + l[j].bytes > a)
      BY <3>1, <3>2
    <3> QED BY <1>2, <3>2, <3>3 DEF EndsAt
  <2> QED BY <2>1, <2>2
<1> QED BY <1>5, <1>6 DEF n

(* ... the last line is not a comment *)
LEMMA LastIsNoComment ==
  ASSUME ViewAssumption, BuilderAssumption, NEW list \in Seq(Ranges), NEW l, IsListing(list, l)
  PROVE  l[Len(l)].type # "Comment"
<1>1. Len(l) \in 1 .. Len(l)
  <2>1. Len(l) \in Nat \ {0}
    BY ListingIs
  <2> QED BY <2>1
<1>2. /\ l[Len(l)].address \in Nat /\ IsProper(l[Len(l)])
      /\ \E to \in Nat : to > End /\ EndsAt(l[Len(l)], to)
  BY <1>1, ListingIs
<1> QED BY <1>2 DEF IsProper, EndsAt, IsFiller, BuilderAssumption

(* LinesTile of a listing *)
LEMMA ListingTiles ==
  ASSUME ViewAssumption, BuilderAssumption,
         lines = <<>> \/ \E list \in Seq(Ranges) : IsListing(list, lines),
         status = "hung" => ReachesBehind(labels)
  PROVE  LinesTile
<1>1. CASE lines = <<>>
  BY <1>1 DEF LinesTile, Size
<1>2. ASSUME NEW list \in Seq(Ranges), IsListing(list, lines) PROVE LinesTile
  <2>1. /\ Size \in Nat \ {0} /\ lines[1].address = Start
        /\ \A k \in 1 .. Size :
             /\ lines[k].address \in Nat /\ lines[k].bytes \in Nat
             /\ k < Size => EndsAt(lines[k], lines[k + 1].address)
        /\ \E to \in Nat : to > End /\ EndsAt(lines[Size], to)
    BY <1>2, ListingIs DEF Size
  <2> DEFINE S == Size
  <2>2. LineAt(0).address = Start
    BY <2>1 DEF LineAt
  <2>3. ASSUME NEW p \in Positions \ {0}
        PROVE  EndsAt(LineAt(p - 1), LineAt(p).address)
    <3>1. p \in 1 .. S /\ p < S /\ p - 1 + 1 = p
      BY <2>1, <2>3 DEF Positions
    <3> QED BY <2>1, <3>1 DEF LineAt
  <2>4. lines[Size].address + lines[Size].bytes > End
    <3>1. S \in 1 .. S
      BY <2>1
    <3>2. PICK to \in Nat : to > End /\ EndsAt(lines[Size], to)
      BY <2>1
    <3>3. lines[Size].address \in Nat /\ lines[Size].bytes \in Nat
      BY <2>1, <3>1
    <3> QED BY <3>2, <3>3 DEF EndsAt, BuilderAssumption
  <2> QED BY <2>2, <2>3, <2>4 DEF LinesTile, EndsAt
<1> QED BY <1>1, <1>2

(* LabelsShown of the listing of the labels *)
LEMMA ListingShows ==
  ASSUME ViewAssumption, BuilderAssumption, labels \in Seq(Ranges),
         status = "ok" => IsListing(labels, lines)
  PROVE  LabelsShown
<1> SUFFICES ASSUME IsListing(labels, lines), Tidy(labels), NEW i \in DOMAIN labels,
                    labels[i].start \in Start .. End
             PROVE  \E p \in Positions :
                      \/ /\ Marks(LineAt(p)) /\ LineAt(p).label = i
                         /\ p + 1 \in Positions /\ LineAt(p + 1).address = labels[i].start
                      \/ /\ LineAt(p).label \in 1 .. i - 1
                         /\ LineAt(p).type = "Assembly"
                         /\ LineAt(p).address < labels[i].start
                         /\ labels[i].start < LineAt(p).address + LineAt(p).bytes
  BY DEF LabelsShown
<1> DEFINE n == Len(lines)
           a == labels[i].start
<1>1. i \in 1 .. Len(labels) /\ a \in Nat /\ a <= End /\ End \in Nat
  BY DEF BuilderAssumption
<1>2. /\ n \in Nat \ {0}
      /\ \A k \in 1 .. n :
           /\ lines[k].address \in Nat /\ lines[k].bytes \in Nat
           /\ k < n => EndsAt(lines[k], lines[k + 1].address)
      /\ \E to \in Nat : to > End /\ EndsAt(lines[n], to)
  BY ListingIs
<1>3. IsShown(lines, i, a)
  BY <1>1 DEF IsListing
<1>4. PICK q \in 1 .. n :
        \/ Marks(lines[q]) /\ lines[q].type # "Data" /\ lines[q].label = i
             /\ lines[q].address = a
        \/ /\ lines[q].label \in 1 .. i - 1 /\ lines[q].type = "Assembly"
           /\ lines[q].address < a /\ a < lines[q].address + lines[q].bytes
  BY <1>3 DEF IsShown
<1>0. Size = n
  BY DEF Size
<1> HIDE DEF n, a
<1> DEFINE p == q - 1
<1>5. p \in Positions /\ p + 1 = q
  BY <1>0, <1>2 DEF Positions
<1>6. LineAt(p) = lines[q]
  BY <1>5 DEF LineAt
<1> HIDE DEF p
<1>7. CASE Marks(lines[q]) /\ lines[q].type # "Data" /\ lines[q].label = i
             /\ lines[q].address = a
  <2>1. \A to \in Nat : EndsAt(lines[q], to) => to = a
    <3>1. a \in Nat
      BY <1>1 DEF a
    <3> QED BY <1>7, <3>1 DEF EndsAt, IsFiller, Marks
  <2>2. q # n
    BY <1>1, <1>2, <2>1 DEF a
  <2>3. q < n /\ q + 1 \in 1 .. n
    BY <1>2, <2>2
  <2>4. lines[q + 1].address = a
    BY <1>2, <2>1, <2>3
  <2>5. p + 1 \in Positions
    BY <1>0, <1>2, <1>5, <2>3 DEF Positions
  <2>6. LineAt(p + 1).address = a
    BY <1>5, <2>4 DEF LineAt
  <2> QED BY <1>5, <1>6, <1>7, <2>5, <2>6 DEF a
<1>8. CASE /\ lines[q].label \in 1 .. i - 1 /\ lines[q].type = "Assembly"
           /\ lines[q].address < a /\ a < lines[q].address + lines[q].bytes
  BY <1>5, <1>6, <1>8 DEF a
<1> QED BY <1>4, <1>7, <1>8

-----------------------------------------------------------------------------
(* Scrolling *)

(* An offset and a bar that go with so many lines *)
Fits(scroll, size) ==
  /\ scroll.offset \in Int /\ scroll.offset >= -1
  /\ scroll.offset = -1 => MaxScroll(size) = 0
  /\ scroll.bar \in -1 .. MaxScroll(size) - 1

LEMMA MaxScrollIs ==
  ASSUME ViewAssumption, NEW size \in Nat
  PROVE  /\ MaxScroll(size) \in Nat
         /\ MaxScroll(size) = IF size + 2 <= Visible THEN 0 ELSE size - Visible + 2
BY DEF ViewAssumption, MaxScroll, Within

LEMMA AtIs ==
  ASSUME NEW o, NEW b
  PROVE  At(o, b).offset = o /\ At(o, b).bar = b
BY DEF At

(* setValue keeps the offset or clamps it, and the bar is in its range. *)
IsSet(t, s, value, max) ==
  LET bounded == IF max = 0 THEN -1 ELSE Within(0, value, max - 1)
  IN  /\ t.bar = bounded /\ bounded \in -1 .. max - 1
      /\ \/ bounded = s.bar /\ t.offset = s.offset
         \/ t.offset = Within(0, bounded, max)

LEMMA SetValueIs ==
  ASSUME NEW s, NEW value \in Int, NEW max \in Nat, s.bar \in Int, s.offset \in Int
  PROVE  IsSet(SetValue(s, value, max), s, value, max)
<1> DEFINE bounded == IF max = 0 THEN -1 ELSE Within(0, value, max - 1)
<1>1. bounded \in -1 .. max - 1
  BY DEF Within
<1>2. SetValue(s, value, max) = IF bounded = s.bar THEN s
                                ELSE At(Within(0, bounded, max), bounded)
  BY DEF SetValue, ScrollTo
<1> HIDE DEF bounded
<1>3. CASE bounded = s.bar
  BY <1>1, <1>2, <1>3 DEF bounded, IsSet
<1>4. CASE bounded # s.bar
  BY <1>1, <1>2, <1>4, AtIs DEF bounded, IsSet
<1> QED BY <1>3, <1>4

LEMMA MoveToFits ==
  ASSUME ViewAssumption, NEW size \in Nat, NEW s, s.bar \in Int,
         NEW o \in Int, o >= -1, o = -1 => MaxScroll(size) = 0
  PROVE  LET t == MoveTo(s, o, MaxScroll(size))
             max == MaxScroll(size)
         IN  /\ Fits(t, size)
             /\ t.offset = o \/ t.offset = IF max = 0 \/ o < 0 THEN 0
                                           ELSE IF o < max THEN o ELSE max - 1
<1> DEFINE max == MaxScroll(size)
           a == At(o, s.bar)
           t == MoveTo(s, o, max)
           bounded == IF max = 0 THEN -1 ELSE Within(0, o, max - 1)
<1>1. max \in Nat
  BY MaxScrollIs
<1>2. a.offset = o /\ a.bar = s.bar
  BY AtIs
<1>3. t = SetValue(a, o, max)
  BY DEF MoveTo
<1> HIDE DEF a, t, max
<1>4. /\ t.bar = bounded /\ bounded \in -1 .. max - 1
      /\ \/ bounded = a.bar /\ t.offset = a.offset
         \/ t.offset = Within(0, bounded, max)
  BY <1>1, <1>2, <1>3, SetValueIs DEF IsSet
<1>5. t.offset = o \/ t.offset = IF max = 0 \/ o < 0 THEN 0
                                 ELSE IF o < max THEN o ELSE max - 1
  BY <1>1, <1>2, <1>4 DEF Within
<1>6. Fits(t, size)
  BY <1>1, <1>2, <1>4, <1>5 DEF Fits, max
<1> QED BY <1>5, <1>6 DEF t, max

(* ensureVisible brings a line into the window, from any offset. *)
LEMMA EnsureVisibleShows ==
  ASSUME ViewAssumption, Size \in Nat, NEW s, s.offset \in Int, s.offset >= -1,
         s.bar \in Int, NEW position \in 0 .. Size - 1
  PROVE  LET t == EnsureVisible(s, position, MaxScroll(Size))
         IN  /\ Fits(t, Size)
             /\ position \in t.offset .. t.offset + Visible - 1
             /\ t.offset >= 0
<1> DEFINE o == s.offset
           h == Visible \div 2
           max == MaxScroll(Size)
           new == IF position > o + Visible THEN Smaller(position - h, max)
                  ELSE IF position = o + Visible THEN Smaller(o + 1, max)
                  ELSE IF position < o \/ o < 0 THEN Within(0, position - h, Size)
                  ELSE o
           t == MoveTo(s, new, max)
<1>1. Visible \in Nat \ {0} /\ h \in Nat /\ 2 * h <= Visible
  BY DEF ViewAssumption
<1>2. max \in Nat /\ max = IF Size + 2 <= Visible THEN 0 ELSE Size - Visible + 2
  BY MaxScrollIs
<1>3. EnsureVisible(s, position, max) = t
  BY DEF EnsureVisible
<1> HIDE DEF h, max, t
<1>4. new \in Int /\ new >= 0
  BY <1>1, <1>2 DEF Smaller, Within
<1>5. \/ new <= position /\ position <= new + Visible - 1
      \/ max > 0 /\ new = max /\ position >= max
  BY <1>1, <1>2 DEF Smaller, Within
<1> HIDE DEF new
<1>6. /\ Fits(t, Size)
      /\ t.offset = new \/ t.offset = IF max = 0 \/ new < 0 THEN 0
                                      ELSE IF new < max THEN new ELSE max - 1
  BY <1>4, MoveToFits DEF t, max
<1>7. t.offset \in Int /\ t.offset >= 0
  BY <1>2, <1>4, <1>6
<1>8. position \in t.offset .. t.offset + Visible - 1
  BY <1>1, <1>2, <1>4, <1>5, <1>6, <1>7
<1> QED BY <1>3, <1>6, <1>7, <1>8 DEF max

LEMMA ScrollIntoViewFits ==
  ASSUME ViewAssumption, Size \in Nat, NEW s, Fits(s, Size),
         NEW position \in Int, position >= -1
  PROVE  Fits(ScrollIntoView(s, position, MaxScroll(Size)), Size)
<1> DEFINE max == MaxScroll(Size)
           up == IF position > Visible + s.offset - 1
                   THEN MoveTo(s, Smaller(position - Visible + 1, max), max)
                   ELSE s
           t == IF position < up.offset THEN MoveTo(up, Within(0, position, Size), max)
                ELSE up
<1>1. Visible \in Nat \ {0} /\ max \in Nat
  BY MaxScrollIs DEF ViewAssumption
<1>2. ScrollIntoView(s, position, max) = t
  BY DEF ScrollIntoView
<1>3. s.bar \in Int /\ s.offset \in Int /\ s.offset >= -1
  BY DEF Fits
<1>4. Fits(up, Size)
  <2>1. CASE position > Visible + s.offset - 1
    <3> DEFINE o == Smaller(position - Visible + 1, max)
    <3>1. o \in Int /\ o >= 0
      BY <1>1, <1>3, <2>1 DEF Smaller
    <3> HIDE DEF o
    <3>2. Fits(MoveTo(s, o, max), Size)
      BY <1>3, <3>1, MoveToFits
    <3> QED BY <2>1, <3>2 DEF o
  <2>2. CASE ~(position > Visible + s.offset - 1)
    BY <2>2
  <2> QED BY <2>1, <2>2
<1> HIDE DEF up
<1>5. up.bar \in Int
  BY <1>4 DEF Fits
<1>6. Fits(t, Size)
  <2> DEFINE o == Within(0, position, Size)
  <2>1. o \in Int /\ o >= 0
    BY DEF Within
  <2> HIDE DEF o
  <2>2. Fits(MoveTo(up, o, max), Size)
    BY <1>5, <2>1, MoveToFits
  <2> QED BY <1>4, <2>2 DEF o
<1> QED BY <1>2, <1>6

LEMMA ScrollingIs ==
  Scrolling.offset = offset /\ Scrolling.bar = bar
BY AtIs DEF Scrolling

LEMMA ResizedFits ==
  ASSUME ViewAssumption, Size \in Nat, Fits(Scrolling, Size), NEW size \in Nat
  PROVE  Fits(Resized(size), size)
<1> DEFINE max == MaxScroll(size)
           before == IF bar = -1 THEN At(0, 0) ELSE Scrolling
           t == SetValue(before, before.bar, max)
<1>1. max \in Nat /\ MaxScroll(Size) \in Nat
  BY MaxScrollIs
<1>2. Resized(size) = IF max = 0 THEN At(0, -1) ELSE t
  BY DEF Resized
<1>3. before.offset \in Int /\ before.offset >= 0 /\ before.bar \in Int
  <2>1. CASE bar = -1
    BY <2>1, AtIs
  <2>2. CASE bar # -1
    BY <1>1, <2>2, ScrollingIs DEF Fits
  <2> QED BY <2>1, <2>2
<1> HIDE DEF before, max
<1>4. CASE max = 0
  <2>1. Resized(size).offset = 0 /\ Resized(size).bar = -1
    BY <1>2, <1>4, AtIs
  <2> QED BY <1>4, <2>1 DEF Fits, max
<1>5. CASE max # 0
  <2> DEFINE bounded == IF max = 0 THEN -1 ELSE Within(0, before.bar, max - 1)
  <2>1. /\ t.bar = bounded /\ bounded \in -1 .. max - 1
        /\ \/ bounded = before.bar /\ t.offset = before.offset
           \/ t.offset = Within(0, bounded, max)
    <3> DEFINE value == before.bar
    <3>1. value \in Int
      BY <1>3
    <3> HIDE DEF value
    <3>2. IsSet(SetValue(before, value, max), before, value, max)
      BY <1>1, <1>3, <3>1, SetValueIs
    <3> QED BY <3>2 DEF IsSet, value
  <2> HIDE DEF t
  <2>2. t.offset \in Int /\ t.offset >= 0
    BY <1>1, <1>3, <2>1 DEF Within
  <2>3. Fits(t, size)
    BY <1>5, <2>1, <2>2 DEF Fits, max
  <2> QED BY <1>2, <1>5, <2>3
<1> QED BY <1>4, <1>5

(* What the scroll bar and the wheel do *)
LEMMA SetValueFits ==
  ASSUME ViewAssumption, NEW size \in Nat, NEW s, Fits(s, size), NEW value \in Int
  PROVE  Fits(SetValue(s, value, MaxScroll(size)), size)
<1> DEFINE max == MaxScroll(size)
           t == SetValue(s, value, max)
           bounded == IF max = 0 THEN -1 ELSE Within(0, value, max - 1)
<1>1. max \in Nat
  BY MaxScrollIs
<1>2. /\ s.offset \in Int /\ s.offset >= -1 /\ s.bar \in Int
      /\ s.offset = -1 => max = 0
  BY <1>1 DEF Fits
<1> HIDE DEF max
<1>3. /\ t.bar = bounded /\ bounded \in -1 .. max - 1
      /\ \/ bounded = s.bar /\ t.offset = s.offset
         \/ t.offset = Within(0, bounded, max)
  BY <1>1, <1>2, SetValueIs DEF IsSet
<1> HIDE DEF t
<1>4. t.offset \in Int /\ t.offset >= -1 /\ (t.offset = -1 => max = 0)
  BY <1>1, <1>2, <1>3 DEF Within
<1> QED BY <1>3, <1>4 DEF Fits, max, t

(* adjustSelected finds a line: the last one is not a comment. *)
LEMMA AdjustedIs ==
  ASSUME ViewAssumption, BuilderAssumption, labels \in Seq(Ranges), IsListing(labels, lines),
         selected_line \in Int, NEW direction \in Int, direction # 0
  PROVE  /\ Adjusted(direction).selected \in Positions
         /\ Adjusted(direction).offset \in {offset, 0, MaxScroll(Size)}
<1> DEFINE n == Size
           from == Within(0, selected_line + direction, n - 1)
           tries == {k \in 0 .. n : LET p == from + (k * direction)
                                    IN  p \notin Positions \/ ~IsComment(p)}
           reached == from + (Min(tries) * direction)
           Shown(p) == {q \in p .. n - 1 : ~IsComment(q)}
<1>1. n \in Nat \ {0} /\ Positions = 0 .. n - 1 /\ n - 1 \in 0 .. n - 1
  <2>1. n \in Nat \ {0}
    BY ListingIs DEF Size
  <2> QED BY <2>1 DEF Positions
<1>2. ~IsComment(n - 1)
  <2>1. n - 1 + 1 = n
    BY <1>1
  <2>2. lines[n].type # "Comment"
    BY LastIsNoComment DEF Size
  <2> QED BY <2>1, <2>2 DEF IsComment, LineAt
<1>3. Adjusted(direction) =
        IF reached \in Positions THEN [selected |-> reached, offset |-> offset]
        ELSE IF reached < 0 THEN [selected |-> Min(Shown(0)), offset |-> 0]
        ELSE [selected |-> Min(Shown(n - 1)), offset |-> MaxScroll(n)]
  BY DEF Adjusted
<1>4. Min(Shown(0)) \in Positions /\ Min(Shown(n - 1)) \in Positions
  <2>1. ASSUME NEW p \in {0, n - 1} PROVE Min(Shown(p)) \in Positions
    <3> DEFINE T == Shown(p)
    <3>1. T \subseteq 0 .. n - 1 /\ n - 1 \in T
      BY <1>1, <1>2, <2>1
    <3> HIDE DEF T
    <3>2. T \subseteq Nat /\ T # {}
      BY <1>1, <3>1
    <3>3. Min(T) \in T
      BY <3>2, Least
    <3> QED BY <1>1, <3>1, <3>3 DEF T
  <2> QED BY <2>1
<1> HIDE DEF Shown, reached
<1>5. CASE reached \in Positions
  BY <1>3, <1>5
<1>6. CASE reached \notin Positions
  BY <1>3, <1>4, <1>6
<1> QED BY <1>5, <1>6

-----------------------------------------------------------------------------
(* The invariant: the lines are those of the labels as they are now, of some
   memory the device had; in a build that never returns they are old. *)

EmulatorInv == memory \in Memories /\ running \in BOOLEAN /\ pc \in Start .. End

ListingInv ==
  /\ labels \in Seq(Ranges)
  /\ lines = <<>> \/ \E list \in Seq(Ranges) : IsListing(list, lines)
  /\ status = "ok" => IsListing(labels, lines)
  /\ status = "hung" => ReachesBehind(labels)
  /\ status \in {"ok", "hung", "aborted"}

ScrollInv == Fits(Scrolling, Size)

SelectionInv ==
  /\ selected_line \in Int /\ selected_line >= -1
  /\ current \in Int /\ current >= -1

DialogInv ==
  /\ dialog.op \in {"none", "labelled", "unlabelled", "add", "edit", "remove"}
  /\ dialog.label \in 0 .. Len(labels)

ViewInv == EmulatorInv /\ ListingInv /\ ScrollInv /\ SelectionInv /\ DialogInv

LEMMA SizeIs ==
  ASSUME ViewAssumption, BuilderAssumption, ListingInv
  PROVE  Size \in Nat /\ (status = "ok" => Size > 0)
<1>1. CASE lines = <<>>
  <2>1. Size = 0
    BY <1>1 DEF Size
  <2>2. status # "ok"
    <3> SUFFICES ASSUME status = "ok" PROVE FALSE
      OBVIOUS
    <3>1. Len(lines) \in Nat \ {0}
      BY ListingIs DEF ListingInv
    <3> QED BY <2>1, <3>1 DEF Size
  <2> QED BY <2>1, <2>2
<1>2. ASSUME NEW list \in Seq(Ranges), IsListing(list, lines)
      PROVE  Size \in Nat /\ (status = "ok" => Size > 0)
  <2>1. Len(lines) \in Nat \ {0}
    BY <1>2, ListingIs
  <2> QED BY <2>1 DEF Size
<1> QED BY <1>1, <1>2 DEF ListingInv

LEMMA Memory ==
  ASSUME ViewAssumption, EmulatorInv
  PROVE  memory \in [Start .. Highest -> 1 .. 3]
BY DEF ViewAssumption, EmulatorInv

(* The actions that change neither labels nor lines *)
LEMMA ListingStays ==
  ASSUME ListingInv, UNCHANGED <<labels, lines>>, status' = status \/ status' = "aborted"
  PROVE  ListingInv'
BY DEF ListingInv

LEMMA ScrollStays ==
  ASSUME ScrollInv, UNCHANGED <<lines, offset, bar>>
  PROVE  ScrollInv'
BY DEF ScrollInv, Scrolling, Size

LEMMA ScrollIs ==
  ASSUME NEW s, Fits(s, Size), IsScrolled(s), UNCHANGED lines
  PROVE  ScrollInv'
BY AtIs DEF ScrollInv, Scrolling, Size, IsScrolled, Fits

LEMMA SelectionStays ==
  ASSUME SelectionInv, UNCHANGED <<selected_line, current>>
  PROVE  SelectionInv'
BY DEF SelectionInv

LEMMA DialogStays ==
  ASSUME DialogInv, UNCHANGED <<labels, dialog>>
  PROVE  DialogInv'
BY DEF DialogInv

LEMMA DialogCloses ==
  ASSUME labels' \in Seq(Ranges), dialog' = NoDialog
  PROVE  DialogInv'
<1>1. Len(labels') \in Nat
  OBVIOUS
<1> QED BY <1>1 DEF DialogInv, NoDialog

(* rebuild *)
LEMMA RebuildKeeps ==
  ASSUME ViewAssumption, BuilderAssumption, EmulatorInv, ListingInv, ScrollInv,
         status = "ok", NEW list \in Seq(Ranges), labels' = list, Rebuild(list)
  PROVE  ListingInv' /\ ScrollInv'
<1> DEFINE built == Build(memory, list)
<1>1. /\ built.returns \in BOOLEAN
      /\ built.returns => IsListing(list, built.lines)
      /\ ~built.returns => ReachesBehind(list)
  BY Memory, Built
<1>2. IF built.returns
        THEN lines' = built.lines /\ IsScrolled(Resized(Len(built.lines))) /\ status' = status
        ELSE status' = "hung" /\ UNCHANGED <<lines, offset, bar>>
  BY DEF Rebuild
<1> HIDE DEF built
<1>3. CASE built.returns
  <2>1. IsListing(list, lines')
    BY <1>1, <1>2, <1>3
  <2>2. ListingInv'
    BY <1>2, <1>3, <2>1 DEF ListingInv
  <2>3. Len(built.lines) \in Nat
    BY <1>1, <1>3, ListingIs
  <2> DEFINE size == Len(built.lines)
             s == Resized(size)
  <2>4. Fits(s, size)
    BY <2>3, SizeIs, ResizedFits DEF ScrollInv
  <2>5. size = Len(lines') /\ IsScrolled(s)
    BY <1>2, <1>3
  <2> HIDE DEF s, size
  <2>6. ScrollInv'
    BY <2>4, <2>5, AtIs DEF ScrollInv, Scrolling, Size, IsScrolled, Fits
  <2> QED BY <2>2, <2>6
<1>4. CASE ~built.returns
  <2>1. ListingInv'
    BY <1>1, <1>2, <1>4 DEF ListingInv
  <2>2. ScrollInv'
    BY <1>2, <1>4, ScrollStays
  <2> QED BY <2>1, <2>2
<1> QED BY <1>1, <1>3, <1>4

(* reset_disassembly_view *)
LEMMA ResetKeeps ==
  ASSUME ViewAssumption, BuilderAssumption, EmulatorInv, ListingInv, ScrollInv, SelectionInv,
         status = "ok", NEW list \in Seq(Ranges), labels' = list, ResetView(list)
  PROVE  ListingInv' /\ ScrollInv' /\ SelectionInv'
<1> DEFINE built == Build(memory, list)
<1>1. /\ built.returns \in BOOLEAN
      /\ built.returns => IsListing(list, built.lines)
      /\ ~built.returns => ReachesBehind(list)
  BY Memory, Built
<1>2. IF built.returns
        THEN /\ lines' = built.lines /\ offset' = 0
             /\ bar' = IF MaxScroll(Len(built.lines)) = 0 THEN -1 ELSE 0
             /\ selected_line' = -1
             /\ UNCHANGED <<current, status>>
        ELSE status' = "hung" /\ UNCHANGED view
  BY DEF ResetView
<1> HIDE DEF built
<1>3. CASE built.returns
  <2>1. IsListing(list, lines')
    BY <1>1, <1>2, <1>3
  <2>2. ListingInv'
    BY <1>2, <1>3, <2>1 DEF ListingInv
  <2>3. Len(lines') \in Nat
    BY <2>1, ListingIs
  <2>4. MaxScroll(Len(lines')) \in Nat
    BY <2>3, MaxScrollIs
  <2>5. /\ offset' = 0
        /\ bar' \in -1 .. MaxScroll(Len(lines')) - 1
    BY <1>2, <1>3, <2>4
  <2>6. ScrollInv'
    BY <2>5, AtIs DEF ScrollInv, Scrolling, Size, Fits
  <2>7. SelectionInv'
    BY <1>2, <1>3 DEF SelectionInv
  <2> QED BY <2>2, <2>6, <2>7
<1>4. CASE ~built.returns
  <2>1. ListingInv'
    BY <1>1, <1>2, <1>4 DEF ListingInv, view
  <2>2. ScrollInv' /\ SelectionInv'
    BY <1>2, <1>4, ScrollStays, SelectionStays DEF view
  <2> QED BY <2>1, <2>2
<1> QED BY <1>1, <1>3, <1>4

(* A pointer to a line leads to a label of the list. *)
LEMMA SlotLabelsAre ==
  ASSUME ViewAssumption, BuilderAssumption, ListingInv, status = "ok", NEW slot
  PROVE  SlotLabels(slot) \subseteq 0 .. Len(labels)
<1>1. CASE slot \in Positions
  <2>1. slot + 1 \in 1 .. Len(lines)
    BY <1>1, SizeIs DEF Positions, Size
  <2>2. LineAt(slot).label \in 0 .. Len(labels)
    BY <2>1, ListingIs DEF LineAt, ListingInv
  <2> QED BY <1>1, <2>2 DEF SlotLabels
<1>2. CASE slot \notin Positions
  BY <1>2 DEF SlotLabels
<1> QED BY <1>1, <1>2

(* What the positions of lines are *)
LEMMA FirstOfIs ==
  ASSUME NEW T, T \subseteq Nat
  PROVE  /\ FirstOf(T) \in T \union {-1}
         /\ T # {} => FirstOf(T) \in T
<1>1. CASE T = {}
  BY <1>1 DEF FirstOf
<1>2. CASE T # {}
  BY <1>2, Least DEF FirstOf
<1> QED BY <1>1, <1>2

LEMMA CurrentAtIs ==
  ASSUME Size \in Nat, NEW address
  PROVE  CurrentAt(address) \in Positions \union {-1}
<1> DEFINE T == {p \in Positions : LineAt(p).address = address}
<1>1. T \subseteq Positions /\ T \subseteq Nat
  BY DEF Positions
<1> HIDE DEF T
<1>2. FirstOf(T) \in T \union {-1}
  BY <1>1, FirstOfIs
<1> QED BY <1>1, <1>2 DEF CurrentAt, T

LEMMA SelectedAtIs ==
  ASSUME Size \in Nat, NEW address
  PROVE  LET T == {p \in Positions : ~IsComment(p) /\ Covers(LineAt(p), address)}
         IN  /\ SelectedAt(address) \in Positions \union {-1}
             /\ T # {} => SelectedAt(address) \in T
<1> DEFINE T == {p \in Positions : ~IsComment(p) /\ Covers(LineAt(p), address)}
<1>1. T \subseteq Positions /\ T \subseteq Nat
  BY DEF Positions
<1>2. SelectedAt(address) = FirstOf(T)
  BY DEF SelectedAt
<1> HIDE DEF T
<1>3. FirstOf(T) \in T \union {-1} /\ (T # {} => FirstOf(T) \in T)
  BY <1>1, FirstOfIs
<1> QED BY <1>1, <1>2, <1>3 DEF T

-----------------------------------------------------------------------------
(* A pause *)

LEMMA ShowKeeps ==
  ASSUME ViewAssumption, BuilderAssumption, ListingInv, ScrollInv, SelectionInv,
         NEW address, Show(address), UNCHANGED lines
  PROVE  /\ ScrollInv' /\ SelectionInv'
         /\ SelectedAt(address) # -1 =>
              /\ selected_line' = SelectedAt(address)
              /\ selected_line' \in offset' .. offset' + Visible - 1
<1> DEFINE max == MaxScroll(Size)
           marked == CurrentAt(address)
           chosen == SelectedAt(address)
           first == IF marked = -1 THEN Scrolling ELSE EnsureVisible(Scrolling, marked, max)
           second == IF chosen = -1 THEN first ELSE EnsureVisible(first, chosen, max)
<1>1. /\ current' = OrElse(marked, current)
      /\ selected_line' = OrElse(chosen, selected_line)
      /\ IsScrolled(second)
  BY DEF Show
<1>2. Size \in Nat /\ Positions = 0 .. Size - 1
  BY SizeIs DEF Positions
<1>3. marked \in Positions \union {-1} /\ chosen \in Positions \union {-1}
  BY <1>2, CurrentAtIs, SelectedAtIs
<1>4. Fits(Scrolling, Size) /\ MaxScroll(Size) \in Nat
  BY <1>2, MaxScrollIs DEF ScrollInv
<1> HIDE DEF marked, chosen
<1>5. Fits(first, Size)
  <2>1. CASE marked = -1
    BY <1>4, <2>1
  <2>2. CASE marked # -1
    <3>1. Scrolling.offset \in Int /\ Scrolling.offset >= -1 /\ Scrolling.bar \in Int
      BY <1>4 DEF Fits
    <3>2. marked \in 0 .. Size - 1
      BY <1>2, <1>3, <2>2
    <3>3. Fits(EnsureVisible(Scrolling, marked, max), Size)
      BY <1>2, <3>1, <3>2, EnsureVisibleShows
    <3> QED BY <2>2, <3>3
  <2> QED BY <2>1, <2>2
<1> HIDE DEF first
<1>6. /\ Fits(second, Size)
      /\ chosen # -1 => chosen \in second.offset .. second.offset + Visible - 1
  <2>1. CASE chosen = -1
    BY <1>5, <2>1
  <2>2. CASE chosen # -1
    <3>1. first.offset \in Int /\ first.offset >= -1 /\ first.bar \in Int
      BY <1>4, <1>5 DEF Fits
    <3>2. chosen \in 0 .. Size - 1
      BY <1>2, <1>3, <2>2
    <3> DEFINE t == EnsureVisible(first, chosen, max)
    <3>3. Fits(t, Size) /\ chosen \in t.offset .. t.offset + Visible - 1
      BY <1>2, <3>1, <3>2, EnsureVisibleShows
    <3>4. second = t
      BY <2>2
    <3> HIDE DEF t, second
    <3> QED BY <3>3, <3>4
  <2> QED BY <2>1, <2>2
<1> HIDE DEF second
<1>7. ScrollInv'
  BY <1>1, <1>6, ScrollIs
<1>8. SelectionInv'
  BY <1>1, <1>2, <1>3 DEF SelectionInv, OrElse
<1>9. ASSUME chosen # -1
      PROVE  selected_line' = chosen /\ selected_line' \in offset' .. offset' + Visible - 1
  <2>1. selected_line' = chosen
    BY <1>1, <1>9 DEF OrElse
  <2>2. offset' = second.offset
    BY <1>1 DEF IsScrolled
  <2> QED BY <1>6, <1>9, <2>1, <2>2
<1> QED BY <1>7, <1>8, <1>9 DEF chosen

LEMMA PauseShowsPc ==
  ASSUME ViewAssumption, BuilderAssumption, ViewInv
  PROVE  ShowsPc
<1> SUFFICES ASSUME NEW address \in Start .. End,
                    Stop(address) \/ BreakpointHit(address) \/ Step(address),
                    ~(\E p \in Positions :
                        IsFiller(LineAt(p)) \/ (Marks(LineAt(p)) /\ ~IsComment(p)))
             PROVE  /\ selected_line' \in Positions /\ ~IsComment(selected_line')
                    /\ LineAt(selected_line').address <= address
                    /\ address < LineAt(selected_line').address + LineAt(selected_line').bytes
                    /\ selected_line' \in offset' .. offset' + Visible - 1
  BY DEF ShowsPc
<1>1. Show(address) /\ UNCHANGED lines /\ status = "ok"
  BY DEF Stop, BreakpointHit, Step, Quiet
<1>2. ListingInv /\ ScrollInv /\ SelectionInv
  BY DEF ViewInv
<1>3. /\ Size \in Nat /\ Positions = 0 .. Size - 1
      /\ labels \in Seq(Ranges) /\ IsListing(labels, lines)
  BY <1>1, <1>2, SizeIs DEF ListingInv, Positions
<1>4. \A k \in 1 .. Size : k - 1 \in Positions /\ LineAt(k - 1) = lines[k]
  <2> SUFFICES ASSUME NEW k \in 1 .. Size PROVE k - 1 \in Positions /\ LineAt(k - 1) = lines[k]
    OBVIOUS
  <2>1. k - 1 \in 0 .. Size - 1 /\ k - 1 + 1 = k
    BY <1>3
  <2> QED BY <1>3, <2>1 DEF LineAt
<1>5. \A p \in Positions : /\ LineAt(p).address \in Nat /\ LineAt(p).bytes \in Nat
                           /\ IsProper(LineAt(p))
  <2> SUFFICES ASSUME NEW p \in Positions
               PROVE  /\ LineAt(p).address \in Nat /\ LineAt(p).bytes \in Nat
                      /\ IsProper(LineAt(p))
    OBVIOUS
  <2>1. p + 1 \in 1 .. Len(lines)
    BY <1>3 DEF Size
  <2> QED BY <1>3, <2>1, ListingIs DEF LineAt
<1>6. \A k \in 1 .. Len(lines) : ~IsFiller(lines[k])
  BY <1>4 DEF Size
<1>7. PICK k \in 1 .. Len(lines) :
        lines[k].address <= address /\ address < lines[k].address + lines[k].bytes
  BY <1>3, <1>6, ListingHolds
<1> DEFINE q == k - 1
           T == {p \in Positions : ~IsComment(p) /\ Covers(LineAt(p), address)}
<1>8. q \in Positions /\ LineAt(q) = lines[k]
  BY <1>4 DEF Size
<1> HIDE DEF q
<1>9. q \in T
  <2>1. Covers(LineAt(q), address)
    BY <1>7, <1>8 DEF Covers
  <2>2. ~IsComment(q)
    <3> SUFFICES ASSUME IsComment(q) PROVE FALSE
      OBVIOUS
    <3>1. LineAt(q).bytes = 0 /\ LineAt(q).address \in Nat /\ address \in Nat
      BY <1>5, <1>8 DEF IsComment, IsProper, BuilderAssumption
    <3> QED BY <1>7, <1>8, <3>1
  <2> QED BY <1>8, <2>1, <2>2
<1>10. SelectedAt(address) \in T
  BY <1>3, <1>9, SelectedAtIs
<1>11. SelectedAt(address) # -1
  BY <1>3, <1>10
<1>12. selected_line' = SelectedAt(address) /\ selected_line' \in offset' .. offset' + Visible - 1
  BY <1>1, <1>2, <1>11, ShowKeeps
<1>13. selected_line' \in Positions /\ ~IsComment(selected_line')
       /\ Covers(LineAt(selected_line'), address)
  BY <1>10, <1>12
<1>14. LineAt(selected_line').address + LineAt(selected_line').bytes # 0
  <2>1. ~Marks(LineAt(selected_line'))
    BY <1>13
  <2> QED BY <1>5, <1>13, <2>1 DEF Marks
<1> QED BY <1>12, <1>13, <1>14 DEF Covers

-----------------------------------------------------------------------------
(* Each action keeps the invariant. *)

LEMMA StepsOfEmulator ==
  ASSUME ViewAssumption, BuilderAssumption, ViewInv,
         \/ Program \/ Refresh \/ Run
         \/ \E address \in Start .. End :
              Stop(address) \/ BreakpointHit(address) \/ Step(address)
  PROVE  ViewInv'
<1>0. EmulatorInv /\ ListingInv /\ ScrollInv /\ SelectionInv /\ DialogInv
  BY DEF ViewInv
<1>1. CASE Program
  <2>1. EmulatorInv' /\ UNCHANGED <<labels, lines, offset, bar, selected_line, current,
                                    dialog, status>>
    BY <1>0, <1>1 DEF Program, EmulatorInv, view
  <2> QED BY <1>0, <2>1, ListingStays, ScrollStays, SelectionStays, DialogStays DEF ViewInv
<1>2. CASE Refresh
  <2>1. status = "ok" /\ Rebuild(labels) /\ UNCHANGED <<emulator, labels, selected_line,
                                                        current, dialog>>
    BY <1>2 DEF Refresh
  <2>2. labels \in Seq(Ranges)
    BY <1>0 DEF ListingInv
  <2>3. ListingInv' /\ ScrollInv'
    BY <1>0, <2>1, <2>2, RebuildKeeps
  <2>4. EmulatorInv'
    BY <1>0, <2>1 DEF EmulatorInv, emulator
  <2> QED BY <1>0, <2>1, <2>3, <2>4, SelectionStays, DialogStays DEF ViewInv
<1>3. CASE Run
  <2>1. /\ EmulatorInv' /\ SelectionInv'
        /\ UNCHANGED <<labels, lines, offset, bar, dialog, status>>
    BY <1>0, <1>3 DEF Run, EmulatorInv, SelectionInv, BuilderAssumption
  <2> QED BY <1>0, <2>1, ListingStays, ScrollStays, DialogStays DEF ViewInv
<1>4. ASSUME NEW address \in Start .. End,
             Stop(address) \/ BreakpointHit(address) \/ Step(address)
      PROVE  ViewInv'
  <2>1. Show(address) /\ EmulatorInv' /\ UNCHANGED <<labels, lines, dialog, status>>
    BY <1>0, <1>4 DEF Stop, BreakpointHit, Step, EmulatorInv
  <2>2. ScrollInv' /\ SelectionInv'
    BY <1>0, <2>1, ShowKeeps
  <2> QED BY <1>0, <2>1, <2>2, ListingStays, DialogStays DEF ViewInv
<1> QED BY <1>1, <1>2, <1>3, <1>4

LEMMA EmulatorStays ==
  ASSUME EmulatorInv, UNCHANGED emulator
  PROVE  EmulatorInv'
BY DEF EmulatorInv, emulator

LEMMA StepsOfScrolling ==
  ASSUME ViewAssumption, BuilderAssumption, ViewInv,
         \/ Wheel(1) \/ Wheel(-1)
         \/ \E value \in 0 .. End - Start + MaxLabels : Slide(value)
  PROVE  ViewInv'
<1>0. EmulatorInv /\ ListingInv /\ ScrollInv /\ SelectionInv /\ DialogInv
  BY DEF ViewInv
<1>1. /\ Size \in Nat /\ MaxScroll(Size) \in Nat /\ Fits(Scrolling, Size)
      /\ Scrolling.offset = offset /\ Scrolling.bar = bar
  BY <1>0, SizeIs, MaxScrollIs, ScrollingIs DEF ScrollInv
<1>2. offset \in Int /\ offset >= -1 /\ bar \in Int
  BY <1>1 DEF Fits
<1>3. ASSUME NEW steps \in {1, -1}, Wheel(steps)
      PROVE  ScrollInv' /\ UNCHANGED <<emulator, labels, lines, selected_line, current,
                                       dialog, status>>
  <2> DEFINE max == MaxScroll(Size)
             o == Smaller(Within(0, offset - steps, Size + 2), max - 1)
             s == MoveTo(Scrolling, o, max)
  <2>1. o \in Int /\ o >= -1 /\ (o = -1 => max = 0)
    BY <1>1, <1>2 DEF Smaller, Within
  <2>2. IsScrolled(s) /\ UNCHANGED lines
    BY <1>3 DEF Wheel
  <2> HIDE DEF o
  <2>3. Fits(s, Size)
    BY <1>1, <1>2, <2>1, MoveToFits
  <2> HIDE DEF s
  <2>4. ScrollInv'
    BY <2>2, <2>3, ScrollIs
  <2> QED BY <1>3, <2>4 DEF Wheel
<1>4. ASSUME NEW value, Slide(value)
      PROVE  ScrollInv' /\ UNCHANGED <<emulator, labels, lines, selected_line, current,
                                       dialog, status>>
  <2> DEFINE s == SetValue(Scrolling, value, MaxScroll(Size))
  <2>1. IsScrolled(s) /\ value \in Int /\ UNCHANGED lines
    BY <1>1, <1>4 DEF Slide
  <2>2. Fits(s, Size)
    BY <1>1, <2>1, SetValueFits
  <2> HIDE DEF s
  <2>3. ScrollInv'
    BY <2>1, <2>2, ScrollIs
  <2> QED BY <1>4, <2>3 DEF Slide
<1>5. ScrollInv' /\ UNCHANGED <<emulator, labels, lines, selected_line, current,
                                dialog, status>>
  BY <1>3, <1>4
<1> QED BY <1>0, <1>5, EmulatorStays, ListingStays, SelectionStays, DialogStays DEF ViewInv

LEMMA AbortKeeps ==
  ASSUME ViewInv, Aborts
  PROVE  ViewInv'
<1>0. EmulatorInv /\ ListingInv /\ ScrollInv /\ SelectionInv /\ DialogInv
  BY DEF ViewInv
<1>1. /\ status' = "aborted"
      /\ UNCHANGED emulator /\ UNCHANGED <<labels, lines>>
      /\ UNCHANGED <<lines, offset, bar>> /\ UNCHANGED <<selected_line, current>>
      /\ UNCHANGED <<labels, dialog>>
  BY DEF Aborts, view
<1> QED BY <1>0, <1>1, EmulatorStays, ListingStays, ScrollStays, SelectionStays,
           DialogStays DEF ViewInv

LEMMA StepsOfKeys ==
  ASSUME ViewAssumption, BuilderAssumption, ViewInv,
         \/ \E row \in 0 .. Visible : Click(row) \/ ClickMargin(row)
         \/ \E direction \in {-1, 1, -Visible, Visible} : Key(direction)
         \/ KeyTo(Start) \/ KeyTo(End)
  PROVE  ViewInv'
<1>0. EmulatorInv /\ ListingInv /\ ScrollInv /\ SelectionInv /\ DialogInv
  BY DEF ViewInv
<1>1. /\ Size \in Nat /\ MaxScroll(Size) \in Nat /\ Fits(Scrolling, Size)
      /\ Scrolling.offset = offset /\ Scrolling.bar = bar
      /\ Positions = 0 .. Size - 1
      /\ selected_line \in Int /\ selected_line >= -1
  BY <1>0, SizeIs, MaxScrollIs, ScrollingIs DEF ScrollInv, SelectionInv, Positions
<1>2. offset \in Int /\ offset >= -1 /\ bar \in Int
  BY <1>1 DEF Fits
<1>3. ASSUME NEW row \in 0 .. Visible, Click(row) PROVE ViewInv'
  <2>1. SelectionInv'
    BY <1>0, <1>2, <1>3 DEF Click, SelectionInv, ViewAssumption
  <2>2. UNCHANGED <<emulator, labels, lines, offset, bar, dialog, status>>
    BY <1>3 DEF Click
  <2> QED BY <1>0, <2>1, <2>2, EmulatorStays, ListingStays, ScrollStays, DialogStays
          DEF ViewInv
<1>4. ASSUME NEW row, ClickMargin(row) PROVE ViewInv'
  BY <1>4, AbortKeeps DEF ClickMargin
<1>5. ASSUME NEW direction \in {-1, 1, -Visible, Visible}, Key(direction) PROVE ViewInv'
  <2> DEFINE adjusted == Adjusted(direction)
             a == At(adjusted.offset, bar)
             s == ScrollIntoView(a, adjusted.selected, MaxScroll(Size))
  <2>1. /\ status = "ok" /\ selected_line' = adjusted.selected /\ IsScrolled(s)
        /\ UNCHANGED <<emulator, labels, lines, current, dialog, status>>
    BY <1>5 DEF Key, Quiet
  <2>2. direction \in Int /\ direction # 0
    BY DEF ViewAssumption
  <2>3. IsListing(labels, lines) /\ labels \in Seq(Ranges)
    BY <1>0, <2>1 DEF ListingInv
  <2>4. adjusted.selected \in Positions /\ adjusted.offset \in {offset, 0, MaxScroll(Size)}
    BY <1>1, <2>2, <2>3, AdjustedIs
  <2> HIDE DEF adjusted
  <2>5. a.offset = adjusted.offset /\ a.bar = bar
    BY AtIs
  <2> HIDE DEF a
  <2>6. Fits(a, Size)
    BY <1>1, <1>2, <2>4, <2>5 DEF Fits
  <2>7. adjusted.selected \in Int /\ adjusted.selected >= -1
    BY <1>1, <2>4
  <2>8. Fits(s, Size)
    BY <1>1, <2>6, <2>7, ScrollIntoViewFits
  <2> HIDE DEF s
  <2>9. ScrollInv'
    BY <2>1, <2>8, ScrollIs
  <2>10. SelectionInv'
    BY <1>0, <2>1, <2>7 DEF SelectionInv
  <2> QED BY <1>0, <2>1, <2>9, <2>10, EmulatorStays, ListingStays, DialogStays DEF ViewInv
<1>6. ASSUME NEW address, KeyTo(address) PROVE ViewInv'
  <2> DEFINE max == MaxScroll(Size)
             chosen == SelectedAt(address)
             shown == IF chosen = -1 THEN Scrolling ELSE EnsureVisible(Scrolling, chosen, max)
             new == OrElse(chosen, selected_line)
             s == ScrollIntoView(shown, new, max)
  <2>1. /\ selected_line' = new /\ IsScrolled(s)
        /\ UNCHANGED <<emulator, labels, lines, current, dialog, status>>
    BY <1>6 DEF KeyTo
  <2>2. chosen \in Positions \union {-1}
    BY <1>1, SelectedAtIs
  <2> HIDE DEF chosen
  <2>3. new \in Int /\ new >= -1
    BY <1>1, <2>2 DEF OrElse
  <2>4. Fits(shown, Size)
    <3>1. CASE chosen = -1
      BY <1>1, <3>1
    <3>2. CASE chosen # -1
      <4>1. chosen \in 0 .. Size - 1
        BY <1>1, <2>2, <3>2
      <4>2. Fits(EnsureVisible(Scrolling, chosen, max), Size)
        BY <1>1, <1>2, <4>1, EnsureVisibleShows
      <4> QED BY <3>2, <4>2
    <3> QED BY <3>1, <3>2
  <2> HIDE DEF shown, new
  <2>5. Fits(s, Size)
    BY <1>1, <2>3, <2>4, ScrollIntoViewFits
  <2> HIDE DEF s
  <2>6. ScrollInv'
    BY <2>1, <2>5, ScrollIs
  <2>7. SelectionInv'
    BY <1>0, <2>1, <2>3 DEF SelectionInv
  <2> QED BY <1>0, <2>1, <2>6, <2>7, EmulatorStays, ListingStays, DialogStays DEF ViewInv
<1> QED BY <1>3, <1>4, <1>5, <1>6

LEMMA StepsOfMenu ==
  ASSUME ViewAssumption, BuilderAssumption, ViewInv,
         \/ OpenMenu \/ Cancel
         \/ \E op \in {"add", "edit", "remove"} : Choose(op) \/ Shortcut(op)
  PROVE  ViewInv'
<1>0. EmulatorInv /\ ListingInv /\ ScrollInv /\ SelectionInv /\ DialogInv
  BY DEF ViewInv
<1>1. Len(labels) \in Nat
  BY <1>0 DEF ListingInv
<1>2. ASSUME DialogInv', UNCHANGED <<emulator, labels, table, view, status>> PROVE ViewInv'
  <2>1. /\ UNCHANGED emulator /\ UNCHANGED <<labels, lines>>
        /\ UNCHANGED <<lines, offset, bar>> /\ UNCHANGED <<selected_line, current>>
        /\ UNCHANGED status
    BY <1>2 DEF view
  <2> QED BY <1>0, <1>2, <2>1, EmulatorStays, ListingStays, ScrollStays, SelectionStays
          DEF ViewInv
<1>3. CASE OpenMenu
  <2>1. CASE Aborts
    BY <2>1, AbortKeeps
  <2>2. CASE ~Aborts
    <3>1. /\ \E op \in {"labelled", "unlabelled"} :
               dialog' = [op |-> op, slot |-> selected_line, label |-> 0]
          /\ UNCHANGED <<emulator, labels, table, view, status>>
      BY <1>3, <2>2 DEF OpenMenu
    <3>2. DialogInv'
      BY <1>1, <3>1 DEF DialogInv
    <3> QED BY <1>2, <3>1, <3>2
  <2> QED BY <2>1, <2>2
<1>4. CASE Cancel
  <2>1. dialog' = NoDialog /\ UNCHANGED <<emulator, labels, table, view, status>>
    BY <1>4 DEF Cancel, Closes
  <2>2. DialogInv'
    BY <1>1, <2>1 DEF DialogInv, NoDialog
  <2> QED BY <1>2, <2>1, <2>2
<1>5. ASSUME NEW op \in {"add", "edit", "remove"}, NEW slot, status = "ok", Opens(op, slot)
      PROVE  ViewInv'
  <2>1. PICK label \in SlotLabels(slot) :
          IF op # "add" /\ label = 0 THEN Aborts
          ELSE /\ dialog' = [op |-> op, slot |-> slot, label |-> label]
               /\ UNCHANGED <<emulator, labels, table, view, status>>
    BY <1>5 DEF Opens
  <2>2. label \in 0 .. Len(labels)
    BY <1>0, <1>5, SlotLabelsAre
  <2>3. CASE Aborts
    BY <2>3, AbortKeeps
  <2>4. CASE ~Aborts
    <3>1. /\ dialog' = [op |-> op, slot |-> slot, label |-> label]
          /\ UNCHANGED <<emulator, labels, table, view, status>>
      BY <2>1, <2>4
    <3>2. DialogInv'
      BY <2>2, <3>1 DEF DialogInv
    <3> QED BY <1>2, <3>1, <3>2
  <2> QED BY <2>3, <2>4
<1>6. ASSUME NEW op \in {"add", "edit", "remove"}, Choose(op) PROVE ViewInv'
  BY <1>5, <1>6 DEF Choose
<1>7. ASSUME NEW op \in {"add", "edit", "remove"}, Shortcut(op) PROVE ViewInv'
  <2>1. CASE Aborts
    BY <2>1, AbortKeeps
  <2>2. CASE ~Aborts
    BY <1>5, <1>7, <2>2 DEF Shortcut, Quiet
  <2> QED BY <2>1, <2>2
<1> QED BY <1>3, <1>4, <1>6, <1>7

(* The label dialogs of the view *)
LEMMA StepsOfDialogs ==
  ASSUME ViewAssumption, BuilderAssumption, ViewInv,
         \/ \E label \in Candidates : AcceptAdd(label) \/ AcceptEdit(label)
         \/ AcceptRemove
  PROVE  ViewInv'
<1>0. EmulatorInv /\ ListingInv /\ ScrollInv /\ SelectionInv /\ DialogInv
  BY DEF ViewInv
<1>1. labels \in Seq(Ranges) /\ Candidates \subseteq Ranges
  BY <1>0 DEF ListingInv, ViewAssumption, Ranges
<1>2. \A s \in Seq(Ranges) : \A label \in Ranges : AddLabel(s, label) \in Seq(Ranges)
  BY Added DEF AddedTo
<1>3. \A i : RemoveLabel(labels, i) \in Seq(Ranges)
  BY <1>1, RemovedLabel
<1>4. /\ status = "ok" /\ labels' \in Seq(Ranges) /\ Rebuild(labels') /\ dialog' = NoDialog
      /\ UNCHANGED emulator /\ UNCHANGED <<selected_line, current>>
  <2>1. ASSUME NEW label \in Candidates, AcceptAdd(label) PROVE labels' \in Seq(Ranges)
    BY <1>1, <1>2, <2>1 DEF AcceptAdd
  <2>2. ASSUME NEW label \in Candidates, AcceptEdit(label) PROVE labels' \in Seq(Ranges)
    <3>1. PICK edited : labels' = AddLabel(RemoveLabel(labels, edited), label)
      BY <2>2 DEF AcceptEdit
    <3> QED BY <1>1, <1>2, <1>3, <3>1
  <2>3. ASSUME AcceptRemove PROVE labels' \in Seq(Ranges)
    BY <1>3, <2>3 DEF AcceptRemove
  <2> QED BY <2>1, <2>2, <2>3 DEF AcceptAdd, AcceptEdit, AcceptRemove, Closes
<1> DEFINE list == labels'
<1>5. ListingInv' /\ ScrollInv'
  BY <1>0, <1>4, RebuildKeeps
<1>6. DialogInv'
  BY <1>4, DialogCloses
<1> QED BY <1>0, <1>4, <1>5, <1>6, EmulatorStays, SelectionStays DEF ViewInv

(* The labels dialog *)
LEMMA StepsOfTable ==
  ASSUME ViewAssumption, BuilderAssumption, ViewInv,
         \/ \E label \in Candidates : TableAdd(label) \/ TableEdit(label)
         \/ \E row \in DOMAIN table : TableDelete(row)
         \/ TableClear
         \/ \E file \in Files : TableLoad(file)
  PROVE  ViewInv'
<1>0. EmulatorInv /\ ListingInv /\ ScrollInv /\ SelectionInv /\ DialogInv
  BY DEF ViewInv
<1>1. labels \in Seq(Ranges) /\ Candidates \subseteq Ranges
  BY <1>0 DEF ListingInv, ViewAssumption, Ranges
<1>2. \A label \in Ranges : AddLabel(labels, label) \in Seq(Ranges)
  BY <1>1, Added DEF AddedTo
<1>3. \A i : RemoveLabel(labels, i) \in Seq(Ranges)
  BY <1>1, RemovedLabel
<1>4. ClearLabels(labels, Start, End) \in Seq(Ranges)
  BY <1>1, Cleared DEF PartOf
<1>5. \A file \in Files : AddLabels(ClearLabels(labels, Start, End), file) \in Seq(Ranges)
  <2> SUFFICES ASSUME NEW file \in Files
               PROVE  AddLabels(ClearLabels(labels, Start, End), file) \in Seq(Ranges)
    OBVIOUS
  <2>1. file \in Seq(Labelling)
    BY DEF ViewAssumption
  <2> QED BY <1>4, <2>1, FileAdded DEF WithPartOf
<1>6. status = "ok" /\ dialog = NoDialog /\ \E list \in Seq(Ranges) : Changes(list)
  BY <1>1, <1>2, <1>3, <1>4, <1>5 DEF TableAdd, TableEdit, TableDelete, TableClear,
                                      TableLoad, Quiet
<1>7. PICK list \in Seq(Ranges) : Changes(list)
  BY <1>6
<1>8. /\ labels' = list /\ ResetView(list) /\ UNCHANGED emulator /\ dialog' = NoDialog
  BY <1>6, <1>7 DEF Changes
<1>9. ListingInv' /\ ScrollInv' /\ SelectionInv'
  BY <1>0, <1>6, <1>8, ResetKeeps
<1>10. DialogInv'
  BY <1>8, DialogCloses
<1> QED BY <1>0, <1>8, <1>9, <1>10, EmulatorStays DEF ViewInv

LEMMA ViewInit ==
  ASSUME ViewAssumption, BuilderAssumption, Init
  PROVE  ViewInv
<1>1. PICK default \in Files \union {<<>>}, file \in Files \union {<<>>} :
        labels = AddLabels(AddLabels(<<>>, default), file)
  BY DEF Init
<1>2. \A s \in Seq(Ranges) : \A f \in Files \union {<<>>} : AddLabels(s, f) \in Seq(Ranges)
  <2> SUFFICES ASSUME NEW s \in Seq(Ranges), NEW f \in Files \union {<<>>}
               PROVE  AddLabels(s, f) \in Seq(Ranges)
    OBVIOUS
  <2>0. <<>> \in Seq(Labelling)
    OBVIOUS
  <2>1. f \in Seq(Labelling)
    BY <2>0 DEF ViewAssumption
  <2> QED BY <2>1, FileAdded DEF WithPartOf
<1>3. labels \in Seq(Ranges)
  <2>1. <<>> \in Seq(Ranges)
    OBVIOUS
  <2> QED BY <1>1, <1>2, <2>1
<1>4. EmulatorInv
  BY DEF Init, EmulatorInv, BuilderAssumption
<1> DEFINE built == Build(memory, labels)
<1>5. /\ built.returns \in BOOLEAN
      /\ built.returns => IsListing(labels, built.lines)
      /\ ~built.returns => built.lines = <<>> /\ ReachesBehind(labels)
  BY <1>3, <1>4, Memory, Built
<1>6. lines = built.lines /\ status = IF built.returns THEN "ok" ELSE "hung"
  BY DEF Init
<1> HIDE DEF built
<1>7. ListingInv
  BY <1>3, <1>5, <1>6 DEF ListingInv
<1>8. Size \in Nat /\ MaxScroll(Size) \in Nat
  BY <1>7, SizeIs, MaxScrollIs
<1>9. ScrollInv
  <2>1. offset = 0 /\ bar = IF MaxScroll(Size) = 0 THEN -1 ELSE 0
    BY DEF Init
  <2> QED BY <1>8, <2>1, ScrollingIs DEF ScrollInv, Fits
<1>10. SelectionInv
  BY DEF Init, SelectionInv
<1>11. DialogInv
  <2>1. Len(labels) \in Nat
    BY <1>3
  <2> QED BY <2>1 DEF Init, DialogInv, NoDialog
<1> QED BY <1>4, <1>7, <1>9, <1>10, <1>11 DEF ViewInv

LEMMA ViewStep ==
  ASSUME ViewAssumption, BuilderAssumption, ViewInv, [Next]_vars
  PROVE  ViewInv'
<1>1. CASE UNCHANGED vars
  <2>1. /\ UNCHANGED emulator /\ UNCHANGED <<labels, lines>> /\ UNCHANGED status
        /\ UNCHANGED <<lines, offset, bar>> /\ UNCHANGED <<selected_line, current>>
        /\ UNCHANGED <<labels, dialog>>
    BY <1>1 DEF vars, view
  <2> QED BY <2>1, EmulatorStays, ListingStays, ScrollStays, SelectionStays,
             DialogStays DEF ViewInv
<1>2. CASE Next
  BY <1>2, StepsOfEmulator, StepsOfScrolling, StepsOfKeys, StepsOfMenu, StepsOfDialogs,
     StepsOfTable DEF Next
<1> QED BY <1>1, <1>2

LEMMA ViewInvType ==
  ASSUME ViewAssumption, BuilderAssumption, ViewInv
  PROVE  TypeOK
<1>0. EmulatorInv /\ ListingInv /\ ScrollInv /\ SelectionInv /\ DialogInv
  BY DEF ViewInv
<1>1. labels \in Seq(Labelling)
  <2>1. labels \in Seq(Ranges) /\ Ranges \subseteq Labelling
    BY <1>0 DEF ListingInv, Ranges
  <2> QED BY <2>1
<1>2. ASSUME status = "ok", NEW p \in Positions PROVE LineAt(p).label \in 0 .. Len(labels)
  <2>1. p + 1 \in 1 .. Len(lines)
    BY <1>0, <1>2, SizeIs DEF Positions, Size
  <2> QED BY <1>0, <1>2, <2>1, ListingIs DEF LineAt, ListingInv
<1>3. /\ offset >= -1 /\ bar \in -1 .. MaxScroll(Size) - 1
      /\ offset = -1 => MaxScroll(Size) = 0
  BY <1>0, ScrollingIs DEF ScrollInv, Fits
<1> QED BY <1>0, <1>1, <1>2, <1>3
        DEF TypeOK, EmulatorInv, ListingInv, SelectionInv, DialogInv

THEOREM ViewInvariant == Spec => []ViewInv
<1>1. Init => ViewInv
  BY ViewInit, ViewAssumption, BuilderAssumption
<1>2. ViewInv /\ [Next]_vars => ViewInv'
  BY ViewStep, ViewAssumption, BuilderAssumption
<1> QED BY <1>1, <1>2, PTL DEF Spec

(* The scroll bar stays in the range of the lines that are there, and no line
   names a label that has been removed (disassembly_view.cpp). *)
THEOREM TypeCorrect == Spec => []TypeOK
<1>1. ViewInv => TypeOK
  BY ViewInvType, ViewAssumption, BuilderAssumption
<1> QED BY <1>1, ViewInvariant, PTL

(* The listing shows every address of the device once and in order, whatever the
   labels are and wherever instructions begin, and build ends unless a label
   reaches behind the device (disassembly_builder.cpp). *)
THEOREM LinesAlwaysTile == Spec => []LinesTile
<1>1. ViewInv => LinesTile
  BY ListingTiles, ViewAssumption, BuilderAssumption DEF ViewInv, ListingInv
<1> QED BY <1>1, ViewInvariant, PTL

(* Every label that starts in the device is shown in front of its line, or an
   instruction of a label before it covers it (disassembly_builder.cpp). *)
THEOREM LabelsAlwaysShown == Spec => []LabelsShown
<1>1. ViewInv => LabelsShown
  BY ListingShows, ViewAssumption, BuilderAssumption DEF ViewInv, ListingInv
<1> QED BY <1>1, ViewInvariant, PTL

(* A pause and a step select the line that holds the program counter and scroll
   it into the window (disassembly_view.cpp). *)
THEOREM PausesAlwaysShowPc == Spec => PausesShowPc
<1>1. ViewInv /\ [Next]_vars => [ShowsPc]_vars
  BY PauseShowsPc, ViewAssumption, BuilderAssumption
<1> QED BY <1>1, ViewInvariant, PTL DEF Spec, PausesShowPc

=============================================================================
