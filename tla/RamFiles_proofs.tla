-------------------------- MODULE RamFiles_proofs --------------------------
(***************************************************************************)
(* Files of memory hold what was saved, and loading them restores it, for  *)
(* every size of the RAM and of blocks, every range, content and cut.      *)
(***************************************************************************)
EXTENDS RamFiles, SequenceTheorems, WellFoundedInduction, TLAPS

-----------------------------------------------------------------------------
(* Numbers *)

(* Every set of numbers has a least one: the form in which the proofs below
   use induction. *)
LEMMA Least ==
  ASSUME NEW T, T \subseteq Nat, T # {}
  PROVE  \E m \in T : \A n \in T : m <= n
<1> DEFINE R == OpToRel(<, Nat)
<1>1. IsWellFoundedOn(R, Nat)
  BY NatLessThanWellFounded
<1>2. \A x, y \in Nat : <<x, y>> \in R <=> x < y
  BY DEF OpToRel
<1> HIDE DEF R
<1>3. PICK m \in T : \A y \in T : ~ (<<y, m>> \in R)
  BY <1>1, WFMin
<1>4. \A n \in T : m \in Nat /\ n \in Nat /\ ~(n < m)
  BY <1>2, <1>3
<1>5. \A n \in T : m <= n
  BY <1>4
<1> QED BY <1>3, <1>5

-----------------------------------------------------------------------------
(* Digits: what is written is read *)

Digit == 0 .. 15
Word == 0 .. 65535

UpTo(top) == 0 .. top

LEMMA Words16 == \A w : w \in Word <=> w \in Int /\ 0 <= w /\ w <= 65535
<1> DEFINE top == 65535
<1>1. Word = UpTo(top)
  BY DEF UpTo, Word
<1>2. top \in Int /\ \A w \in Int : w <= 65535 <=> w <= top
  OBVIOUS
<1> HIDE DEF top
<1>3. \A w : w \in UpTo(top) <=> w \in Int /\ 0 <= w /\ w <= top
  BY <1>2 DEF UpTo
<1> QED BY <1>1, <1>2, <1>3

LEMMA TwoDigits ==
  ASSUME NEW v \in Byte
  PROVE  Digits(v, 2) = <<v \div 16, v % 16>>
<1> DEFINE d == <<v \div 16, v % 16>>
<1>1. 16 ^ 1 = 16 /\ 16 ^ 0 = 1
  OBVIOUS
<1>2. Digits(v, 2) = [i \in 1 .. 2 |-> (v \div 16 ^ (2 - i)) % 16]
  BY DEF Digits
<1>3. 2 - 1 = 1 /\ 2 - 2 = 0
  OBVIOUS
<1>4. (v \div 16) % 16 = v \div 16 /\ v \div 1 = v
  BY DEF Byte
<1>5. /\ (v \div 16 ^ (2 - 1)) % 16 = d[1]
      /\ (v \div 16 ^ (2 - 2)) % 16 = d[2]
  BY <1>1, <1>3, <1>4
<1>6. d = [i \in 1 .. 2 |-> d[i]]
  OBVIOUS
<1> HIDE DEF d
<1>7. ASSUME NEW i \in 1 .. 2
      PROVE  (v \div 16 ^ (2 - i)) % 16 = d[i]
  <2>1. i = 1 \/ i = 2
    OBVIOUS
  <2> QED BY <1>5, <2>1
<1>8. Digits(v, 2) = d
  BY <1>2, <1>6, <1>7
<1> QED BY <1>8 DEF d

LEMMA FourDigits ==
  ASSUME NEW v \in Word
  PROVE  Digits(v, 4) = <<v \div 4096, (v \div 256) % 16, (v \div 16) % 16, v % 16>>
<1> DEFINE d == <<v \div 4096, (v \div 256) % 16, (v \div 16) % 16, v % 16>>
<1>1. 16 ^ 3 = 4096 /\ 16 ^ 2 = 256 /\ 16 ^ 1 = 16 /\ 16 ^ 0 = 1
  OBVIOUS
<1>2. Digits(v, 4) = [i \in 1 .. 4 |-> (v \div 16 ^ (4 - i)) % 16]
  BY DEF Digits
<1>3. 4 - 1 = 3 /\ 4 - 2 = 2 /\ 4 - 3 = 1 /\ 4 - 4 = 0
  OBVIOUS
<1>4. (v \div 4096) % 16 = v \div 4096 /\ v \div 1 = v
  BY Words16
<1>5. /\ (v \div 16 ^ (4 - 1)) % 16 = d[1]
      /\ (v \div 16 ^ (4 - 2)) % 16 = d[2]
      /\ (v \div 16 ^ (4 - 3)) % 16 = d[3]
      /\ (v \div 16 ^ (4 - 4)) % 16 = d[4]
  BY <1>1, <1>3, <1>4
<1>6. d = [i \in 1 .. 4 |-> d[i]]
  OBVIOUS
<1> HIDE DEF d
<1>7. ASSUME NEW i \in 1 .. 4
      PROVE  (v \div 16 ^ (4 - i)) % 16 = d[i]
  <2>1. i = 1 \/ i = 2 \/ i = 3 \/ i = 4
    OBVIOUS
  <2> QED BY <1>5, <2>1
<1>8. Digits(v, 4) = d
  BY <1>2, <1>6, <1>7
<1> QED BY <1>8 DEF d

(* f[i] is the number of the first i digits. *)
IsNumber(f, digits, k) ==
  /\ f = [i \in 0 .. k |-> f[i]]
  /\ f[0] = 0
  /\ \A i \in 1 .. k : f[i] = (16 * f[i - 1]) + digits[i]

LEMMA NumberExists ==
  ASSUME NEW digits, NEW k \in Nat
  PROVE  \E f : IsNumber(f, digits, k)
<1> SUFFICES ASSUME ~ \E f : IsNumber(f, digits, k) PROVE FALSE
  OBVIOUS
<1> DEFINE T == {n \in Nat : ~ \E f : IsNumber(f, digits, n)}
<1>1. PICK m \in T : \A n \in T : m <= n
  <2>1. T \subseteq Nat /\ k \in T
    OBVIOUS
  <2> QED BY <2>1, Least
<1>2. m # 0
  <2> DEFINE f == [n \in 0 .. 0 |-> 0]
  <2>1. IsNumber(f, digits, 0)
    BY DEF IsNumber
  <2> QED BY <2>1
<1>3. PICK f : IsNumber(f, digits, m - 1)
  BY <1>1, <1>2
<1> DEFINE g == [n \in 0 .. m |-> IF n = m THEN (16 * f[m - 1]) + digits[m] ELSE f[n]]
<1>4. IsNumber(g, digits, m)
  <2>1. g = [n \in 0 .. m |-> g[n]] /\ g[0] = 0
    BY <1>2, <1>3 DEF IsNumber
  <2>2. ASSUME NEW n \in 1 .. m PROVE g[n] = (16 * g[n - 1]) + digits[n]
    <3>1. n - 1 \in 0 .. m - 1 /\ n \in 0 .. m /\ g[n - 1] = f[n - 1]
      BY <1>1
    <3>2. CASE n = m
      BY <3>1, <3>2
    <3>3. CASE n # m
      <4>1. n \in 1 .. m - 1 /\ g[n] = f[n]
        BY <1>1, <3>3
      <4>2. f[n] = (16 * f[n - 1]) + digits[n]
        BY <1>3, <4>1 DEF IsNumber
      <4> QED BY <3>1, <4>1, <4>2
    <3> QED BY <3>2, <3>3
  <2> QED BY <2>1, <2>2 DEF IsNumber
<1> QED BY <1>4

LEMMA NumberIs ==
  ASSUME NEW digits, Len(digits) \in Nat
  PROVE  \E f : IsNumber(f, digits, Len(digits)) /\ Number(digits) = f[Len(digits)]
<1> DEFINE K == Len(digits)
           Body(f) == [i \in 0 .. K |->
                         IF i = 0 THEN 0 ELSE (16 * f[i - 1]) + digits[i]]
           value == CHOOSE f : f = Body(f)
<1>1. K \in Nat
  OBVIOUS
<1>2. PICK f : IsNumber(f, digits, K)
  BY <1>1, NumberExists
<1>3. Number(digits) = value[K]
  BY DEF Number
<1> HIDE DEF K
<1>4. f = Body(f)
  <2>1. ASSUME NEW n \in 0 .. K PROVE f[n] = Body(f)[n]
    <3>1. CASE n = 0
      BY <1>1, <1>2, <3>1 DEF IsNumber
    <3>2. CASE n \in 1 .. K
      BY <1>1, <1>2, <3>2 DEF IsNumber
    <3> QED BY <1>1, <3>1, <3>2
  <2>2. f = [n \in 0 .. K |-> f[n]]
    BY <1>2 DEF IsNumber
  <2> QED BY <2>1, <2>2
<1>5. value = Body(value)
  BY <1>4
<1> HIDE DEF value
<1>6. IsNumber(value, digits, K)
  BY <1>1, <1>5 DEF IsNumber
<1> QED BY <1>3, <1>6 DEF K

(* One or two digits are a byte, or nothing is. *)
LEMMA NumberOfFew ==
  ASSUME NEW s \in Seq(Digit), Len(s) <= 2
  PROVE  Number(s) \in Byte
<1>1. PICK f : IsNumber(f, s, Len(s)) /\ Number(s) = f[Len(s)]
  BY NumberIs
<1>2. CASE Len(s) = 0
  BY <1>1, <1>2 DEF IsNumber, Byte
<1>3. CASE Len(s) = 1
  <2>1. s[1] \in Digit /\ 1 - 1 = 0
    BY <1>3
  <2>2. f[1] = s[1]
    BY <1>1, <1>3, <2>1 DEF IsNumber, Digit
  <2> QED BY <1>1, <1>3, <2>1, <2>2 DEF Digit, Byte
<1>4. CASE Len(s) = 2
  <2>1. s[1] \in Digit /\ s[2] \in Digit /\ 1 - 1 = 0 /\ 2 - 1 = 1
    BY <1>4
  <2>2. f[0] = 0 /\ f[1] = (16 * f[0]) + s[1] /\ f[2] = (16 * f[1]) + s[2]
    BY <1>1, <1>4, <2>1 DEF IsNumber
  <2>3. \A a, b \in Digit : (16 * ((16 * 0) + a)) + b \in Byte
    BY DEF Digit, Byte
  <2>4. f[2] \in Byte
    BY <2>1, <2>2, <2>3
  <2> QED BY <1>1, <1>4, <2>4
<1>5. Len(s) \in Nat
  OBVIOUS
<1>6. \A n \in Nat : n <= 2 => n = 0 \/ n = 1 \/ n = 2
  OBVIOUS
<1> QED BY <1>2, <1>3, <1>4, <1>5, <1>6

LEMMA NumberOfFourIs ==
  ASSUME NEW s, Len(s) = 4
  PROVE  Number(s) = (16 * ((16 * ((16 * ((16 * 0) + s[1])) + s[2])) + s[3])) + s[4]
<1>0. Len(s) \in Nat
  OBVIOUS
<1>1. PICK f : IsNumber(f, s, Len(s)) /\ Number(s) = f[Len(s)]
  BY <1>0, NumberIs, Zenon
<1>2. /\ f[0] = 0 /\ f[1] = (16 * f[0]) + s[1] /\ f[2] = (16 * f[1]) + s[2]
      /\ f[3] = (16 * f[2]) + s[3] /\ f[4] = (16 * f[3]) + s[4]
  <2>1. 1 - 1 = 0 /\ 2 - 1 = 1 /\ 3 - 1 = 2 /\ 4 - 1 = 3
    OBVIOUS
  <2>2. 1 \in 1 .. 4 /\ 2 \in 1 .. 4 /\ 3 \in 1 .. 4 /\ 4 \in 1 .. 4
    OBVIOUS
  <2> QED BY <1>1, <2>1, <2>2 DEF IsNumber
<1>3. Number(s) = f[4]
  BY <1>1
<1> QED BY <1>2, <1>3, Zenon

(* s is the digits of v *)
TwoOf(s, v) == Len(s) = 2 /\ s[1] = v \div 16 /\ s[2] = v % 16
FourOf(s, v) ==
  /\ Len(s) = 4
  /\ s[1] = v \div 4096 /\ s[2] = (v \div 256) % 16
  /\ s[3] = (v \div 16) % 16 /\ s[4] = v % 16

LEMMA NumberOfTwo ==
  ASSUME NEW s, NEW v \in Byte, TwoOf(s, v)
  PROVE  Number(s) = v
<1>0. Len(s) = 2 /\ Len(s) \in Nat
  BY DEF TwoOf
<1>1. PICK f : IsNumber(f, s, Len(s)) /\ Number(s) = f[Len(s)]
  BY <1>0, NumberIs, Zenon
<1>2. f[0] = 0 /\ f[1] = (16 * f[0]) + s[1] /\ f[2] = (16 * f[1]) + s[2]
  <2>1. 1 - 1 = 0 /\ 2 - 1 = 1 /\ 1 \in 1 .. 2 /\ 2 \in 1 .. 2
    OBVIOUS
  <2> QED BY <1>0, <1>1, <2>1 DEF IsNumber
<1>3. Number(s) = f[2]
  BY <1>0, <1>1
<1>4. f[2] = v
  BY <1>2 DEF Byte, TwoOf
<1> QED BY <1>3, <1>4

LEMMA NumberOfFour ==
  ASSUME NEW s, NEW v \in Word, FourOf(s, v)
  PROVE  Number(s) = v
<1>1. \A w \in Nat : (16 * (w \div 16)) + (w % 16) = w
  OBVIOUS
<1>2. /\ v \in Nat /\ v \div 16 \in Nat /\ v \div 256 \in Nat
      /\ (v \div 16) \div 16 = v \div 256
      /\ (v \div 256) \div 16 = v \div 4096 /\ v \div 4096 \in Nat
  <2>1. v \in Nat
    BY Words16
  <2> QED BY <2>1
<1>3. (16 * 0) + s[1] = v \div 4096
  BY <1>2 DEF FourOf
<1>4. (16 * (v \div 4096)) + s[2] = v \div 256
  BY <1>1, <1>2 DEF FourOf
<1>5. (16 * (v \div 256)) + s[3] = v \div 16
  BY <1>1, <1>2 DEF FourOf
<1>6. (16 * (v \div 16)) + s[4] = v
  BY <1>1, <1>2 DEF FourOf
<1>7. Len(s) = 4
  BY DEF FourOf
<1>8. Number(s) = (16 * ((16 * ((16 * ((16 * 0) + s[1])) + s[2])) + s[3])) + s[4]
  BY <1>7, NumberOfFourIs, Zenon
<1> HIDE DEF Word
<1> DEFINE a == (16 * 0) + s[1]
           b == (16 * a) + s[2]
           c == (16 * b) + s[3]
<1>9. Number(s) = (16 * c) + s[4]
  BY <1>8
<1>10. a = v \div 4096
  BY <1>3
<1>11. b = v \div 256
  BY <1>4, <1>10
<1>12. c = v \div 16
  BY <1>5, <1>11
<1> QED BY <1>6, <1>9, <1>12

-----------------------------------------------------------------------------
(* Fields of a line, whole or cut short *)

(* The line of CutShort *)
Short(r, d) == [r EXCEPT !.digits = SubSeq(@, 1, d)]

LEMMA SmallerIs ==
  ASSUME NEW i \in Int, NEW j \in Int
  PROVE  /\ Smaller(i, j) \in {i, j}
         /\ Smaller(i, j) <= i /\ Smaller(i, j) <= j
BY DEF Smaller

LEMMA ShortIs ==
  ASSUME NEW r \in Line, NEW d \in 0 .. Len(r.digits)
  PROVE  /\ Short(r, d) \in Line
         /\ Short(r, d).start = r.start
         /\ Len(Short(r, d).digits) = d
         /\ \A i \in 1 .. d : Short(r, d).digits[i] = r.digits[i]
<1>1. r.digits \in Seq(Digit) /\ Len(r.digits) \in Nat
  BY DEF Line, Digit
<1> DEFINE s == r.digits
           t == SubSeq(s, 1, d)
<1>2. d \in Nat /\ \A i \in 1 .. d : s[i] \in Digit
  BY <1>1
<1>3. t \in Seq(Digit) /\ Len(t) = d /\ \A i \in 1 .. d : t[i] = s[i]
  <2>1. \A i \in 1 .. d - 1 + 1 : i \in 1 .. d /\ 1 + i - 1 = i
    BY <1>2
  <2> QED BY <1>2, <2>1, SubSeqProperties
<1>4. Short(r, d) = [start |-> r.start, digits |-> t]
  <2>1. r = [start |-> r.start, digits |-> s]
    BY DEF Line
  <2>2. Short(r, d) = [r EXCEPT !.digits = t]
    BY DEF Short
  <2> HIDE DEF s, t
  <2> QED BY <2>1, <2>2
<1> HIDE DEF t
<1> QED BY <1>3, <1>4 DEF Line, Digit

LEMMA MidOfShort ==
  ASSUME NEW r \in Line, NEW d \in 0 .. Len(r.digits), NEW from \in Nat, NEW count \in Nat
  PROVE  /\ Mid(Short(r, d), from, count) \in Seq(Digit)
         /\ Len(Mid(Short(r, d), from, count)) <= count
         /\ d <= from => Mid(Short(r, d), from, count) = <<>>
         /\ count > 0 /\ d > from => Mid(Short(r, d), from, count) # <<>>
         /\ d >= from + count =>
              /\ Len(Mid(Short(r, d), from, count)) = count
              /\ \A i \in 1 .. count :
                   Mid(Short(r, d), from, count)[i] = r.digits[from + i]
<1>1. r.digits \in Seq(Digit) /\ Len(r.digits) \in Nat
  BY DEF Line, Digit
<1>2. d \in Nat
  BY <1>1
<1> DEFINE c == Short(r, d).digits
           last == Smaller(from + count, d)
           m == SubSeq(c, from + 1, last)
<1>3. /\ c \in Seq(Digit) /\ Len(c) = d
      /\ \A i \in 1 .. d : c[i] = r.digits[i] /\ c[i] \in Digit
  BY ShortIs DEF Line, Digit
<1>4. Mid(Short(r, d), from, count) = m
  BY <1>3 DEF Mid
<1>5. /\ last \in Nat /\ last <= from + count /\ last <= d
      /\ last = from + count \/ last = d
  BY <1>2, SmallerIs
<1> HIDE DEF c, last
<1>6. \A i \in from + 1 .. last : c[i] \in Digit
  BY <1>2, <1>3, <1>5
<1>7. /\ m \in Seq(Digit)
      /\ Len(m) = IF from + 1 <= last THEN last - (from + 1) + 1 ELSE 0
      /\ \A i \in 1 .. last - (from + 1) + 1 : m[i] = c[from + 1 + i - 1]
  BY <1>5, <1>6, SubSeqProperties
<1> HIDE DEF m
<1>8. Len(m) <= count
  BY <1>5, <1>7
<1>9. d <= from => m = <<>>
  BY <1>2, <1>5, <1>7, EmptySeq
<1>10. count > 0 /\ d > from => m # <<>>
  BY <1>2, <1>5, <1>7
<1>11. ASSUME d >= from + count
       PROVE  Len(m) = count /\ \A i \in 1 .. count : m[i] = r.digits[from + i]
  <2>1. last = from + count
    BY <1>2, <1>5, <1>11
  <2>2. Len(m) = count
    BY <1>7, <2>1
  <2>3. ASSUME NEW i \in 1 .. count PROVE m[i] = r.digits[from + i]
    <3>1. i \in 1 .. last - (from + 1) + 1 /\ from + 1 + i - 1 = from + i /\ from + i \in 1 .. d
      BY <1>2, <1>11, <2>1
    <3> QED BY <1>3, <1>7, <3>1
  <2> QED BY <2>2, <2>3
<1> QED BY <1>4, <1>7, <1>8, <1>9, <1>10, <1>11

LEMMA FieldOfShort ==
  ASSUME NEW r \in Line, NEW d \in 0 .. Len(r.digits), NEW from \in Nat, NEW count \in Nat
  PROVE  /\ d <= from => Mid(Short(r, d), from, count) = <<>>
         /\ count > 0 /\ d > from => Mid(Short(r, d), from, count) # <<>>
BY MidOfShort

(* The digits of a byte, or of a word, are in s behind the first n. *)
TwoAt(s, n, v) == s[n + 1] = v \div 16 /\ s[n + 2] = v % 16
FourAt(s, n, v) ==
  /\ s[n + 1] = v \div 4096 /\ s[n + 2] = (v \div 256) % 16
  /\ s[n + 3] = (v \div 16) % 16 /\ s[n + 4] = v % 16

LEMMA ByteField ==
  ASSUME NEW r \in Line, NEW d \in 0 .. Len(r.digits), NEW from \in Nat,
         from + 2 <= d, NEW v \in Byte, TwoAt(r.digits, from, v)
  PROVE  /\ Readable(Mid(Short(r, d), from, 2))
         /\ Number(Mid(Short(r, d), from, 2)) = v
<1> DEFINE m == Mid(Short(r, d), from, 2)
<1>1. d \in Nat
  BY DEF Line
<1>2. Len(m) = 2 /\ \A i \in 1 .. 2 : m[i] = r.digits[from + i]
  BY <1>1, MidOfShort
<1>3. m # <<>>
  BY <1>2
<1>4. TwoOf(m, v)
  BY <1>2 DEF TwoOf, TwoAt
<1> HIDE DEF m
<1>5. Number(m) = v
  BY <1>4, NumberOfTwo
<1> QED BY <1>3, <1>5 DEF Readable, m

LEMMA WordField ==
  ASSUME NEW r \in Line, NEW d \in 0 .. Len(r.digits), NEW from \in Nat,
         from + 4 <= d, NEW v \in Word, FourAt(r.digits, from, v)
  PROVE  /\ Readable(Mid(Short(r, d), from, 4))
         /\ Number(Mid(Short(r, d), from, 4)) = v
<1> DEFINE m == Mid(Short(r, d), from, 4)
<1>1. d \in Nat
  BY DEF Line
<1>2. Len(m) = 4 /\ \A i \in 1 .. 4 : m[i] = r.digits[from + i]
  BY <1>1, MidOfShort
<1>3. m # <<>>
  BY <1>2
<1>4. FourOf(m, v)
  BY <1>2 DEF FourOf, FourAt
<1> HIDE DEF m
<1>5. Number(m) = v
  BY <1>4, NumberOfFour
<1> QED BY <1>3, <1>5 DEF Readable, m

-----------------------------------------------------------------------------
(* Records: where their fields are *)

LEMMA DigitSequences ==
  /\ \A v \in Byte : /\ Digits(v, 2) \in Seq(Digit) /\ Len(Digits(v, 2)) = 2
                     /\ TwoAt(Digits(v, 2), 0, v)
  /\ \A v \in Nat : /\ Digits(v, 4) \in Seq(Digit) /\ Len(Digits(v, 4)) = 4
                    /\ v \in Word => FourAt(Digits(v, 4), 0, v)
<1>1. ASSUME NEW v \in Byte
      PROVE  /\ Digits(v, 2) \in Seq(Digit) /\ Len(Digits(v, 2)) = 2
             /\ TwoAt(Digits(v, 2), 0, v)
  <2>1. v \div 16 \in Digit /\ v % 16 \in Digit
    BY DEF Byte, Digit
  <2> DEFINE a == v \div 16
             b == v % 16
  <2>2. Digits(v, 2) = <<a, b>>
    BY TwoDigits
  <2>3. TwoAt(<<a, b>>, 0, v)
    BY DEF TwoAt
  <2> HIDE DEF a, b
  <2>4. <<a, b>> \in Seq(Digit) /\ Len(<<a, b>>) = 2
    BY <2>1 DEF a, b
  <2> QED BY <2>2, <2>3, <2>4
<1>2. ASSUME NEW v \in Nat
      PROVE  Digits(v, 4) \in Seq(Digit) /\ Len(Digits(v, 4)) = 4
  <2> DEFINE e(i) == (v \div 16 ^ (4 - i)) % 16
  <2>1. Digits(v, 4) = [i \in 1 .. 4 |-> e(i)]
    BY DEF Digits
  <2>2. ASSUME NEW i \in 1 .. 4 PROVE e(i) \in Digit
    <3>1. 16 ^ 3 = 4096 /\ 16 ^ 2 = 256 /\ 16 ^ 1 = 16 /\ 16 ^ 0 = 1
      OBVIOUS
    <3>2. 4 - 1 = 3 /\ 4 - 2 = 2 /\ 4 - 3 = 1 /\ 4 - 4 = 0
      OBVIOUS
    <3>3. \A w \in Int : w % 16 \in Digit
      BY DEF Digit
    <3>4. /\ v \div 4096 \in Int /\ v \div 256 \in Int
          /\ v \div 16 \in Int /\ v \div 1 \in Int
      OBVIOUS
    <3>5. e(1) \in Digit /\ e(2) \in Digit /\ e(3) \in Digit /\ e(4) \in Digit
      BY <3>1, <3>2, <3>3, <3>4
    <3>6. i = 1 \/ i = 2 \/ i = 3 \/ i = 4
      OBVIOUS
    <3> HIDE DEF e
    <3> QED BY <3>5, <3>6
  <2> HIDE DEF e
  <2>3. Digits(v, 4) \in Seq(Digit)
    <3>1. Digits(v, 4) \in [1 .. 4 -> Digit] /\ 4 \in Nat
      BY <2>1, <2>2
    <3> QED BY <3>1, SeqDef
  <2>4. Len(Digits(v, 4)) = 4
    BY <2>1
  <2> QED BY <2>3, <2>4
<1>3. ASSUME NEW v \in Word PROVE FourAt(Digits(v, 4), 0, v)
  BY FourDigits DEF FourAt
<1>4. \A v \in Word : v \in Nat
  BY Words16
<1> QED BY <1>1, <1>2, <1>3, <1>4

Starts == {"S0", "S1", "S5", "S9", ":"}

RecordOf(r, start, count, address, x) ==
  /\ r \in Line /\ r.start = start /\ Len(r.digits) = Len(x) + 8
  /\ TwoAt(r.digits, 0, count)
  /\ address \in Word => FourAt(r.digits, 2, address)
  /\ \A i \in 1 .. Len(x) : r.digits[6 + i] = x[i]

LEMMA RecordIs ==
  ASSUME NEW start \in Starts, NEW count \in Byte, NEW address \in Nat,
         NEW x \in Seq(Digit)
  PROVE  RecordOf(Record(start, count, address, x), start, count, address, x)
<1> DEFINE a == Digits(count, 2)
           b == Digits(address, 4)
           z == AnyChecksum
           s == a \o b \o x \o z
<1>1. /\ a \in Seq(Digit) /\ Len(a) = 2 /\ TwoAt(a, 0, count)
      /\ b \in Seq(Digit) /\ Len(b) = 4 /\ (address \in Word => FourAt(b, 0, address))
  BY DigitSequences
<1>2. z \in Seq(Digit) /\ Len(z) = 2
  BY DEF AnyChecksum, Digit
<1>3. Record(start, count, address, x) = [start |-> start, digits |-> s]
  BY DEF Record
<1> DEFINE ab == a \o b
           abx == ab \o x
<1> HIDE DEF a, b, z
<1>4. /\ ab \in Seq(Digit) /\ Len(ab) = 6
      /\ ab[1] = a[1] /\ ab[2] = a[2]
      /\ ab[3] = b[1] /\ ab[4] = b[2] /\ ab[5] = b[3] /\ ab[6] = b[4]
  <2>1. /\ ab \in Seq(Digit) /\ Len(ab) = Len(a) + Len(b)
        /\ \A i \in 1 .. Len(a) + Len(b) :
             ab[i] = IF i <= Len(a) THEN a[i] ELSE b[i - Len(a)]
    BY <1>1, ConcatProperties
  <2> HIDE DEF ab
  <2> QED BY <1>1, <2>1
<1> HIDE DEF ab
<1>5. /\ abx \in Seq(Digit) /\ Len(abx) = Len(x) + 6
      /\ \A i \in 1 .. 6 : abx[i] = ab[i]
      /\ \A i \in 1 .. Len(x) : abx[6 + i] = x[i]
  <2>0. Len(x) \in Nat
    OBVIOUS
  <2>1. /\ abx \in Seq(Digit) /\ Len(abx) = Len(ab) + Len(x)
        /\ \A i \in 1 .. Len(ab) + Len(x) :
             abx[i] = IF i <= Len(ab) THEN ab[i] ELSE x[i - Len(ab)]
    BY <1>4, ConcatProperties
  <2> HIDE DEF abx
  <2>2. \A i \in 1 .. 6 : abx[i] = ab[i]
    BY <1>4, <2>0, <2>1
  <2>3. ASSUME NEW i \in 1 .. Len(x) PROVE abx[6 + i] = x[i]
    <3>1. 6 + i \in 1 .. 6 + Len(x) /\ ~(6 + i <= 6) /\ (6 + i) - 6 = i
      BY <2>0
    <3> QED BY <1>4, <2>1, <3>1
  <2> QED BY <1>4, <2>0, <2>1, <2>2, <2>3
<1> HIDE DEF abx
<1>6. /\ s \in Seq(Digit) /\ Len(s) = Len(x) + 8
      /\ \A i \in 1 .. Len(x) + 6 : s[i] = abx[i]
  <2>0. Len(x) \in Nat
    OBVIOUS
  <2>1. s = abx \o z
    BY DEF abx, ab
  <2> DEFINE t == abx \o z
  <2>2. /\ t \in Seq(Digit) /\ Len(t) = Len(abx) + Len(z)
        /\ \A i \in 1 .. Len(abx) + Len(z) :
             t[i] = IF i <= Len(abx) THEN abx[i] ELSE z[i - Len(abx)]
    BY <1>2, <1>5, ConcatProperties
  <2> HIDE DEF s, t
  <2>3. /\ t \in Seq(Digit) /\ Len(t) = Len(x) + 8
        /\ \A i \in 1 .. Len(x) + 6 : t[i] = abx[i]
    BY <1>2, <1>5, <2>0, <2>2
  <2> QED BY <2>1, <2>3 DEF t
<1> HIDE DEF s
<1>7. /\ s[1] = a[1] /\ s[2] = a[2]
      /\ s[3] = b[1] /\ s[4] = b[2] /\ s[5] = b[3] /\ s[6] = b[4]
      /\ \A i \in 1 .. Len(x) : s[6 + i] = x[i]
  <2>0. Len(x) \in Nat
    OBVIOUS
  <2>1. ASSUME NEW i \in 1 .. 6 PROVE s[i] = ab[i]
    BY <1>5, <1>6, <2>0
  <2>2. ASSUME NEW i \in 1 .. Len(x) PROVE s[6 + i] = x[i]
    <3>1. 6 + i \in 1 .. Len(x) + 6
      BY <2>0
    <3> QED BY <1>5, <1>6, <3>1
  <2> QED BY <1>4, <2>1, <2>2
<1>8. TwoAt(s, 0, count) /\ (address \in Word => FourAt(s, 2, address))
  <2>1. a[1] = count \div 16 /\ a[2] = count % 16
    BY <1>1 DEF TwoAt
  <2>2. address \in Word =>
        /\ b[1] = address \div 4096 /\ b[2] = (address \div 256) % 16
        /\ b[3] = (address \div 16) % 16 /\ b[4] = address % 16
    BY <1>1 DEF FourAt
  <2> QED BY <1>7, <2>1, <2>2 DEF TwoAt, FourAt
<1>9. [start |-> start, digits |-> s] \in Line
  BY <1>6 DEF Line, Digit, Starts
<1> QED BY <1>3, <1>6, <1>7, <1>8, <1>9 DEF RecordOf

(* What the files hold: blocks of bytes *)
Chunk == [address : Word, data : Seq(Byte)]

LEMMA DataDigitsAre ==
  ASSUME NEW block \in Chunk
  PROVE  /\ DataDigits(block) \in Seq(Digit)
         /\ Len(DataDigits(block)) = 2 * Len(block.data)
         /\ \A i \in 1 .. Len(block.data) :
              TwoAt(DataDigits(block), 2 * (i - 1), block.data[i])
<1> DEFINE n == Len(block.data)
           x == DataDigits(block)
           e(i) == Digits(block.data[(i + 1) \div 2], 2)[IF i % 2 = 1 THEN 1 ELSE 2]
<1>1. n \in Nat /\ block.data \in Seq(Byte) /\ \A k \in 1 .. n : block.data[k] \in Byte
  BY DEF Chunk
<1>2. x = [i \in 1 .. 2 * n |-> e(i)]
  BY DEF DataDigits
<1>3. \A v \in Byte : /\ Digits(v, 2)[1] = v \div 16 /\ Digits(v, 2)[1] \in Digit
                      /\ Digits(v, 2)[2] = v % 16 /\ Digits(v, 2)[2] \in Digit
  <2> SUFFICES ASSUME NEW v \in Byte
               PROVE  /\ Digits(v, 2)[1] = v \div 16 /\ Digits(v, 2)[1] \in Digit
                      /\ Digits(v, 2)[2] = v % 16 /\ Digits(v, 2)[2] \in Digit
    OBVIOUS
  <2>1. Digits(v, 2) \in Seq(Digit) /\ Len(Digits(v, 2)) = 2 /\ TwoAt(Digits(v, 2), 0, v)
    BY DigitSequences
  <2> QED BY <2>1 DEF TwoAt
<1> HIDE DEF n, x
<1>4. ASSUME NEW i \in 1 .. 2 * n PROVE e(i) \in Digit
  <2>1. (i + 1) \div 2 \in 1 .. n
    BY <1>1
  <2> QED BY <1>1, <1>3, <2>1
<1>5. x \in Seq(Digit) /\ Len(x) = 2 * n
  <2>1. 2 * n \in Nat
    BY <1>1
  <2> HIDE DEF e
  <2> QED BY <1>2, <1>4, <2>1
<1>6. ASSUME NEW k \in 1 .. n PROVE TwoAt(x, 2 * (k - 1), block.data[k])
  <2>1. /\ 2 * (k - 1) + 1 \in 1 .. 2 * n /\ 2 * (k - 1) + 2 \in 1 .. 2 * n
        /\ ((2 * (k - 1) + 1) + 1) \div 2 = k /\ ((2 * (k - 1) + 2) + 1) \div 2 = k
        /\ (2 * (k - 1) + 1) % 2 = 1 /\ (2 * (k - 1) + 2) % 2 # 1
    BY <1>1
  <2>2. e(2 * (k - 1) + 1) = Digits(block.data[k], 2)[1]
    BY <2>1
  <2>3. e(2 * (k - 1) + 2) = Digits(block.data[k], 2)[2]
    BY <2>1
  <2>4. /\ x[2 * (k - 1) + 1] = Digits(block.data[k], 2)[1]
        /\ x[2 * (k - 1) + 2] = Digits(block.data[k], 2)[2]
    <3> HIDE DEF e
    <3> QED BY <1>2, <2>1, <2>2, <2>3
  <2>5. block.data[k] \in Byte
    BY <1>1
  <2> QED BY <1>3, <2>4, <2>5 DEF TwoAt
<1> QED BY <1>5, <1>6 DEF n, x

-----------------------------------------------------------------------------
(* What a line gives, whole or cut short *)

LEMMA WholeLine ==
  ASSUME NEW r \in Line
  PROVE  Short(r, Len(r.digits)) = r
<1>1. r.digits \in Seq(Digit)
  BY DEF Line, Digit
<1>2. SubSeq(r.digits, 1, Len(r.digits)) = r.digits
  BY <1>1, SubSeqFull
<1>3. r = [start |-> r.start, digits |-> r.digits]
  BY DEF Line
<1> QED BY <1>2, <1>3 DEF Short

(* What a line gives *)
LineOf(format, line) == IF format = "hex" THEN HexLine(line) ELSE SrecLine(line)

(* b is the block, or has another last byte, in Intel's format. *)
Like(format, b, block) ==
  /\ b \in Chunk /\ b.address = block.address /\ Len(b.data) = Len(block.data)
  /\ \A i \in 1 .. Len(block.data) :
       b.data[i] # block.data[i] => format = "hex" /\ i = Len(block.data)

(* What the lines may give that hold no block *)
NoBlock == {Failed, Nothing, One(Block(0, <<>>))}

LEMMA LikeItself ==
  ASSUME NEW format, NEW block \in Chunk
  PROVE  Like(format, block, block)
BY DEF Like

LEMMA SrecRecordRead ==
  ASSUME NEW block \in Chunk, Len(block.data) <= 252,
         NEW r, r = Record("S1", Len(block.data) + 3, block.address, DataDigits(block)),
         NEW d \in 0 .. Len(r.digits)
  PROVE  /\ SrecLine(Short(r, d)) \in {Failed, One(block)}
         /\ d = Len(r.digits) => SrecLine(Short(r, d)) = One(block)
<1> DEFINE n == Len(block.data)
           c == Short(r, d)
           x == DataDigits(block)
<1>1. /\ n \in Nat /\ n <= 252 /\ n + 3 \in Byte /\ block.data \in Seq(Byte)
      /\ block.address \in Word /\ block.address \in Nat
      /\ \A i \in 1 .. n : block.data[i] \in Byte
  <2>1. block.data \in Seq(Byte) /\ block.address \in Word
    BY DEF Chunk
  <2>2. n \in Nat /\ n <= 252 /\ \A i \in 1 .. n : block.data[i] \in Byte
    BY <2>1
  <2>3. \A k \in Nat : k <= 252 => k + 3 \in Byte
    BY DEF Byte
  <2>4. \A k \in Word : k \in Nat
    BY Words16
  <2> QED BY <2>1, <2>2, <2>3, <2>4
<1>2. /\ x \in Seq(Digit) /\ Len(x) = 2 * n
      /\ \A i \in 1 .. n : TwoAt(x, 2 * (i - 1), block.data[i])
  BY DataDigitsAre
<1>3. "S1" \in Starts
  BY DEF Starts
<1> DEFINE size == n + 3
<1> HIDE DEF n, x, size
<1>4. r = Record("S1", size, block.address, x) /\ size \in Byte
  BY <1>1 DEF n, x, size
<1>5. /\ r \in Line /\ r.start = "S1" /\ Len(r.digits) = Len(x) + 8
      /\ TwoAt(r.digits, 0, n + 3)
      /\ block.address \in Word => FourAt(r.digits, 2, block.address)
      /\ \A i \in 1 .. Len(x) : r.digits[6 + i] = x[i]
  <2>1. RecordOf(Record("S1", size, block.address, x), "S1", size, block.address, x)
    BY <1>1, <1>2, <1>3, <1>4, RecordIs
  <2>2. RecordOf(r, "S1", n + 3, block.address, x)
    BY <1>4, <2>1 DEF size
  <2> QED BY <2>2 DEF RecordOf
<1>6. d \in Nat /\ d <= (2 * n) + 8 /\ Len(r.digits) = (2 * n) + 8
  BY <1>1, <1>2, <1>5
<1>7. c \in Line /\ c.start = "S1"
  BY <1>5, ShortIs
<1>8. ASSUME NEW i \in 1 .. n PROVE TwoAt(r.digits, 6 + (2 * (i - 1)), block.data[i])
  <2>1. /\ 2 * (i - 1) + 1 \in 1 .. 2 * n /\ 2 * (i - 1) + 2 \in 1 .. 2 * n
        /\ 6 + (2 * (i - 1)) + 1 = 6 + (2 * (i - 1) + 1)
        /\ 6 + (2 * (i - 1)) + 2 = 6 + (2 * (i - 1) + 2)
    BY <1>1
  <2>2. /\ r.digits[6 + (2 * (i - 1) + 1)] = x[2 * (i - 1) + 1]
        /\ r.digits[6 + (2 * (i - 1) + 2)] = x[2 * (i - 1) + 2]
    BY <1>2, <1>5, <2>1
  <2>3. TwoAt(x, 2 * (i - 1), block.data[i])
    BY <1>2
  <2> QED BY <2>1, <2>2, <2>3 DEF TwoAt
<1>9. ASSUME d >= (2 * n) + 7 PROVE SrecLine(c) = One(block)
  <2>1. Readable(Mid(c, 0, 2)) /\ Number(Mid(c, 0, 2)) = n + 3
    BY <1>1, <1>5, <1>6, <1>9, ByteField
  <2>2. Readable(Mid(c, 2, 4)) /\ Number(Mid(c, 2, 4)) = block.address
    BY <1>1, <1>5, <1>6, <1>9, WordField
  <2>3. ASSUME NEW i \in 1 .. n
        PROVE  /\ Readable(Mid(c, 6 + (2 * (i - 1)), 2))
               /\ Number(Mid(c, 6 + (2 * (i - 1)), 2)) = block.data[i]
    <3>1. 6 + (2 * (i - 1)) \in Nat /\ 6 + (2 * (i - 1)) + 2 <= d
      BY <1>1, <1>6, <1>9
    <3> QED BY <1>1, <1>5, <1>8, <3>1, ByteField
  <2>4. DataReadable(c, 6, n)
    BY <2>3 DEF DataReadable
  <2>5. DataAt(c, 6, n) = block.data
    <3>1. DataAt(c, 6, n) = [i \in 1 .. n |-> block.data[i]]
      BY <2>3 DEF DataAt
    <3> QED BY <1>1, <3>1 DEF n
  <2>6. SrecComplete(c, n + 3)
    <3>1. Mid(c, 2 * (n + 3), 2) # <<>>
      <4>1. 2 * (n + 3) \in Nat /\ d > 2 * (n + 3)
        BY <1>1, <1>6, <1>9
      <4> QED BY <1>5, <4>1, FieldOfShort
    <3> QED BY <3>1 DEF SrecComplete, Readable
  <2>7. Block(block.address, block.data) = block
    BY DEF Block, Chunk
  <2> HIDE DEF c
  <2> DEFINE count == Number(Mid(c, 0, 2))
  <2>8. (count - 3) % 65536 = n
    <3>1. \A k \in Nat : k <= 252 => ((k + 3) - 3) % 65536 = k
      OBVIOUS
    <3>2. count = n + 3
      BY <2>1
    <3> HIDE DEF count
    <3> QED BY <1>1, <3>1, <3>2
  <2>9. SrecComplete(c, count)
    BY <2>1, <2>6
  <2> HIDE DEF count
  <2>10. SrecLine(c) = One(Block(Number(Mid(c, 2, 4)), DataAt(c, 6, n)))
    BY <1>7, <2>1, <2>2, <2>4, <2>8, <2>9 DEF SrecLine, count
  <2> QED BY <2>2, <2>5, <2>7, <2>10
<1>10. ASSUME d < (2 * n) + 7 PROVE SrecLine(c) = Failed
  <2>1. CASE d <= 2
    <3>1. Mid(c, 2, 4) = <<>>
      <4>1. r \in Line /\ 2 \in Nat /\ 4 \in Nat
        BY <1>5
      <4> QED BY <2>1, <4>1, FieldOfShort
    <3> HIDE DEF c
    <3>2. ~Readable(Mid(c, 2, 4))
      BY <3>1 DEF Readable
    <3> QED BY <1>7, <3>2 DEF SrecLine
  <2>2. CASE d > 2
    <3>1. Readable(Mid(c, 0, 2)) /\ Number(Mid(c, 0, 2)) = n + 3
      <4>1. r \in Line /\ TwoAt(r.digits, 0, n + 3) /\ n + 3 \in Byte
        BY <1>1, <1>5
      <4>2. 0 \in Nat /\ 0 + 2 <= d
        BY <1>6, <2>2
      <4> QED BY <4>1, <4>2, ByteField
    <3>2. ~SrecComplete(c, n + 3)
      <4>1. 2 * (n + 3) \in Nat /\ d <= 2 * (n + 3)
        BY <1>1, <1>6, <1>10
      <4>2. Mid(c, 2 * (n + 3), 2) = <<>>
        BY <1>5, <4>1, FieldOfShort
      <4> QED BY <4>2 DEF SrecComplete, Readable
    <3> HIDE DEF c
    <3> QED BY <1>7, <3>1, <3>2 DEF SrecLine
  <2> QED BY <1>6, <2>1, <2>2
<1>11. /\ d >= (2 * n) + 7 \/ d < (2 * n) + 7
       /\ d = Len(r.digits) => d >= (2 * n) + 7
  BY <1>1, <1>6
<1> HIDE DEF c
<1>12. /\ SrecLine(c) \in {Failed, One(block)}
       /\ d = Len(r.digits) => SrecLine(c) = One(block)
  BY <1>9, <1>10, <1>11
<1> QED BY <1>12 DEF c

LEMMA HexRecordIs ==
  ASSUME NEW block \in Chunk, Len(block.data) <= 252,
         NEW r, r = Record(":", Len(block.data), block.address,
                           Digits(0, 2) \o DataDigits(block))
  PROVE  /\ r \in Line /\ r.start = ":"
         /\ Len(r.digits) = (2 * Len(block.data)) + 10
         /\ TwoAt(r.digits, 0, Len(block.data))
         /\ FourAt(r.digits, 2, block.address)
         /\ TwoAt(r.digits, 6, 0)
         /\ \A i \in 1 .. Len(block.data) :
              TwoAt(r.digits, 8 + (2 * (i - 1)), block.data[i])
<1> DEFINE n == Len(block.data)
           x == DataDigits(block)
           z == Digits(0, 2)
           zx == z \o x
<1>1. /\ n \in Nat /\ n \in Byte
      /\ block.address \in Word /\ block.address \in Nat
      /\ \A i \in 1 .. n : block.data[i] \in Byte
  <2>1. block.data \in Seq(Byte) /\ block.address \in Word
    BY DEF Chunk
  <2>2. n \in Nat /\ n <= 252 /\ \A i \in 1 .. n : block.data[i] \in Byte
    BY <2>1
  <2>3. \A k \in Nat : k <= 252 => k \in Byte
    BY DEF Byte
  <2>4. \A k \in Word : k \in Nat
    BY Words16
  <2> QED BY <2>1, <2>2, <2>3, <2>4
<1>2. /\ x \in Seq(Digit) /\ Len(x) = 2 * n
      /\ \A i \in 1 .. n : TwoAt(x, 2 * (i - 1), block.data[i])
  BY DataDigitsAre
<1>3. z \in Seq(Digit) /\ Len(z) = 2 /\ TwoAt(z, 0, 0)
  BY DigitSequences DEF Byte
<1> HIDE DEF n, x, z
<1>4. /\ zx \in Seq(Digit) /\ Len(zx) = Len(z) + Len(x)
      /\ \A i \in 1 .. Len(z) + Len(x) :
           zx[i] = IF i <= Len(z) THEN z[i] ELSE x[i - Len(z)]
  <2>1. z \in Seq(Digit) /\ x \in Seq(Digit)
    BY <1>2, <1>3
  <2> QED BY <2>1, ConcatProperties
<1> HIDE DEF zx
<1>5. /\ zx \in Seq(Digit) /\ Len(zx) = (2 * n) + 2
      /\ zx[1] = z[1] /\ zx[2] = z[2]
      /\ \A i \in 1 .. 2 * n : zx[2 + i] = x[i]
  <2>1. zx[1] = z[1] /\ zx[2] = z[2] /\ Len(zx) = (2 * n) + 2
    BY <1>1, <1>2, <1>3, <1>4
  <2>2. ASSUME NEW i \in 1 .. 2 * n PROVE zx[2 + i] = x[i]
    <3>1. 2 + i \in 1 .. Len(z) + Len(x) /\ ~(2 + i <= Len(z)) /\ (2 + i) - Len(z) = i
      BY <1>1, <1>2, <1>3
    <3> QED BY <1>4, <3>1
  <2> QED BY <1>4, <2>1, <2>2
<1>6. RecordOf(r, ":", n, block.address, zx)
  <2>1. ":" \in Starts
    BY DEF Starts
  <2>2. RecordOf(Record(":", n, block.address, zx), ":", n, block.address, zx)
    BY <1>1, <1>5, <2>1, RecordIs
  <2>3. r = Record(":", n, block.address, zx)
    BY DEF n, x, z, zx
  <2> QED BY <2>2, <2>3
<1>7. /\ r \in Line /\ r.start = ":" /\ Len(r.digits) = Len(zx) + 8
      /\ TwoAt(r.digits, 0, n) /\ FourAt(r.digits, 2, block.address)
      /\ \A i \in 1 .. Len(zx) : r.digits[6 + i] = zx[i]
  BY <1>1, <1>6 DEF RecordOf
<1>8. Len(r.digits) = (2 * n) + 10
  BY <1>1, <1>5, <1>7
<1>9. TwoAt(r.digits, 6, 0)
  <2>1. r.digits[6 + 1] = z[0 + 1] /\ r.digits[6 + 2] = z[0 + 2]
    BY <1>1, <1>5, <1>7
  <2> QED BY <1>3, <2>1 DEF TwoAt
<1>10. ASSUME NEW i \in 1 .. n PROVE TwoAt(r.digits, 8 + (2 * (i - 1)), block.data[i])
  <2>1. /\ 2 * (i - 1) + 1 \in 1 .. 2 * n /\ 2 * (i - 1) + 2 \in 1 .. 2 * n
        /\ 8 + (2 * (i - 1)) + 1 = 6 + (2 + (2 * (i - 1) + 1))
        /\ 8 + (2 * (i - 1)) + 2 = 6 + (2 + (2 * (i - 1) + 2))
        /\ 2 + (2 * (i - 1) + 1) \in 1 .. (2 * n) + 2
        /\ 2 + (2 * (i - 1) + 2) \in 1 .. (2 * n) + 2
    BY <1>1
  <2>2. /\ r.digits[6 + (2 + (2 * (i - 1) + 1))] = zx[2 + (2 * (i - 1) + 1)]
        /\ r.digits[6 + (2 + (2 * (i - 1) + 2))] = zx[2 + (2 * (i - 1) + 2)]
    BY <1>5, <1>7, <2>1
  <2>3. /\ zx[2 + (2 * (i - 1) + 1)] = x[2 * (i - 1) + 1]
        /\ zx[2 + (2 * (i - 1) + 2)] = x[2 * (i - 1) + 2]
    BY <1>5, <2>1
  <2>4. TwoAt(x, 2 * (i - 1), block.data[i])
    BY <1>2
  <2> QED BY <2>1, <2>2, <2>3, <2>4 DEF TwoAt
<1> QED BY <1>7, <1>8, <1>9, <1>10 DEF n

LEMMA HexRecordRead ==
  ASSUME NEW block \in Chunk, Len(block.data) <= 252,
         NEW r, r = Record(":", Len(block.data), block.address,
                           Digits(0, 2) \o DataDigits(block)),
         NEW d \in 0 .. Len(r.digits)
  PROVE  /\ \/ HexLine(Short(r, d)) \in {Failed, Nothing}
            \/ \E b : Like("hex", b, block) /\ HexLine(Short(r, d)) = One(b)
         /\ d = Len(r.digits) => HexLine(Short(r, d)) = One(block)
<1> DEFINE n == Len(block.data)
           c == Short(r, d)
<1>1. /\ n \in Nat /\ n \in Byte /\ block.data \in Seq(Byte)
      /\ block.address \in Word
      /\ \A i \in 1 .. n : block.data[i] \in Byte
  <2>1. block.data \in Seq(Byte) /\ block.address \in Word
    BY DEF Chunk
  <2>2. n \in Nat /\ n <= 252 /\ \A i \in 1 .. n : block.data[i] \in Byte
    BY <2>1
  <2>3. \A k \in Nat : k <= 252 => k \in Byte
    BY DEF Byte
  <2> QED BY <2>1, <2>2, <2>3
<1>2. /\ r \in Line /\ r.start = ":"
      /\ Len(r.digits) = (2 * n) + 10
      /\ TwoAt(r.digits, 0, n)
      /\ FourAt(r.digits, 2, block.address)
      /\ TwoAt(r.digits, 6, 0)
      /\ \A i \in 1 .. n : TwoAt(r.digits, 8 + (2 * (i - 1)), block.data[i])
  BY HexRecordIs
<1> HIDE DEF n
<1>3. d \in Nat /\ d <= (2 * n) + 10
  BY <1>1, <1>2
<1>4. c.start = ":"
  BY <1>2, ShortIs
<1>5. ASSUME d <= 6 PROVE HexLine(c) = Failed
  <2>1. Mid(c, 6, 2) = <<>>
    BY <1>2, <1>5, FieldOfShort
  <2> HIDE DEF c
  <2> QED BY <2>1 DEF HexLine, Readable
<1>6. ASSUME d > 6
      PROVE  /\ Readable(Mid(c, 0, 2)) /\ Number(Mid(c, 0, 2)) = n
             /\ Readable(Mid(c, 2, 4)) /\ Number(Mid(c, 2, 4)) = block.address
  <2>1. /\ r \in Line /\ TwoAt(r.digits, 0, n) /\ n \in Byte
        /\ FourAt(r.digits, 2, block.address) /\ block.address \in Word
    BY <1>1, <1>2
  <2>2. 0 \in Nat /\ 2 \in Nat /\ 0 + 2 <= d /\ 2 + 4 <= d
    BY <1>3, <1>6
  <2>3. Readable(Mid(c, 0, 2)) /\ Number(Mid(c, 0, 2)) = n
    BY <2>1, <2>2, ByteField
  <2>4. Readable(Mid(c, 2, 4)) /\ Number(Mid(c, 2, 4)) = block.address
    BY <2>1, <2>2, WordField
  <2> QED BY <2>3, <2>4
<1>7. ASSUME NEW i \in 1 .. n, 8 + (2 * i) <= d
      PROVE  /\ Readable(Mid(c, 8 + (2 * (i - 1)), 2))
             /\ Number(Mid(c, 8 + (2 * (i - 1)), 2)) = block.data[i]
  <2>1. 8 + (2 * (i - 1)) \in Nat /\ 8 + (2 * (i - 1)) + 2 <= d
    BY <1>1, <1>3, <1>7
  <2> QED BY <1>1, <1>2, <2>1, ByteField
<1>8. Block(block.address, block.data) = block
  BY DEF Block, Chunk
<1> DEFINE e(i) == Number(Mid(c, 8 + (2 * (i - 1)), 2))
           bytes == DataAt(c, 8, n)
           b == Block(block.address, bytes)
<1>9. bytes = [i \in 1 .. n |-> e(i)]
  BY DEF DataAt
<1>10. ASSUME NEW i \in 1 .. n PROVE e(i) \in Byte
  <2>1. 8 + (2 * (i - 1)) \in Nat
    BY <1>1
  <2>2. /\ Mid(c, 8 + (2 * (i - 1)), 2) \in Seq(Digit)
        /\ Len(Mid(c, 8 + (2 * (i - 1)), 2)) <= 2
    <3>1. r \in Line /\ 2 \in Nat
      BY <1>2
    <3> QED BY <2>1, <3>1, MidOfShort
  <2> QED BY <2>2, NumberOfFew
<1>11. bytes \in Seq(Byte) /\ Len(bytes) = n
  <2> HIDE DEF e, bytes
  <2>1. bytes \in [1 .. n -> Byte]
    BY <1>9, <1>10
  <2> QED BY <1>1, <2>1, SeqDef
<1>12. ASSUME d >= (2 * n) + 7 PROVE Like("hex", b, block)
  <2>1. b \in Chunk /\ b.address = block.address /\ b.data = bytes
    BY <1>1, <1>11 DEF Block, Chunk
  <2>2. ASSUME NEW i \in 1 .. n, i # n PROVE bytes[i] = block.data[i]
    <3>1. 8 + (2 * i) <= d
      BY <1>1, <1>3, <1>12, <2>2
    <3>2. e(i) = block.data[i]
      BY <1>7, <3>1
    <3> HIDE DEF e, bytes
    <3> QED BY <1>9, <3>2
  <2> HIDE DEF b, bytes
  <2> QED BY <1>11, <2>1, <2>2 DEF Like, n
<1>13. ASSUME d >= (2 * n) + 8 PROVE b = block
  <2>1. ASSUME NEW i \in 1 .. n PROVE e(i) = block.data[i]
    <3>1. 8 + (2 * i) <= d
      BY <1>1, <1>3, <1>13
    <3> QED BY <1>7, <3>1
  <2>2. bytes = [i \in 1 .. n |-> block.data[i]]
    <3> HIDE DEF e, bytes
    <3> QED BY <1>9, <2>1
  <2>3. bytes = block.data
    <3> HIDE DEF bytes
    <3> QED BY <1>1, <2>2 DEF n
  <2> QED BY <1>8, <2>3
<1>14. ASSUME d > 6, HexLine(c) # Failed, HexLine(c) # Nothing
       PROVE  HexLine(c) = One(b) /\ DataReadable(c, 8, n)
  <2>1. /\ Readable(Mid(c, 0, 2)) /\ Number(Mid(c, 0, 2)) = n
        /\ Readable(Mid(c, 2, 4)) /\ Number(Mid(c, 2, 4)) = block.address
    BY <1>6, <1>14
  <2> HIDE DEF c
  <2> QED BY <1>14, <2>1 DEF HexLine, bytes, b
<1>15. ASSUME DataReadable(c, 8, n), d > 6 PROVE d >= (2 * n) + 7
  <2> SUFFICES ASSUME d < (2 * n) + 7 PROVE FALSE
    BY <1>1, <1>3
  <2>1. n \in 1 .. n /\ 8 + (2 * (n - 1)) \in Nat /\ d <= 8 + (2 * (n - 1))
    BY <1>1, <1>3, <1>15
  <2>2. Mid(c, 8 + (2 * (n - 1)), 2) = <<>>
    BY <1>2, <2>1, FieldOfShort
  <2> HIDE DEF c
  <2> QED BY <1>15, <2>1, <2>2 DEF DataReadable, Readable
<1>16. ASSUME d = (2 * n) + 10 PROVE HexLine(c) = One(block)
  <2>1. d > 6 /\ 6 + 2 <= d /\ d >= (2 * n) + 8
    BY <1>1, <1>16
  <2>2. Readable(Mid(c, 6, 2)) /\ Number(Mid(c, 6, 2)) = 0
    BY <1>2, <2>1, ByteField DEF Byte
  <2>3. DataReadable(c, 8, n)
    <3>1. ASSUME NEW i \in 1 .. n PROVE 8 + (2 * i) <= d
      BY <1>1, <1>3, <1>16
    <3> QED BY <1>7, <3>1 DEF DataReadable
  <2>4. /\ Readable(Mid(c, 0, 2)) /\ Number(Mid(c, 0, 2)) = n
        /\ Readable(Mid(c, 2, 4)) /\ Number(Mid(c, 2, 4)) = block.address
    BY <1>6, <2>1
  <2>5. HexLine(c) = One(b)
    <3> HIDE DEF c
    <3> QED BY <1>4, <2>2, <2>3, <2>4 DEF HexLine, bytes, b
  <2> QED BY <1>13, <2>1, <2>5
<1> HIDE DEF c, b
<1>17. \/ HexLine(c) \in {Failed, Nothing}
       \/ \E t : Like("hex", t, block) /\ HexLine(c) = One(t)
  <2>1. d <= 6 \/ d > 6
    BY <1>3
  <2> QED BY <1>5, <1>12, <1>14, <1>15, <2>1
<1> QED BY <1>2, <1>16, <1>17 DEF c

(* The lines around the records *)
LEMMA SrecOtherRead ==
  ASSUME NEW start \in Starts \ {"S1"}, NEW address \in Nat,
         NEW r, r = Record(start, 3, address, <<>>), NEW d \in 0 .. Len(r.digits)
  PROVE  /\ r \in Line
         /\ SrecLine(Short(r, d)) \in {Failed, Nothing}
         /\ d = Len(r.digits) => SrecLine(Short(r, d)) = Nothing
<1>1. r \in Line /\ r.start = start /\ Len(r.digits) = 8 /\ TwoAt(r.digits, 0, 3)
  <2>1. <<>> \in Seq(Digit) /\ Len(<<>>) = 0 /\ 3 \in Byte /\ start \in Starts
    BY DEF Byte
  <2>2. RecordOf(r, start, 3, address, <<>>)
    BY <2>1, RecordIs
  <2> QED BY <2>1, <2>2 DEF RecordOf
<1> DEFINE c == Short(r, d)
<1>2. c.start = start
  BY <1>1, ShortIs
<1>3. d = Len(r.digits) => Readable(Mid(c, 0, 2))
  BY <1>1, ByteField DEF Byte
<1> HIDE DEF c
<1>4. SrecLine(c) = IF Readable(Mid(c, 0, 2)) THEN Nothing ELSE Failed
  BY <1>2 DEF SrecLine
<1> QED BY <1>1, <1>3, <1>4 DEF c

LEMMA HexEndRead ==
  ASSUME NEW r, r = Record(":", 0, 0, Digits(1, 2)), NEW d \in 0 .. Len(r.digits)
  PROVE  /\ r \in Line
         /\ HexLine(Short(r, d)) \in NoBlock
         /\ d = Len(r.digits) => HexLine(Short(r, d)) = Nothing
<1> DEFINE x == Digits(1, 2)
           c == Short(r, d)
<1>1. x \in Seq(Digit) /\ Len(x) = 2 /\ TwoAt(x, 0, 1)
  BY DigitSequences DEF Byte
<1> HIDE DEF x
<1>2. /\ r \in Line /\ r.start = ":" /\ Len(r.digits) >= 8
      /\ TwoAt(r.digits, 0, 0) /\ FourAt(r.digits, 2, 0)
      /\ \A i \in 1 .. 2 : r.digits[6 + i] = x[i]
  <2>1. ":" \in Starts /\ 0 \in Byte /\ 0 \in Nat /\ 0 \in Word
    BY Words16 DEF Starts, Byte
  <2>2. RecordOf(Record(":", 0, 0, x), ":", 0, 0, x)
    BY <1>1, <2>1, RecordIs
  <2>3. RecordOf(r, ":", 0, 0, x)
    BY <2>2 DEF x
  <2> QED BY <1>1, <2>1, <2>3 DEF RecordOf
<1>3. TwoAt(r.digits, 6, 1)
  BY <1>1, <1>2 DEF TwoAt
<1>4. c.start = ":" /\ d \in Nat
  BY <1>2, ShortIs
<1>5. CASE d <= 6
  <2>1. Mid(c, 6, 2) = <<>>
    BY <1>2, <1>5, FieldOfShort
  <2> HIDE DEF c
  <2>2. HexLine(c) = Failed
    BY <2>1 DEF HexLine, Readable
  <2> QED BY <1>2, <1>5, <2>2 DEF c, NoBlock
<1>6. CASE d > 6
  <2>0. 0 \in Byte /\ 1 \in Byte /\ 0 \in Word /\ 0 + 2 <= d /\ 2 + 4 <= d
    BY <1>4, <1>6, Words16 DEF Byte
  <2>6. Readable(Mid(c, 0, 2)) /\ Number(Mid(c, 0, 2)) = 0
    BY <1>2, <2>0, ByteField
  <2>7. Readable(Mid(c, 2, 4)) /\ Number(Mid(c, 2, 4)) = 0
    BY <1>2, <2>0, WordField
  <2>1. /\ Readable(Mid(c, 0, 2)) /\ Number(Mid(c, 0, 2)) = 0
        /\ Readable(Mid(c, 2, 4)) /\ Number(Mid(c, 2, 4)) = 0
    BY <2>6, <2>7
  <2>2. DataAt(c, 8, 0) = <<>> /\ DataReadable(c, 8, 0)
    BY DEF DataAt, DataReadable
  <2>3. d = Len(r.digits) => Readable(Mid(c, 6, 2)) /\ Number(Mid(c, 6, 2)) = 1
    <3> SUFFICES ASSUME d = Len(r.digits)
                 PROVE  Readable(Mid(c, 6, 2)) /\ Number(Mid(c, 6, 2)) = 1
      OBVIOUS
    <3>1. 6 + 2 <= d
      BY <1>2, <1>4
    <3> QED BY <1>2, <1>3, <2>0, <3>1, ByteField
  <2> HIDE DEF c
  <2>4. HexLine(c) \in NoBlock
    BY <1>4, <2>1, <2>2 DEF HexLine, NoBlock
  <2>5. d = Len(r.digits) => HexLine(c) = Nothing
    BY <1>4, <2>1, <2>3 DEF HexLine
  <2> QED BY <1>2, <2>4, <2>5 DEF c
<1> QED BY <1>4, <1>5, <1>6

-----------------------------------------------------------------------------
(* The lines of a file, read one after another *)

(* f[i] is what the first i lines give. *)
IsReading(f, results, k) ==
  /\ f = [i \in 0 .. k |-> f[i]]
  /\ f[0] = <<>>
  /\ \A i \in 1 .. k : f[i] = f[i - 1] \o results[i].blocks

LEMMA ReadingExists ==
  ASSUME NEW results, NEW k \in Nat
  PROVE  \E f : IsReading(f, results, k)
<1> SUFFICES ASSUME ~ \E f : IsReading(f, results, k) PROVE FALSE
  OBVIOUS
<1> DEFINE T == {n \in Nat : ~ \E f : IsReading(f, results, n)}
<1>1. PICK m \in T : \A n \in T : m <= n
  <2>1. T \subseteq Nat /\ k \in T
    OBVIOUS
  <2> QED BY <2>1, Least
<1>2. m # 0
  <2> DEFINE f == [n \in 0 .. 0 |-> <<>>]
  <2>1. IsReading(f, results, 0)
    BY DEF IsReading
  <2> QED BY <2>1
<1>3. PICK f : IsReading(f, results, m - 1)
  BY <1>1, <1>2
<1> DEFINE g == [n \in 0 .. m |-> IF n = m THEN f[m - 1] \o results[m].blocks ELSE f[n]]
<1>4. IsReading(g, results, m)
  <2>1. g = [n \in 0 .. m |-> g[n]] /\ g[0] = <<>>
    BY <1>2, <1>3 DEF IsReading
  <2>2. ASSUME NEW n \in 1 .. m PROVE g[n] = g[n - 1] \o results[n].blocks
    <3>1. n - 1 \in 0 .. m - 1 /\ n \in 0 .. m /\ g[n - 1] = f[n - 1]
      BY <1>1
    <3>2. CASE n = m
      BY <3>1, <3>2
    <3>3. CASE n # m
      <4>1. n \in 1 .. m - 1 /\ g[n] = f[n]
        BY <1>1, <3>3
      <4>2. f[n] = f[n - 1] \o results[n].blocks
        BY <1>3, <4>1 DEF IsReading
      <4> QED BY <3>1, <4>1, <4>2
    <3> QED BY <3>2, <3>3
  <2> QED BY <2>1, <2>2 DEF IsReading
<1> QED BY <1>4

Results(format, lines) == [i \in 1 .. Len(lines) |-> LineOf(format, lines[i])]

LEMMA ReadLinesIs ==
  ASSUME NEW format, NEW lines, Len(lines) \in Nat, DOMAIN lines = 1 .. Len(lines)
  PROVE  /\ ReadLines(format, lines).ok =
               \A i \in 1 .. Len(lines) : Results(format, lines)[i].ok
         /\ \E f : /\ IsReading(f, Results(format, lines), Len(lines))
                   /\ ReadLines(format, lines).blocks = f[Len(lines)]
<1> DEFINE K == Len(lines)
           all == [i \in DOMAIN lines |->
                     IF format = "hex" THEN HexLine(lines[i]) ELSE SrecLine(lines[i])]
           Body(f) == [i \in 0 .. K |->
                         IF i = 0 THEN <<>> ELSE f[i - 1] \o all[i].blocks]
           blocks == CHOOSE f : f = Body(f)
<1>1. K \in Nat
  OBVIOUS
<1>2. PICK f : IsReading(f, all, K)
  BY <1>1, ReadingExists
<1>3. all = Results(format, lines)
  BY DEF LineOf, Results
<1>4. ReadLines(format, lines) =
        [ok |-> \A i \in DOMAIN lines : all[i].ok, blocks |-> blocks[K]]
  BY DEF ReadLines
<1> HIDE DEF all
<1>5. f = Body(f)
  <2> HIDE DEF K
  <2>1. ASSUME NEW n \in 0 .. K PROVE f[n] = Body(f)[n]
    <3>1. CASE n = 0
      BY <1>1, <1>2, <3>1 DEF IsReading
    <3>2. CASE n \in 1 .. K
      BY <1>1, <1>2, <3>2 DEF IsReading
    <3> QED BY <1>1, <3>1, <3>2
  <2>2. f = [n \in 0 .. K |-> f[n]]
    BY <1>2 DEF IsReading
  <2> QED BY <2>1, <2>2
<1>6. blocks = Body(blocks)
  BY <1>5
<1> HIDE DEF blocks
<1>7. IsReading(blocks, all, K)
  <2> HIDE DEF K
  <2>1. blocks[0] = <<>>
    BY <1>1, <1>6
  <2>2. ASSUME NEW i \in 1 .. K PROVE blocks[i] = blocks[i - 1] \o all[i].blocks
    <3>1. i \in 0 .. K /\ i # 0
      BY <1>1
    <3> QED BY <1>6, <3>1
  <2>3. blocks = [i \in 0 .. K |-> blocks[i]]
    BY <1>6
  <2> QED BY <2>1, <2>2, <2>3 DEF IsReading
<1>8. /\ ReadLines(format, lines).ok = \A i \in DOMAIN lines : all[i].ok
      /\ ReadLines(format, lines).blocks = blocks[K]
  BY <1>4
<1> QED BY <1>3, <1>7, <1>8

(* Each line gives a block or none. *)
Gives(results, k) ==
  \A i \in 1 .. k : \/ results[i].blocks = <<>>
                    \/ \E b \in Chunk : results[i].blocks = <<b>>

Elements(s) == {s[j] : j \in DOMAIN s}

LEMMA ElementsOfBoth ==
  ASSUME NEW s \in Seq(Chunk), NEW t \in Seq(Chunk)
  PROVE  s \o t \in Seq(Chunk) /\ Elements(s \o t) = Elements(s) \cup Elements(t)
<1>1. /\ s \o t \in Seq(Chunk) /\ Len(s \o t) = Len(s) + Len(t)
      /\ \A i \in 1 .. Len(s) + Len(t) :
           (s \o t)[i] = IF i <= Len(s) THEN s[i] ELSE t[i - Len(s)]
  BY ConcatProperties
<1> DEFINE u == s \o t
           m == Len(s)
           n == Len(t)
<1>2. /\ m \in Nat /\ n \in Nat /\ DOMAIN s = 1 .. m /\ DOMAIN t = 1 .. n
      /\ DOMAIN u = 1 .. m + n
  BY <1>1
<1>3. \A i \in 1 .. m + n : u[i] = IF i <= m THEN s[i] ELSE t[i - m]
  BY <1>1
<1> HIDE DEF u, m, n
<1>4. ASSUME NEW j \in 1 .. m + n PROVE u[j] \in Elements(s) \cup Elements(t)
  <2>1. CASE j <= m
    <3>1. j \in DOMAIN s /\ u[j] = s[j]
      BY <1>2, <1>3, <2>1
    <3> QED BY <3>1 DEF Elements
  <2>2. CASE ~(j <= m)
    <3>1. j - m \in DOMAIN t /\ u[j] = t[j - m]
      BY <1>2, <1>3, <2>2
    <3> QED BY <3>1 DEF Elements
  <2> QED BY <2>1, <2>2
<1>5. ASSUME NEW j \in 1 .. m PROVE s[j] \in Elements(u)
  <2>1. j \in DOMAIN u /\ u[j] = s[j]
    BY <1>2, <1>3
  <2> QED BY <2>1 DEF Elements
<1>6. ASSUME NEW j \in 1 .. n PROVE t[j] \in Elements(u)
  <2>1. m + j \in 1 .. m + n /\ ~(m + j <= m) /\ (m + j) - m = j
    BY <1>2
  <2>2. m + j \in DOMAIN u /\ u[m + j] = t[j]
    BY <1>2, <1>3, <2>1
  <2> QED BY <2>2 DEF Elements
<1>7. Elements(u) = Elements(s) \cup Elements(t)
  BY <1>2, <1>4, <1>5, <1>6 DEF Elements
<1> QED BY <1>1, <1>7 DEF u

LEMMA BlocksRead ==
  ASSUME NEW results, NEW k \in Nat, Gives(results, k),
         NEW f, IsReading(f, results, k)
  PROVE  /\ f[k] \in Seq(Chunk)
         /\ Elements(f[k]) = {b \in Chunk : \E i \in 1 .. k : results[i].blocks = <<b>>}
<1> DEFINE Found(n) == {b \in Chunk : \E i \in 1 .. n : results[i].blocks = <<b>>}
           Right(n) == f[n] \in Seq(Chunk) /\ Elements(f[n]) = Found(n)
           T == {n \in 0 .. k : ~Right(n)}
<1> HIDE DEF Right
<1>1. T = {}
  <2> SUFFICES ASSUME T # {} PROVE FALSE
    OBVIOUS
  <2>1. PICK m \in T : \A n \in T : m <= n
    <3>1. T \subseteq Nat
      OBVIOUS
    <3> QED BY <3>1, Least
  <2>2. m # 0
    <3>1. f[0] = <<>> /\ <<>> \in Seq(Chunk) /\ Elements(<<>>) = {}
      BY DEF IsReading, Elements
    <3>2. Found(0) = {}
      OBVIOUS
    <3>3. Right(0)
      BY <3>1, <3>2 DEF Right
    <3> QED BY <2>1, <3>3
  <2>3. m \in 1 .. k /\ m - 1 \in 0 .. k /\ m - 1 \notin T
    BY <2>1, <2>2
  <2>4. Right(m - 1)
    BY <2>3
  <2>9. f[m - 1] \in Seq(Chunk) /\ Elements(f[m - 1]) = Found(m - 1)
    BY <2>4 DEF Right
  <2> DEFINE g == results[m].blocks
  <2>5. f[m] = f[m - 1] \o g
    BY <2>3 DEF IsReading
  <2>6. /\ g \in Seq(Chunk) /\ Elements(g) = {b \in Chunk : g = <<b>>}
    <3>1. CASE g = <<>>
      <4>1. \A b \in Chunk : <<>> # <<b>>
        OBVIOUS
      <4>2. Elements(<<>>) = {}
        BY DEF Elements
      <4> HIDE DEF g
      <4> QED BY <3>1, <4>1, <4>2
    <3>2. CASE g # <<>>
      <4>1. PICK c \in Chunk : g = <<c>>
        BY <2>3, <3>2 DEF Gives
      <4> HIDE DEF g
      <4>2. <<c>> \in Seq(Chunk) /\ Elements(<<c>>) = {c}
        BY DEF Elements
      <4>3. \A b : <<c>> = <<b>> => b = c
        OBVIOUS
      <4> QED BY <4>1, <4>2, <4>3
    <3> QED BY <3>1, <3>2
  <2> HIDE DEF g
  <2>7. f[m] \in Seq(Chunk) /\ Elements(f[m]) = Found(m - 1) \cup Elements(g)
    <3> HIDE DEF Found
    <3>1. g \in Seq(Chunk)
      BY <2>6
    <3> QED BY <2>5, <2>9, <3>1, ElementsOfBoth
  <2>8. Found(m) = Found(m - 1) \cup Elements(g)
    <3>1. 1 .. m = (1 .. m - 1) \cup {m}
      BY <2>3
    <3> QED BY <2>6, <3>1 DEF g
  <2>10. Right(m)
    <3> HIDE DEF Found
    <3> QED BY <2>7, <2>8 DEF Right
  <2> QED BY <2>1, <2>10
<1>2. k \in 0 .. k
  OBVIOUS
<1>3. Right(k)
  BY <1>1, <1>2
<1> QED BY <1>3 DEF Right

-----------------------------------------------------------------------------
(* The files of blocks *)

Small(blocks) == \A k \in DOMAIN blocks : Len(blocks[k].data) <= 252

SrecRecord(block) ==
  Record("S1", Len(block.data) + 3, block.address, DataDigits(block))
HexRecord(block) ==
  Record(":", Len(block.data), block.address, Digits(0, 2) \o DataDigits(block))

LEMMA SrecRecordLine ==
  ASSUME NEW block \in Chunk, Len(block.data) <= 252
  PROVE  SrecRecord(block) \in Line
<1> DEFINE n == Len(block.data)
           x == DataDigits(block)
<1>1. n + 3 \in Byte /\ block.address \in Nat
  <2>1. block.data \in Seq(Byte) /\ block.address \in Word
    BY DEF Chunk
  <2>2. n \in Nat /\ n <= 252
    BY <2>1
  <2>3. \A k \in Nat : k <= 252 => k + 3 \in Byte
    BY DEF Byte
  <2>4. \A k \in Word : k \in Nat
    BY Words16
  <2> HIDE DEF n
  <2> QED BY <2>1, <2>2, <2>3, <2>4
<1>2. x \in Seq(Digit)
  BY DataDigitsAre
<1> DEFINE size == n + 3
<1> HIDE DEF x, size
<1>3. RecordOf(Record("S1", size, block.address, x), "S1", size, block.address, x)
  BY <1>1, <1>2, RecordIs DEF Starts, size
<1> QED BY <1>3 DEF RecordOf, SrecRecord, size, x

LEMMA EmptyRecordLine ==
  ASSUME NEW start \in Starts, NEW address \in Nat
  PROVE  Record(start, 3, address, <<>>) \in Line
<1>1. <<>> \in Seq(Digit) /\ 3 \in Byte
  BY DEF Byte
<1> QED BY <1>1, RecordIs DEF RecordOf

LEMMA SrecLinesAre ==
  ASSUME NEW blocks \in Seq(Chunk), Small(blocks), NEW lines, lines = SrecFile(blocks)
  PROVE  LET n == Len(blocks)
         IN  /\ lines \in Seq(Line) /\ Len(lines) = n + 3
             /\ lines[1] = Record("S0", 3, 0, <<>>)
             /\ \A k \in 1 .. n : lines[k + 1] = SrecRecord(blocks[k])
             /\ lines[n + 2] = Record("S5", 3, n, <<>>)
             /\ lines[n + 3] = Record("S9", 3, 0, <<>>)
<1> DEFINE n == Len(blocks)
           a == Record("S0", 3, 0, <<>>)
           b == [i \in 1 .. n |-> SrecRecord(blocks[i])]
           c == Record("S5", 3, n, <<>>)
           e == Record("S9", 3, 0, <<>>)
<1>1. n \in Nat /\ DOMAIN blocks = 1 .. n /\ \A k \in 1 .. n : blocks[k] \in Chunk
  OBVIOUS
<1>2. lines = <<a>> \o b \o <<c, e>>
  BY DEF SrecFile, SrecRecord
<1>3. a \in Line /\ c \in Line /\ e \in Line
  BY <1>1, EmptyRecordLine DEF Starts
<1> HIDE DEF n
<1>4. b \in Seq(Line) /\ Len(b) = n
  <2>1. \A i \in 1 .. n : SrecRecord(blocks[i]) \in Line
    BY <1>1, SrecRecordLine DEF Small
  <2>2. b \in [1 .. n -> Line]
    BY <2>1
  <2> HIDE DEF b
  <2> QED BY <1>1, <2>2, SeqDef
<1>5. \A i \in 1 .. n : b[i] = SrecRecord(blocks[i])
  OBVIOUS
<1> HIDE DEF a, b, c, e
<1> DEFINE ab == <<a>> \o b
<1>6. ab \in Seq(Line) /\ Len(ab) = n + 1 /\ ab[1] = a /\ \A i \in 1 .. n : ab[i + 1] = b[i]
  <2>1. <<a>> \in Seq(Line) /\ Len(<<a>>) = 1
    BY <1>3
  <2>2. /\ ab \in Seq(Line) /\ Len(ab) = Len(<<a>>) + Len(b)
        /\ \A i \in 1 .. Len(<<a>>) + Len(b) :
             ab[i] = IF i <= Len(<<a>>) THEN <<a>>[i] ELSE b[i - Len(<<a>>)]
    BY <1>4, <2>1, ConcatProperties
  <2> HIDE DEF ab
  <2>3. ab[1] = a
    BY <1>1, <1>4, <2>1, <2>2
  <2>4. ASSUME NEW i \in 1 .. n PROVE ab[i + 1] = b[i]
    <3>1. i + 1 \in 1 .. Len(<<a>>) + Len(b) /\ ~(i + 1 <= 1) /\ (i + 1) - 1 = i
      BY <1>1, <1>4, <2>1
    <3> QED BY <2>1, <2>2, <3>1
  <2> QED BY <1>1, <1>4, <2>1, <2>2, <2>3, <2>4
<1> HIDE DEF ab
<1> DEFINE l == ab \o <<c, e>>
<1>7. /\ l \in Seq(Line) /\ Len(l) = n + 3
      /\ \A i \in 1 .. n + 1 : l[i] = ab[i]
      /\ l[n + 2] = c /\ l[n + 3] = e
  <2>1. <<c, e>> \in Seq(Line) /\ Len(<<c, e>>) = 2
    BY <1>3
  <2>2. /\ l \in Seq(Line) /\ Len(l) = Len(ab) + Len(<<c, e>>)
        /\ \A i \in 1 .. Len(ab) + Len(<<c, e>>) :
             l[i] = IF i <= Len(ab) THEN ab[i] ELSE <<c, e>>[i - Len(ab)]
    BY <1>6, <2>1, ConcatProperties
  <2> HIDE DEF l
  <2>3. \A i \in 1 .. n + 1 : l[i] = ab[i]
    BY <1>1, <1>6, <2>1, <2>2
  <2>4. l[n + 2] = <<c, e>>[1]
    <3>1. n + 2 \in 1 .. Len(ab) + Len(<<c, e>>) /\ ~(n + 2 <= Len(ab)) /\ (n + 2) - Len(ab) = 1
      BY <1>1, <1>6, <2>1
    <3> QED BY <2>2, <3>1
  <2>5. l[n + 3] = <<c, e>>[2]
    <3>1. n + 3 \in 1 .. Len(ab) + Len(<<c, e>>) /\ ~(n + 3 <= Len(ab)) /\ (n + 3) - Len(ab) = 2
      BY <1>1, <1>6, <2>1
    <3> QED BY <2>2, <3>1
  <2>6. Len(l) = n + 3
    BY <1>1, <1>6, <2>1, <2>2
  <2> QED BY <2>2, <2>3, <2>4, <2>5, <2>6
<1>8. lines = l
  BY <1>2 DEF ab
<1> HIDE DEF l
<1>9. \A k \in 1 .. n : lines[k + 1] = SrecRecord(blocks[k])
  <2> TAKE k \in 1 .. n
  <2>1. k + 1 \in 1 .. n + 1
    BY <1>1
  <2> QED BY <1>5, <1>6, <1>7, <1>8, <2>1
<1>10. lines[1] = a
  <2>1. 1 \in 1 .. n + 1
    BY <1>1
  <2> QED BY <1>6, <1>7, <1>8, <2>1
<1> QED BY <1>7, <1>8, <1>9, <1>10 DEF n, a, c, e

LEMMA HexLinesAre ==
  ASSUME NEW blocks \in Seq(Chunk), Small(blocks), NEW lines, lines = HexFile(blocks)
  PROVE  LET n == Len(blocks)
         IN  /\ lines \in Seq(Line) /\ Len(lines) = n + 1
             /\ \A k \in 1 .. n : lines[k] = HexRecord(blocks[k])
             /\ lines[n + 1] = Record(":", 0, 0, Digits(1, 2))
<1> DEFINE n == Len(blocks)
           b == [i \in 1 .. n |-> HexRecord(blocks[i])]
           e == Record(":", 0, 0, Digits(1, 2))
           l == b \o <<e>>
<1>1. n \in Nat /\ DOMAIN blocks = 1 .. n /\ \A k \in 1 .. n : blocks[k] \in Chunk
  OBVIOUS
<1>2. lines = b \o <<e>>
  BY DEF HexFile, HexRecord
<1>3. e \in Line
  <2>1. Digits(1, 2) \in Seq(Digit) /\ 0 \in Byte /\ ":" \in Starts
    BY DigitSequences DEF Byte, Starts
  <2> QED BY <2>1, RecordIs DEF RecordOf
<1> HIDE DEF n
<1>4. b \in Seq(Line) /\ Len(b) = n
  <2>1. \A i \in 1 .. n : HexRecord(blocks[i]) \in Line
    BY <1>1, HexRecordIs DEF Small, HexRecord
  <2>2. b \in [1 .. n -> Line]
    BY <2>1
  <2> HIDE DEF b
  <2> QED BY <1>1, <2>2, SeqDef
<1>5. \A i \in 1 .. n : b[i] = HexRecord(blocks[i])
  OBVIOUS
<1> HIDE DEF b, e
<1>6. /\ l \in Seq(Line) /\ Len(l) = n + 1
      /\ \A i \in 1 .. n : l[i] = b[i]
      /\ l[n + 1] = e
  <2>1. <<e>> \in Seq(Line) /\ Len(<<e>>) = 1
    BY <1>3
  <2>2. /\ l \in Seq(Line) /\ Len(l) = Len(b) + Len(<<e>>)
        /\ \A i \in 1 .. Len(b) + Len(<<e>>) :
             l[i] = IF i <= Len(b) THEN b[i] ELSE <<e>>[i - Len(b)]
    BY <1>4, <2>1, ConcatProperties
  <2> HIDE DEF l
  <2>3. \A i \in 1 .. n : l[i] = b[i]
    BY <1>1, <1>4, <2>1, <2>2
  <2>4. l[n + 1] = <<e>>[1]
    <3>1. n + 1 \in 1 .. Len(b) + Len(<<e>>) /\ ~(n + 1 <= Len(b)) /\ (n + 1) - Len(b) = 1
      BY <1>1, <1>4, <2>1
    <3> QED BY <2>2, <3>1
  <2>5. Len(l) = n + 1
    BY <1>1, <1>4, <2>1, <2>2
  <2> QED BY <2>2, <2>3, <2>4, <2>5
<1>7. lines = l
  BY <1>2
<1> HIDE DEF l
<1> QED BY <1>5, <1>6, <1>7 DEF n, e

(* What a line of a file gives, cut short behind d digits: a block of those that
   were saved, or none. *)
GivesBlock(format, blocks, line, d) ==
  LET result == LineOf(format, Short(line, d))
  IN  /\ \/ result \in NoBlock
         \/ \E k \in DOMAIN blocks, b \in Chunk :
              Like(format, b, blocks[k]) /\ result = One(b)
      /\ d = Len(line.digits) =>
           \/ result = Nothing
           \/ \E k \in DOMAIN blocks : result = One(blocks[k])

LEMMA SrecFileGives ==
  ASSUME NEW blocks \in Seq(Chunk), Small(blocks), NEW format, format # "hex",
         NEW lines, lines = SrecFile(blocks)
  PROVE  /\ lines \in Seq(Line)
         /\ \A j \in DOMAIN lines : \A d \in 0 .. Len(lines[j].digits) :
              GivesBlock(format, blocks, lines[j], d)
         /\ \A k \in DOMAIN blocks : \E j \in DOMAIN lines :
              LineOf(format, lines[j]) = One(blocks[k])
<1> DEFINE n == Len(blocks)
<1>1. n \in Nat /\ DOMAIN blocks = 1 .. n /\ \A k \in 1 .. n : blocks[k] \in Chunk
  OBVIOUS
<1>2. /\ lines \in Seq(Line) /\ Len(lines) = n + 3
      /\ lines[1] = Record("S0", 3, 0, <<>>)
      /\ \A k \in 1 .. n : lines[k + 1] = SrecRecord(blocks[k])
      /\ lines[n + 2] = Record("S5", 3, n, <<>>)
      /\ lines[n + 3] = Record("S9", 3, 0, <<>>)
  BY SrecLinesAre
<1> HIDE DEF n
<1>3. DOMAIN lines = 1 .. n + 3
  BY <1>2
<1>4. ASSUME NEW k \in 1 .. n, NEW d \in 0 .. Len(SrecRecord(blocks[k]).digits)
      PROVE  /\ LineOf(format, Short(SrecRecord(blocks[k]), d)) \in {Failed, One(blocks[k])}
             /\ d = Len(SrecRecord(blocks[k]).digits) =>
                  LineOf(format, Short(SrecRecord(blocks[k]), d)) = One(blocks[k])
  <2>1. blocks[k] \in Chunk /\ Len(blocks[k].data) <= 252
    BY <1>1 DEF Small
  <2> QED BY <2>1, SrecRecordRead DEF LineOf, SrecRecord
<1>5. ASSUME NEW start \in Starts \ {"S1"}, NEW address \in Nat,
             NEW d \in 0 .. Len(Record(start, 3, address, <<>>).digits)
      PROVE  /\ LineOf(format, Short(Record(start, 3, address, <<>>), d)) \in NoBlock
             /\ d = Len(Record(start, 3, address, <<>>).digits) =>
                  LineOf(format, Short(Record(start, 3, address, <<>>), d)) = Nothing
  BY SrecOtherRead DEF LineOf, NoBlock
<1>6. ASSUME NEW j \in 1 .. n + 3, NEW d \in 0 .. Len(lines[j].digits)
      PROVE  GivesBlock(format, blocks, lines[j], d)
  <2>1. CASE j \in {1, n + 2, n + 3}
    <3>1. \E start \in Starts \ {"S1"}, address \in Nat :
            lines[j] = Record(start, 3, address, <<>>)
      BY <1>1, <1>2, <2>1 DEF Starts
    <3> QED BY <1>5, <3>1 DEF GivesBlock
  <2>2. CASE j \notin {1, n + 2, n + 3}
    <3>1. j - 1 \in 1 .. n /\ j = (j - 1) + 1
      BY <1>1, <2>2
    <3>2. lines[j] = SrecRecord(blocks[j - 1])
      BY <1>2, <3>1
    <3>3. blocks[j - 1] \in Chunk /\ Like(format, blocks[j - 1], blocks[j - 1])
      BY <1>1, <3>1, LikeItself
    <3> QED BY <1>1, <1>4, <3>1, <3>2, <3>3 DEF GivesBlock, NoBlock
  <2> QED BY <2>1, <2>2
<1>7. ASSUME NEW k \in 1 .. n
      PROVE  \E j \in 1 .. n + 3 : LineOf(format, lines[j]) = One(blocks[k])
  <2>1. k + 1 \in 1 .. n + 3 /\ lines[k + 1] \in Line /\ lines[k + 1] = SrecRecord(blocks[k])
    BY <1>1, <1>2, <1>3
  <2>2. Len(SrecRecord(blocks[k]).digits) \in 0 .. Len(SrecRecord(blocks[k]).digits)
    BY <2>1 DEF Line
  <2>3. LineOf(format, Short(SrecRecord(blocks[k]), Len(SrecRecord(blocks[k]).digits)))
          = One(blocks[k])
    BY <1>4, <2>2
  <2>4. LineOf(format, lines[k + 1]) = One(blocks[k])
    BY <2>1, <2>3, WholeLine
  <2> QED BY <2>1, <2>4
<1> QED BY <1>1, <1>2, <1>3, <1>6, <1>7

LEMMA HexFileGives ==
  ASSUME NEW blocks \in Seq(Chunk), Small(blocks),
         NEW lines, lines = HexFile(blocks)
  PROVE  /\ lines \in Seq(Line)
         /\ \A j \in DOMAIN lines : \A d \in 0 .. Len(lines[j].digits) :
              GivesBlock("hex", blocks, lines[j], d)
         /\ \A k \in DOMAIN blocks : \E j \in DOMAIN lines :
              LineOf("hex", lines[j]) = One(blocks[k])
<1> DEFINE n == Len(blocks)
<1>1. n \in Nat /\ DOMAIN blocks = 1 .. n /\ \A k \in 1 .. n : blocks[k] \in Chunk
  OBVIOUS
<1>2. /\ lines \in Seq(Line) /\ Len(lines) = n + 1
      /\ \A k \in 1 .. n : lines[k] = HexRecord(blocks[k])
      /\ lines[n + 1] = Record(":", 0, 0, Digits(1, 2))
  BY HexLinesAre
<1> HIDE DEF n
<1>3. DOMAIN lines = 1 .. n + 1
  BY <1>2
<1>4. ASSUME NEW k \in 1 .. n, NEW d \in 0 .. Len(HexRecord(blocks[k]).digits)
      PROVE  /\ \/ LineOf("hex", Short(HexRecord(blocks[k]), d)) \in {Failed, Nothing}
                \/ \E b : /\ Like("hex", b, blocks[k])
                          /\ LineOf("hex", Short(HexRecord(blocks[k]), d)) = One(b)
             /\ d = Len(HexRecord(blocks[k]).digits) =>
                  LineOf("hex", Short(HexRecord(blocks[k]), d)) = One(blocks[k])
  <2>1. blocks[k] \in Chunk /\ Len(blocks[k].data) <= 252
    BY <1>1 DEF Small
  <2> QED BY <2>1, HexRecordRead DEF LineOf, HexRecord
<1>5. ASSUME NEW d \in 0 .. Len(Record(":", 0, 0, Digits(1, 2)).digits)
      PROVE  /\ LineOf("hex", Short(Record(":", 0, 0, Digits(1, 2)), d)) \in NoBlock
             /\ d = Len(Record(":", 0, 0, Digits(1, 2)).digits) =>
                  LineOf("hex", Short(Record(":", 0, 0, Digits(1, 2)), d)) = Nothing
  BY HexEndRead DEF LineOf
<1>6. ASSUME NEW j \in 1 .. n + 1, NEW d \in 0 .. Len(lines[j].digits)
      PROVE  GivesBlock("hex", blocks, lines[j], d)
  <2>1. CASE j = n + 1
    BY <1>2, <1>5, <2>1 DEF GivesBlock
  <2>2. CASE j # n + 1
    <3>1. j \in 1 .. n /\ lines[j] = HexRecord(blocks[j])
      BY <1>1, <1>2, <2>2
    <3>2. CASE LineOf("hex", Short(HexRecord(blocks[j]), d)) \in {Failed, Nothing}
      BY <1>1, <1>4, <3>1, <3>2 DEF GivesBlock, NoBlock
    <3>3. CASE \E b : /\ Like("hex", b, blocks[j])
                      /\ LineOf("hex", Short(HexRecord(blocks[j]), d)) = One(b)
      <4>1. PICK b : /\ Like("hex", b, blocks[j])
                     /\ LineOf("hex", Short(HexRecord(blocks[j]), d)) = One(b)
        BY <3>3
      <4>2. b \in Chunk
        BY <4>1 DEF Like
      <4> QED BY <1>1, <1>4, <3>1, <4>1, <4>2 DEF GivesBlock
    <3> QED BY <1>4, <3>1, <3>2, <3>3
  <2> QED BY <2>1, <2>2
<1>7. ASSUME NEW k \in 1 .. n
      PROVE  \E j \in 1 .. n + 1 : LineOf("hex", lines[j]) = One(blocks[k])
  <2>1. k \in 1 .. n + 1 /\ lines[k] \in Line /\ lines[k] = HexRecord(blocks[k])
    BY <1>1, <1>2, <1>3
  <2>2. Len(HexRecord(blocks[k]).digits) \in 0 .. Len(HexRecord(blocks[k]).digits)
    BY <2>1 DEF Line
  <2>3. LineOf("hex", Short(HexRecord(blocks[k]), Len(HexRecord(blocks[k]).digits)))
          = One(blocks[k])
    BY <1>4, <2>2
  <2>4. LineOf("hex", lines[k]) = One(blocks[k])
    BY <2>1, <2>3, WholeLine
  <2> QED BY <2>1, <2>4
<1> QED BY <1>1, <1>2, <1>3, <1>6, <1>7

FileBlocks(name, blocks, lines) ==
  /\ lines \in Seq(Line)
  /\ \A j \in DOMAIN lines : \A d \in 0 .. Len(lines[j].digits) :
       GivesBlock(name, blocks, lines[j], d)
  /\ \A k \in DOMAIN blocks : \E j \in DOMAIN lines :
       LineOf(name, lines[j]) = One(blocks[k])

LEMMA FileGives ==
  ASSUME NEW blocks \in Seq(Chunk), Small(blocks), NEW name
  PROVE  FileBlocks(name, blocks, Format(name, blocks).lines)
<1>1. CASE name = "hex"
  <2>1. FileBlocks("hex", blocks, HexFile(blocks))
    BY HexFileGives DEF FileBlocks
  <2> QED BY <1>1, <2>1 DEF Format
<1>2. CASE name # "hex"
  <2>1. FileBlocks(name, blocks, SrecFile(blocks))
    BY <1>2, SrecFileGives DEF FileBlocks
  <2> QED BY <1>2, <2>1 DEF Format
<1> QED BY <1>1, <1>2

LEMMA ResultsAre ==
  /\ Failed.blocks = <<>> /\ Nothing.blocks = <<>> /\ Failed.ok = FALSE /\ Nothing.ok = TRUE
  /\ \A b : One(b).blocks = <<b>> /\ One(b).ok = TRUE
  /\ Block(0, <<>>) \in Chunk
  /\ \A b : <<b>> # <<>>
<1>1. Block(0, <<>>) \in Chunk
  <2>1. <<>> \in Seq(Byte) /\ 0 \in Word
    BY Words16
  <2> QED BY <2>1 DEF Block, Chunk
<1>2. \A b : <<b>> # <<>>
  OBVIOUS
<1> QED BY <1>1, <1>2 DEF Failed, Nothing, One

(* A file that was not cut gives the blocks that were saved. *)
LEMMA WholeFileRead ==
  ASSUME NEW blocks \in Seq(Chunk), NEW name, NEW lines, FileBlocks(name, blocks, lines)
  PROVE  /\ ReadLines(name, lines).ok = TRUE
         /\ ReadLines(name, lines).blocks \in Seq(Chunk)
         /\ Elements(ReadLines(name, lines).blocks) = Elements(blocks)
<1> DEFINE K == Len(lines)
           results == Results(name, lines)
<1>1. /\ lines \in Seq(Line)
      /\ \A j \in DOMAIN lines : \A d \in 0 .. Len(lines[j].digits) :
           GivesBlock(name, blocks, lines[j], d)
      /\ \A k \in DOMAIN blocks : \E j \in DOMAIN lines :
           LineOf(name, lines[j]) = One(blocks[k])
  BY DEF FileBlocks
<1>2. K \in Nat /\ DOMAIN lines = 1 .. K /\ \A j \in 1 .. K : lines[j] \in Line
  BY <1>1
<1>6. /\ ReadLines(name, lines).ok = \A i \in 1 .. K : results[i].ok
      /\ \E f : /\ IsReading(f, results, K)
                /\ ReadLines(name, lines).blocks = f[K]
  <2>1. Len(lines) \in Nat /\ DOMAIN lines = 1 .. Len(lines)
    BY <1>2
  <2>2. \E f : IsReading(f, results, Len(lines)) /\ ReadLines(name, lines).blocks = f[Len(lines)]
    BY <2>1, ReadLinesIs
  <2>3. ReadLines(name, lines).ok = \A i \in 1 .. Len(lines) : results[i].ok
    BY <2>1, ReadLinesIs
  <2> QED BY <2>2, <2>3
<1> HIDE DEF K
<1>3. ASSUME NEW j \in 1 .. K
      PROVE  results[j] = Nothing \/ \E k \in DOMAIN blocks : results[j] = One(blocks[k])
  <2>1. Len(lines[j].digits) \in 0 .. Len(lines[j].digits)
    BY <1>2 DEF Line
  <2>2. GivesBlock(name, blocks, lines[j], Len(lines[j].digits))
    BY <1>1, <1>2, <2>1
  <2>3. Short(lines[j], Len(lines[j].digits)) = lines[j]
    BY <1>2, WholeLine
  <2>4. results[j] = LineOf(name, lines[j])
    BY DEF Results, K
  <2> HIDE DEF results
  <2> QED BY <2>2, <2>3, <2>4 DEF GivesBlock
<1>4. \A k \in DOMAIN blocks : \E j \in 1 .. K : results[j] = One(blocks[k])
  BY <1>1, <1>2 DEF Results, K
<1>5. \A k \in DOMAIN blocks : blocks[k] \in Chunk
  OBVIOUS
<1> HIDE DEF results
<1>7. Gives(results, K)
  BY <1>3, <1>5, ResultsAre DEF Gives
<1>8. \A i \in 1 .. K : results[i].ok = TRUE
  BY <1>3, ResultsAre
<1>9. PICK f : IsReading(f, results, K) /\ ReadLines(name, lines).blocks = f[K]
  BY <1>6
<1>10. /\ f[K] \in Seq(Chunk)
       /\ Elements(f[K]) = {b \in Chunk : \E i \in 1 .. K : results[i].blocks = <<b>>}
  BY <1>2, <1>7, <1>9, BlocksRead
<1>11. \A b : (\E i \in 1 .. K : results[i].blocks = <<b>>) <=> b \in Elements(blocks)
  <2> TAKE b
  <2>1. ASSUME NEW i \in 1 .. K, results[i].blocks = <<b>> PROVE b \in Elements(blocks)
    <3>1. results[i] # Nothing
      BY <2>1, ResultsAre
    <3>2. PICK k \in DOMAIN blocks : results[i] = One(blocks[k])
      BY <1>3, <3>1
    <3>3. <<b>> = <<blocks[k]>>
      BY <2>1, <3>2, ResultsAre
    <3>4. b = blocks[k]
      BY <3>3
    <3> QED BY <3>4 DEF Elements
  <2>2. ASSUME b \in Elements(blocks) PROVE \E i \in 1 .. K : results[i].blocks = <<b>>
    BY <1>4, <2>2, ResultsAre DEF Elements
  <2> QED BY <2>1, <2>2
<1>12. Elements(blocks) \subseteq Chunk
  BY <1>5 DEF Elements
<1>13. Elements(f[K]) = Elements(blocks)
  BY <1>10, <1>11, <1>12
<1>14. ReadLines(name, lines).ok = TRUE
  BY <1>6, <1>8
<1> QED BY <1>9, <1>10, <1>13, <1>14

LEMMA CutLinesAre ==
  ASSUME NEW lines \in Seq(Line), NEW i \in DOMAIN lines,
         NEW d \in 0 .. Len(lines[i].digits)
  PROVE  /\ CutShort(lines, i, d) \in Seq(Line)
         /\ Len(CutShort(lines, i, d)) = i
         /\ \A j \in 1 .. i - 1 : CutShort(lines, i, d)[j] = lines[j]
         /\ CutShort(lines, i, d)[i] = Short(lines[i], d)
<1> DEFINE K == Len(lines)
           a == SubSeq(lines, 1, i - 1)
           e == Short(lines[i], d)
           l == a \o <<e>>
<1>1. K \in Nat /\ i \in 1 .. K /\ \A j \in 1 .. K : lines[j] \in Line
  OBVIOUS
<1> HIDE DEF K
<1>2. e \in Line
  BY <1>1, ShortIs
<1>3. CutShort(lines, i, d) = l
  BY DEF CutShort, Short
<1>4. a \in Seq(Line) /\ Len(a) = i - 1 /\ \A j \in 1 .. i - 1 : a[j] = lines[j]
  <2>1. /\ a \in Seq(Line) /\ Len(a) = IF 1 <= i - 1 THEN i - 1 - 1 + 1 ELSE 0
        /\ \A j \in 1 .. i - 1 - 1 + 1 : a[j] = lines[1 + j - 1]
    <3>1. 1 \in Int /\ i - 1 \in Int /\ \A j \in 1 .. i - 1 : lines[j] \in Line
      BY <1>1
    <3> QED BY <3>1, SubSeqProperties
  <2> HIDE DEF a
  <2>2. Len(a) = i - 1
    BY <1>1, <2>1
  <2>3. ASSUME NEW j \in 1 .. i - 1 PROVE a[j] = lines[j]
    <3>1. j \in 1 .. i - 1 - 1 + 1 /\ 1 + j - 1 = j
      BY <1>1
    <3> QED BY <2>1, <3>1
  <2> QED BY <2>1, <2>2, <2>3
<1> HIDE DEF a, e
<1>5. /\ l \in Seq(Line) /\ Len(l) = i
      /\ \A j \in 1 .. i - 1 : l[j] = a[j]
      /\ l[i] = e
  <2>1. <<e>> \in Seq(Line) /\ Len(<<e>>) = 1
    BY <1>2
  <2>2. /\ l \in Seq(Line) /\ Len(l) = Len(a) + Len(<<e>>)
        /\ \A j \in 1 .. Len(a) + Len(<<e>>) :
             l[j] = IF j <= Len(a) THEN a[j] ELSE <<e>>[j - Len(a)]
    BY <1>4, <2>1, ConcatProperties
  <2> HIDE DEF l
  <2>3. Len(l) = i
    BY <1>1, <1>4, <2>1, <2>2
  <2>4. \A j \in 1 .. i - 1 : l[j] = a[j]
    BY <1>1, <1>4, <2>1, <2>2
  <2>5. l[i] = <<e>>[1]
    <3>1. i \in 1 .. Len(a) + Len(<<e>>) /\ ~(i <= Len(a)) /\ i - Len(a) = 1
      BY <1>1, <1>4, <2>1
    <3> QED BY <2>2, <3>1
  <2> QED BY <2>2, <2>3, <2>4, <2>5
<1> HIDE DEF l
<1> QED BY <1>3, <1>4, <1>5 DEF e

(* A file that was cut gives blocks that were saved, but for one that may have
   another last byte, and nothing else. *)
LEMMA CutFileRead ==
  ASSUME NEW blocks \in Seq(Chunk), NEW name, NEW lines, FileBlocks(name, blocks, lines),
         NEW i \in DOMAIN lines, NEW d \in 0 .. Len(lines[i].digits),
         NEW cut, cut = CutShort(lines, i, d)
  PROVE  /\ ReadLines(name, cut).blocks \in Seq(Chunk)
         /\ \E last \in Chunk :
              /\ last.data = <<>> \/ \E k \in DOMAIN blocks : Like(name, last, blocks[k])
              /\ Elements(ReadLines(name, cut).blocks) \subseteq Elements(blocks) \cup {last}
<1> DEFINE results == Results(name, cut)
<1>1. /\ lines \in Seq(Line)
      /\ \A j \in DOMAIN lines : \A e \in 0 .. Len(lines[j].digits) :
           GivesBlock(name, blocks, lines[j], e)
  BY DEF FileBlocks
<1>2. /\ i \in Nat /\ i >= 1 /\ 1 .. i \subseteq DOMAIN lines
      /\ \A j \in DOMAIN lines : lines[j] \in Line
  BY <1>1
<1>3. /\ cut \in Seq(Line) /\ Len(cut) = i
      /\ \A j \in 1 .. i - 1 : cut[j] = lines[j]
      /\ cut[i] = Short(lines[i], d)
  BY <1>1, CutLinesAre
<1>4. ASSUME NEW j \in 1 .. i - 1
      PROVE  results[j] = Nothing \/ \E k \in DOMAIN blocks : results[j] = One(blocks[k])
  <2>1. j \in DOMAIN lines /\ lines[j] \in Line /\ j \in 1 .. i
    BY <1>2
  <2>2. Len(lines[j].digits) \in 0 .. Len(lines[j].digits)
    BY <2>1 DEF Line
  <2>3. GivesBlock(name, blocks, lines[j], Len(lines[j].digits))
    BY <1>1, <2>1, <2>2
  <2>4. Short(lines[j], Len(lines[j].digits)) = lines[j]
    BY <2>1, WholeLine
  <2>5. results[j] = LineOf(name, lines[j])
    BY <1>3, <2>1 DEF Results
  <2> HIDE DEF results
  <2> QED BY <2>3, <2>4, <2>5 DEF GivesBlock
<1>5. \/ results[i] \in NoBlock
      \/ \E k \in DOMAIN blocks, b \in Chunk :
           Like(name, b, blocks[k]) /\ results[i] = One(b)
  <2>1. GivesBlock(name, blocks, lines[i], d)
    BY <1>1
  <2>2. results[i] = LineOf(name, Short(lines[i], d))
    BY <1>2, <1>3 DEF Results
  <2> HIDE DEF results
  <2> QED BY <2>1, <2>2 DEF GivesBlock
<1>6. \A k \in DOMAIN blocks : blocks[k] \in Chunk
  OBVIOUS
<1>7. \E f : IsReading(f, results, i) /\ ReadLines(name, cut).blocks = f[i]
  <2>1. Len(cut) \in Nat /\ DOMAIN cut = 1 .. Len(cut)
    BY <1>3
  <2>2. \E f : IsReading(f, results, Len(cut)) /\ ReadLines(name, cut).blocks = f[Len(cut)]
    BY <2>1, ReadLinesIs
  <2> HIDE DEF results
  <2> QED BY <1>3, <2>2
<1> HIDE DEF results
<1>8. PICK last \in Chunk :
        /\ last.data = <<>> \/ \E k \in DOMAIN blocks : Like(name, last, blocks[k])
        /\ results[i].blocks = <<>> \/ results[i].blocks = <<last>>
  <2> DEFINE none == Block(0, <<>>)
  <2>1. none \in Chunk /\ none.data = <<>>
    BY ResultsAre DEF Block
  <2>2. CASE results[i] \in NoBlock
    <3>1. results[i].blocks = <<>> \/ results[i].blocks = <<none>>
      BY <2>2, ResultsAre DEF NoBlock
    <3> HIDE DEF none
    <3> QED BY <2>1, <3>1
  <2>3. CASE \E k \in DOMAIN blocks, b \in Chunk :
               Like(name, b, blocks[k]) /\ results[i] = One(b)
    BY <2>3, ResultsAre
  <2> QED BY <1>5, <2>2, <2>3
<1>9. ASSUME NEW j \in 1 .. i, NEW b, results[j].blocks = <<b>>
      PROVE  b \in Elements(blocks) \cup {last}
  <2>1. CASE j = i
    <3>1. <<b>> = <<last>>
      BY <1>8, <1>9, <2>1, ResultsAre
    <3>2. b = last
      BY <3>1
    <3> QED BY <3>2
  <2>2. CASE j # i
    <3>1. j \in 1 .. i - 1
      BY <1>2, <2>2
    <3>2. results[j] # Nothing
      BY <1>9, ResultsAre
    <3>3. PICK k \in DOMAIN blocks : results[j] = One(blocks[k])
      BY <1>4, <3>1, <3>2
    <3>4. <<b>> = <<blocks[k]>>
      BY <1>9, <3>3, ResultsAre
    <3>5. b = blocks[k]
      BY <3>4
    <3> QED BY <3>5 DEF Elements
  <2> QED BY <2>1, <2>2
<1>10. Gives(results, i)
  <2> SUFFICES ASSUME NEW j \in 1 .. i
               PROVE  results[j].blocks = <<>> \/ \E b \in Chunk : results[j].blocks = <<b>>
    BY DEF Gives
  <2>1. CASE j = i
    BY <1>8, <2>1
  <2>2. CASE j # i
    <3>1. j \in 1 .. i - 1
      BY <1>2, <2>2
    <3> QED BY <1>4, <1>6, <3>1, ResultsAre
  <2> QED BY <2>1, <2>2
<1>11. PICK f : IsReading(f, results, i) /\ ReadLines(name, cut).blocks = f[i]
  BY <1>7
<1>12. /\ f[i] \in Seq(Chunk)
       /\ Elements(f[i]) = {b \in Chunk : \E j \in 1 .. i : results[j].blocks = <<b>>}
  BY <1>2, <1>10, <1>11, BlocksRead
<1>13. Elements(f[i]) \subseteq Elements(blocks) \cup {last}
  BY <1>9, <1>12
<1> QED BY <1>8, <1>11, <1>12, <1>13

-----------------------------------------------------------------------------
(* The blocks of a range *)

LEMMA Numbers ==
  /\ End \in Nat /\ BlockSize \in Nat /\ MonitorStart \in Nat /\ MonitorEnd \in Nat
  /\ BlockSize > 0 /\ MonitorStart <= MonitorEnd /\ MonitorEnd < End
  /\ End <= 65535 - BlockSize /\ BlockSize <= 252
  /\ MonitorEnd + BlockSize <= End + 1
BY FilesAssumption

(* Remainders of a division by the size of a block *)
LEMMA Remainders ==
  ASSUME NEW n \in Nat, n > 0
  PROVE  /\ 0 % n = 0
         /\ \A i \in 1 .. n - 1 : i % n # 0
         /\ \A i \in Nat : (i + n) % n = i % n
<1>1. ASSUME NEW d \in Int, -n < d * n, d * n < n PROVE d = 0
  <2>1. CASE d >= 1
    <3>1. d * n >= n
      BY <2>1
    <3> QED BY <1>1, <3>1
  <2>2. CASE d <= -1
    <3>1. d * n <= -n
      BY <2>2
    <3> QED BY <1>1, <3>1
  <2> QED BY <2>1, <2>2
<1>2. ASSUME NEW i \in Nat
      PROVE  i \div n \in Int /\ i % n \in 0 .. n - 1 /\ i = (i \div n) * n + (i % n)
  OBVIOUS
<1>3. ASSUME NEW i \in Nat, NEW q \in Int, NEW r \in 0 .. n - 1, i = q * n + r
      PROVE  i % n = r
  <2> DEFINE p == i \div n
             s == i % n
  <2>1. p \in Int /\ s \in 0 .. n - 1 /\ i = p * n + s
    BY <1>2
  <2> HIDE DEF p, s
  <2>2. q * n \in Int /\ p * n \in Int /\ (q - p) * n = q * n - p * n
    BY <2>1
  <2>3. (q - p) * n = s - r
    BY <1>3, <2>1, <2>2
  <2>4. q - p = 0
    BY <1>1, <2>1, <2>3
  <2>5. (q - p) * n = 0
    BY <2>4
  <2>6. s = r
    BY <2>1, <2>3, <2>5
  <2> QED BY <2>6 DEF s
<1>4. 0 % n = 0
  <2>1. 0 = 0 * n + 0 /\ 0 \in 0 .. n - 1 /\ 0 \in Nat /\ 0 \in Int
    OBVIOUS
  <2> QED BY <1>3, <2>1
<1>5. ASSUME NEW i \in 1 .. n - 1 PROVE i % n # 0
  <2>1. i = 0 * n + i /\ i \in 0 .. n - 1 /\ i \in Nat /\ 0 \in Int
    OBVIOUS
  <2>2. i % n = i
    BY <1>3, <2>1
  <2> QED BY <2>2
<1>6. ASSUME NEW i \in Nat PROVE (i + n) % n = i % n
  <2> DEFINE p == i \div n
             s == i % n
  <2>1. p \in Int /\ s \in 0 .. n - 1 /\ i = p * n + s
    BY <1>2
  <2> HIDE DEF p, s
  <2>2. (p + 1) * n = p * n + n
    BY <2>1
  <2>3. i + n = (p + 1) * n + s /\ i + n \in Nat /\ p + 1 \in Int
    BY <2>1, <2>2
  <2>4. (i + n) % n = s
    BY <1>3, <2>1, <2>3
  <2> QED BY <2>4 DEF s
<1> QED BY <1>4, <1>5, <1>6

(* What save_ram_dialog saves from an address on, when f is what it saves from
   those behind it. *)
SavedFrom(f, ram, last, address) ==
  IF address >= last THEN <<>>
  ELSE IF address <= MonitorEnd /\ address + BlockSize >= MonitorStart
    THEN InFrontOfMonitor(ram, address) \o f[MonitorEnd + 1]
  ELSE LET count == Smaller(last - address + 1, BlockSize)
       IN  <<Copied(ram, address, count)>> \o f[address + count]

IsSaving(f, ram, last, low) ==
  \A address \in low .. End + 1 : f[address] = SavedFrom(f, ram, last, address)

LEMMA SavedFromLater ==
  ASSUME NEW ram, NEW last \in 0 .. End, NEW address \in 0 .. End + 1, NEW f, NEW g,
         \A a \in address + 1 .. End + 1 : f[a] = g[a]
  PROVE  SavedFrom(f, ram, last, address) = SavedFrom(g, ram, last, address)
<1> DEFINE count == Smaller(last - address + 1, BlockSize)
<1>1. CASE address >= last
  BY <1>1 DEF SavedFrom
<1>2. CASE address < last
  <2>1. address <= MonitorEnd => MonitorEnd + 1 \in address + 1 .. End + 1
    BY Numbers
  <2>2. address + count \in address + 1 .. End + 1
    BY <1>2, Numbers DEF Smaller
  <2>3. ~(address >= last)
    BY <1>2, Numbers
  <2>4. f[address + count] = g[address + count]
    BY <2>2
  <2>5. address <= MonitorEnd => f[MonitorEnd + 1] = g[MonitorEnd + 1]
    BY <2>1
  <2> QED BY <2>3, <2>4, <2>5 DEF SavedFrom
<1> QED BY <1>1, <1>2, Numbers

LEMMA SavingExists ==
  ASSUME NEW ram, NEW last \in 0 .. End
  PROVE  \E f : IsSaving(f, ram, last, 0)
<1> SUFFICES ASSUME ~ \E f : IsSaving(f, ram, last, 0) PROVE FALSE
  OBVIOUS
<1> DEFINE Low(n) == End + 1 - n
           T == {n \in 0 .. End + 1 : ~ \E f : IsSaving(f, ram, last, Low(n))}
<1>1. PICK m \in T : \A n \in T : m <= n
  <2>1. End + 1 \in 0 .. End + 1 /\ Low(End + 1) = 0
    BY Numbers
  <2>2. T \subseteq Nat /\ End + 1 \in T
    BY <2>1
  <2> HIDE DEF T
  <2> QED BY <2>2, Least
<1>2. m # 0
  <2> DEFINE f == [n \in {End + 1} |-> <<>>]
  <2>1. SavedFrom(f, ram, last, End + 1) = <<>>
    BY Numbers DEF SavedFrom
  <2>2. f[End + 1] = <<>>
    OBVIOUS
  <2> HIDE DEF f
  <2>3. Low(0) .. End + 1 = {End + 1}
    BY Numbers
  <2>4. IsSaving(f, ram, last, Low(0))
    BY <2>1, <2>2, <2>3 DEF IsSaving
  <2> QED BY <2>4
<1>3. m - 1 \in 0 .. End + 1 /\ m \in 0 .. End + 1 /\ m - 1 < m
  BY <1>1, <1>2, Numbers
<1>4. PICK f : IsSaving(f, ram, last, Low(m - 1))
  BY <1>1, <1>3
<1> DEFINE low == Low(m)
           g == [n \in low .. End + 1 |->
                   IF n = low THEN SavedFrom(f, ram, last, low) ELSE f[n]]
<1>5. low \in 0 .. End + 1 /\ Low(m - 1) = low + 1
  BY <1>3, Numbers
<1>8. IsSaving(f, ram, last, low + 1)
  BY <1>4, <1>5
<1> HIDE DEF low
<1>6. \A a \in low + 1 .. End + 1 : f[a] = g[a]
  BY <1>5, Numbers
<1>9. g[low] = SavedFrom(f, ram, last, low)
  BY <1>5, Numbers
<1> HIDE DEF g
<1>7. ASSUME NEW a \in low .. End + 1
      PROVE  g[a] = SavedFrom(g, ram, last, a)
  <2>1. a \in 0 .. End + 1 /\ \A b \in a + 1 .. End + 1 : b \in low + 1 .. End + 1
    BY <1>5, Numbers
  <2>2. SavedFrom(f, ram, last, a) = SavedFrom(g, ram, last, a)
    <3>1. \A b \in a + 1 .. End + 1 : f[b] = g[b]
      BY <1>6, <2>1
    <3> QED BY <2>1, <3>1, SavedFromLater
  <2>3. CASE a = low
    BY <1>9, <2>2, <2>3
  <2>4. CASE a # low
    <3>1. a \in low + 1 .. End + 1
      BY <1>5, <2>4, Numbers
    <3> QED BY <1>6, <1>8, <2>2, <3>1 DEF IsSaving
  <2> QED BY <2>3, <2>4
<1>10. IsSaving(g, ram, last, low)
  BY <1>7 DEF IsSaving
<1> QED BY <1>1, <1>10 DEF low

LEMMA SavedBlocksIs ==
  ASSUME NEW ram, NEW start \in 0 .. End + 1, NEW end \in 0 .. End
  PROVE  \E f : IsSaving(f, ram, end, 0) /\ SavedBlocks(ram, start, end) = f[start]
<1> DEFINE last == Smaller(End, end)
           Body(f) == [address \in 0 .. End + 1 |->
             IF address >= last THEN <<>>
             ELSE IF address <= MonitorEnd /\ address + BlockSize >= MonitorStart
               THEN InFrontOfMonitor(ram, address) \o f[MonitorEnd + 1]
             ELSE LET count == Smaller(last - address + 1, BlockSize)
                  IN  <<Copied(ram, address, count)>> \o f[address + count]]
           from == CHOOSE f : f = Body(f)
<1>1. SavedBlocks(ram, start, end) = from[start]
  BY DEF SavedBlocks
<1>2. last = end
  BY Numbers DEF Smaller
<1> HIDE DEF last
<1>3. \A f : Body(f) = [address \in 0 .. End + 1 |-> SavedFrom(f, ram, last, address)]
  BY DEF SavedFrom
<1> HIDE DEF Body
<1>4. PICK h : IsSaving(h, ram, last, 0)
  BY <1>2, SavingExists
<1> DEFINE g == [address \in 0 .. End + 1 |-> h[address]]
<1>5. g = Body(g)
  <2>1. ASSUME NEW a \in 0 .. End + 1 PROVE g[a] = SavedFrom(g, ram, last, a)
    <3>1. \A b \in a + 1 .. End + 1 : h[b] = g[b]
      BY Numbers
    <3>2. SavedFrom(h, ram, last, a) = SavedFrom(g, ram, last, a)
      BY <1>2, <3>1, SavedFromLater
    <3>3. g[a] = h[a] /\ h[a] = SavedFrom(h, ram, last, a)
      BY <1>4 DEF IsSaving
    <3> QED BY <3>2, <3>3
  <2>2. g = [address \in 0 .. End + 1 |-> SavedFrom(g, ram, last, address)]
    <3>1. g = [address \in 0 .. End + 1 |-> g[address]]
      OBVIOUS
    <3> HIDE DEF g
    <3> QED BY <2>1, <3>1
  <2> HIDE DEF g
  <2> QED BY <1>3, <2>2
<1> HIDE DEF g
<1>6. from = Body(from)
  BY <1>5
<1> HIDE DEF from
<1>7. IsSaving(from, ram, last, 0)
  <2>1. from = [address \in 0 .. End + 1 |-> SavedFrom(from, ram, last, address)]
    BY <1>3, <1>6
  <2>2. ASSUME NEW a \in 0 .. End + 1 PROVE from[a] = SavedFrom(from, ram, last, a)
    BY <2>1
  <2> QED BY <2>2 DEF IsSaving
<1> QED BY <1>1, <1>2, <1>7

LEMMA AddressesAreWords == Ram \subseteq Word
<1> SUFFICES ASSUME NEW a \in Ram PROVE a \in Word
  OBVIOUS
<1>1. a \in Int /\ a >= 0 /\ a <= 65535
  BY Numbers DEF Ram
<1> QED BY <1>1, Words16

LEMMA Wraps ==
  ASSUME NEW i \in Int, -65535 <= i, i <= 65535
  PROVE  (i % 65536) = IF i >= 0 THEN i ELSE i + 65536
OBVIOUS

(* A block of the RAM as it is *)
Saves(ram, b) ==
  /\ b \in Chunk /\ Len(b.data) <= 252 /\ b.address <= End /\ Cells(b) \subseteq Ram
  /\ \A a \in Cells(b) : b.data[a - b.address + 1] = ram[a]

LEMMA CopiedIs ==
  ASSUME NEW ram \in [Memory -> Byte], NEW address \in Ram, NEW n \in 0 .. BlockSize,
         address + n <= End + 1
  PROVE  /\ Saves(ram, Copied(ram, address, n))
         /\ Cells(Copied(ram, address, n)) = address .. address + n - 1
<1> DEFINE b == Copied(ram, address, n)
           data == [i \in 1 .. n |-> ram[address + i - 1]]
<1>1. b.address = address /\ b.data = data /\ b = Block(address, data)
  BY DEF Copied, Block
<1>2. \A i \in 1 .. n : ram[address + i - 1] \in Byte
  <2> TAKE i \in 1 .. n
  <2>1. address + i - 1 \in Memory
    BY Numbers DEF Memory, Ram
  <2> QED BY <2>1
<1>3. data \in [1 .. n -> Byte]
  BY <1>2
<1>4. n \in Nat
  BY Numbers
<1>5. \A i \in 1 .. n : data[i] = ram[address + i - 1]
  OBVIOUS
<1> HIDE DEF data
<1>6. data \in Seq(Byte) /\ Len(data) = n
  BY <1>3, <1>4, SeqDef
<1>7. b \in Chunk
  <2>1. address \in Word
    BY AddressesAreWords
  <2> QED BY <1>1, <1>6, <2>1 DEF Block, Chunk
<1> HIDE DEF b
<1>8. Cells(b) = address .. address + n - 1
  BY <1>1, <1>6 DEF Cells
<1>9. Cells(b) \subseteq Ram
  BY <1>8, Numbers DEF Ram
<1>10. ASSUME NEW a \in Cells(b) PROVE b.data[a - b.address + 1] = ram[a]
  <2>1. a - address + 1 \in 1 .. n /\ address + (a - address + 1) - 1 = a
    BY <1>4, <1>8 DEF Ram
  <2> QED BY <1>1, <1>5, <2>1
<1>11. Len(b.data) <= 252 /\ b.address <= End
  BY <1>1, <1>6, Numbers DEF Ram
<1> QED BY <1>7, <1>8, <1>9, <1>10, <1>11 DEF b, Saves

(* What the blocks cover that are saved from an address to the last one of a
   range *)
Covers(address, last) == IF address >= last THEN {} ELSE SavedAddresses(address, last)

(* Where a block in front of the monitor's RAM, or one inside it, leaves off *)
LEMMA NearCovers ==
  ASSUME NEW a \in Nat, NEW last \in 0 .. End, NEW n \in Nat, a < last,
         a <= MonitorEnd, a + BlockSize >= MonitorStart,
         a <= MonitorStart => n = MonitorStart - a,
         a > MonitorStart => n = BlockSize
  PROVE  Covers(a, last) = (a .. a + n - 1) \cup Covers(MonitorEnd + 1, last)
<1> DEFINE next == MonitorEnd + 1
<1>1. /\ 0 % BlockSize = 0
      /\ \A i \in 1 .. BlockSize - 1 : i % BlockSize # 0
  BY Numbers, Remainders
<1>2. LeftOut(next, last) = {c \in {last} \ MonitorRam : (c - next) % BlockSize = 0}
  BY Numbers DEF LeftOut
<1>3. Besides(next, last) = {} \/ next >= last
  BY Numbers DEF Besides, Interior, MonitorRam
<1>4. Covers(next, last) =
        IF next >= last THEN {}
        ELSE (next .. last) \ {c \in {last} : (c - next) % BlockSize = 0}
  BY <1>2, <1>3, Numbers DEF Covers, SavedAddresses, Wanted, MonitorRam
<1>5. Covers(a, last) = (Wanted(a, last) \ LeftOut(a, last)) \cup Besides(a, last)
  BY DEF Covers, SavedAddresses
<1>6. Wanted(a, last) =
        {c \in a .. last : c < MonitorStart} \cup {c \in a .. last : c >= next}
  BY Numbers DEF Wanted, MonitorRam
<1>7. CASE last > MonitorEnd
  <2>1. LeftOut(a, last) = {c \in {last} : (c - next) % BlockSize = 0}
    BY <1>7, Numbers DEF LeftOut, MonitorRam
  <2>2. Besides(a, last) = IF a > MonitorStart THEN a .. a + BlockSize - 1 ELSE {}
    BY <1>7, Numbers DEF Besides, Interior, MonitorRam
  <2>3. next = last => LeftOut(a, last) = {last}
    <3>1. next = last => last - next = 0
      BY Numbers
    <3> QED BY <1>1, <2>1, <3>1
  <2>4. Wanted(a, last) \ LeftOut(a, last) =
          {c \in a .. last : c < MonitorStart} \cup Covers(next, last)
    <3>1. {c \in a .. last : c >= next} = next .. last
      BY Numbers
    <3>2. CASE next = last
      BY <1>4, <1>6, <2>3, <3>1, <3>2, Numbers
    <3>3. CASE next < last
      BY <1>4, <1>6, <2>1, <3>1, <3>3, Numbers
    <3> QED BY <1>7, <3>2, <3>3, Numbers
  <2>5. a .. a + n - 1 = {c \in a .. last : c < MonitorStart} \cup Besides(a, last)
    BY <1>7, <2>2, Numbers
  <2> QED BY <1>5, <2>4, <2>5
<1>8. CASE last \in MonitorRam
  <2>1. LeftOut(a, last) = {} /\ Covers(next, last) = {}
    BY <1>4, <1>8, Numbers DEF LeftOut, MonitorRam
  <2>2. Besides(a, last) = IF a > MonitorStart THEN a .. a + BlockSize - 1 ELSE {}
    BY <1>8, Numbers DEF Besides, Interior, MonitorRam
  <2>3. Wanted(a, last) = {c \in a .. last : c < MonitorStart}
    BY <1>6, <1>8, Numbers DEF MonitorRam
  <2> QED BY <1>5, <1>8, <2>1, <2>2, <2>3, Numbers DEF MonitorRam
<1>9. CASE last < MonitorStart
  <2>1. LeftOut(a, last) = {}
    <3>1. last - a \in 1 .. BlockSize - 1
      BY <1>9, Numbers
    <3>2. LeftOut(a, last) = {c \in {last} \ MonitorRam : (c - a) % BlockSize = 0}
      BY <1>9, Numbers DEF LeftOut
    <3> QED BY <1>1, <3>1, <3>2
  <2>2. Besides(a, last) = last + 1 .. MonitorStart - 1
    <3>1. a \in a .. last - 1 /\ a - a = 0 /\ a \notin Interior
      BY <1>9, Numbers DEF Interior, MonitorRam
    <3>2. (a - a) % BlockSize = 0 /\ a + BlockSize >= MonitorStart
      BY <1>1, <3>1
    <3> QED BY <1>9, <3>1, <3>2 DEF Besides
  <2>3. Wanted(a, last) = a .. last /\ Covers(next, last) = {}
    BY <1>4, <1>6, <1>9, Numbers
  <2> QED BY <1>5, <1>9, <2>1, <2>2, <2>3, Numbers
<1> QED BY <1>7, <1>8, <1>9, Numbers DEF MonitorRam

(* Where any other block leaves off *)
LEMMA PlainCovers ==
  ASSUME NEW a \in Nat, NEW last \in 0 .. End, a < last,
         ~(a <= MonitorEnd /\ a + BlockSize >= MonitorStart),
         NEW n \in Nat, n = Smaller(last - a + 1, BlockSize)
  PROVE  Covers(a, last) = (a .. a + n - 1) \cup Covers(a + n, last)
<1> DEFINE next == a + n
           Chained(b, c) == (c - b) % BlockSize = 0
<1>1. /\ 0 % BlockSize = 0
      /\ \A i \in 1 .. BlockSize - 1 : i % BlockSize # 0
      /\ \A i \in Nat : (i + BlockSize) % BlockSize = i % BlockSize
  BY Numbers, Remainders
<1>2. \A c \in a + 1 .. a + BlockSize - 1 : ~Chained(a, c)
  <2> TAKE c \in a + 1 .. a + BlockSize - 1
  <2>1. c - a \in 1 .. BlockSize - 1
    BY Numbers
  <2> QED BY <1>1, <2>1
<1>3. Chained(a, a + BlockSize)
  <2>1. a + BlockSize - a = 0 + BlockSize /\ 0 \in Nat
    BY Numbers
  <2>2. (0 + BlockSize) % BlockSize = 0
    BY <1>1, <2>1
  <2> QED BY <2>1, <2>2, Numbers
<1>4. ASSUME NEW c \in Int, c >= a + BlockSize
      PROVE  Chained(a, c) <=> Chained(a + BlockSize, c)
  <2> DEFINE i == c - (a + BlockSize)
  <2>1. i \in Nat /\ c - a = i + BlockSize
    BY <1>4, Numbers
  <2> QED BY <1>1, <2>1
<1>5. Covers(a, last) = (Wanted(a, last) \ LeftOut(a, last)) \cup Besides(a, last)
  BY DEF Covers, SavedAddresses
<1>6. next > last \/ (n = BlockSize /\ next = last) \/ (n = BlockSize /\ next < last)
  BY Numbers DEF Smaller
<1>7. CASE next > last
  <2>1. last - a + 1 = n /\ last \in a + 1 .. a + BlockSize - 1
    BY <1>7, Numbers DEF Smaller
  <2>2. Covers(next, last) = {} /\ Wanted(a, last) = a .. last
    BY <1>7, <2>1, Numbers DEF Covers, Wanted, MonitorRam
  <2>3. LeftOut(a, last) = {}
    <3>1. LeftOut(a, last) = {c \in {last} \ MonitorRam : Chained(a, c)}
      BY <2>1, Numbers DEF LeftOut
    <3> QED BY <1>2, <2>1, <3>1
  <2>4. Besides(a, last) = {}
    <3>1. a \notin Interior
      BY Numbers DEF Interior, MonitorRam
    <3>2. ASSUME NEW c \in a .. last - 1, Chained(a, c), c + BlockSize >= MonitorStart,
                 last < MonitorStart
          PROVE  FALSE
      <4>1. c = a \/ c \in a + 1 .. a + BlockSize - 1
        BY <2>1, Numbers
      <4> QED BY <1>2, <3>2, <4>1, Numbers
    <3> QED BY <3>1, <3>2 DEF Besides
  <2> QED BY <1>5, <2>1, <2>2, <2>3, <2>4, Numbers
<1>8. CASE n = BlockSize /\ next = last
  <2>1. Covers(next, last) = {} /\ Wanted(a, last) = (a .. last) \ MonitorRam
    BY <1>8 DEF Covers, Wanted
  <2>2. (a .. last) \cap MonitorRam = {}
    BY <1>8, Numbers DEF MonitorRam
  <2>3. LeftOut(a, last) = {last}
    <3>1. LeftOut(a, last) = {c \in {last} \ MonitorRam : Chained(a, c)}
      BY <1>8, Numbers DEF LeftOut
    <3> QED BY <1>3, <1>8, <2>2, <3>1, Numbers
  <2>4. Besides(a, last) = {}
    <3>1. a \notin Interior
      BY Numbers DEF Interior, MonitorRam
    <3>2. ASSUME NEW c \in a .. last - 1, Chained(a, c), c + BlockSize >= MonitorStart,
                 last < MonitorStart
          PROVE  FALSE
      <4>1. c = a \/ c \in a + 1 .. a + BlockSize - 1
        BY <1>8, Numbers
      <4> QED BY <1>2, <3>2, <4>1, Numbers
    <3> QED BY <3>1, <3>2 DEF Besides
  <2> QED BY <1>5, <1>8, <2>1, <2>2, <2>3, <2>4, Numbers
<1>9. CASE n = BlockSize /\ next < last
  <2>1. LeftOut(a, last) = LeftOut(next, last)
    <3>1. CASE a <= MonitorEnd /\ last > MonitorEnd
      <4>1. next <= MonitorEnd
        BY <1>9, <3>1, Numbers
      <4> QED BY <3>1, <4>1 DEF LeftOut
    <3>2. CASE ~(a <= MonitorEnd /\ last > MonitorEnd)
      <4>1. ~(next <= MonitorEnd /\ last > MonitorEnd)
        BY <1>9, <3>2, Numbers
      <4>2. /\ LeftOut(a, last) = {c \in {last} \ MonitorRam : Chained(a, c)}
            /\ LeftOut(next, last) = {c \in {last} \ MonitorRam : Chained(next, c)}
        BY <3>2, <4>1 DEF LeftOut
      <4>3. Chained(a, last) <=> Chained(next, last)
        BY <1>4, <1>9, Numbers
      <4> HIDE DEF Chained
      <4> QED BY <4>2, <4>3
    <3> QED BY <3>1, <3>2
  <2>2. Besides(a, last) = Besides(next, last)
    <3>1. a \notin Interior /\ next \notin Interior
      BY <1>9, Numbers DEF Interior, MonitorRam
    <3>2. ASSUME last < MonitorStart
          PROVE  (\E c \in a .. last - 1 : Chained(a, c) /\ c + BlockSize >= MonitorStart)
                 <=> \E c \in next .. last - 1 : Chained(next, c) /\ c + BlockSize >= MonitorStart
      <4>1. ASSUME NEW c \in a .. last - 1, Chained(a, c), c + BlockSize >= MonitorStart
            PROVE  c \in next .. last - 1 /\ Chained(next, c)
        <5>1. c # a
          BY <3>2, <4>1, Numbers
        <5>2. c \in Int /\ c >= a + BlockSize
          BY <1>2, <4>1, <5>1, Numbers
        <5>3. Chained(a + BlockSize, c)
          <6> HIDE DEF Chained
          <6> QED BY <1>4, <4>1, <5>2
        <5> QED BY <1>9, <5>2, <5>3, Numbers
      <4>2. ASSUME NEW c \in next .. last - 1, Chained(next, c)
            PROVE  c \in a .. last - 1 /\ Chained(a, c)
        <5>1. c \in Int /\ c >= a + BlockSize
          BY <1>9, Numbers
        <5>2. c \in a .. last - 1
          BY <5>1, Numbers
        <5> QED BY <1>4, <1>9, <4>2, <5>1, <5>2
      <4> HIDE DEF Chained, next
      <4> QED BY <4>1, <4>2
    <3> QED BY <3>1, <3>2 DEF Besides
  <2>3. /\ Wanted(a, last) = (a .. next - 1) \cup Wanted(next, last)
        /\ LeftOut(next, last) \subseteq {last}
    BY <1>9, Numbers DEF Wanted, LeftOut, MonitorRam
  <2>4. Covers(next, last) =
          (Wanted(next, last) \ LeftOut(next, last)) \cup Besides(next, last)
    BY <1>9 DEF Covers, SavedAddresses
  <2>5. last \notin a .. next - 1
    BY <1>9
  <2> HIDE DEF next
  <2>6. Covers(a, last) = (a .. next - 1) \cup Covers(next, last)
    BY <1>5, <2>1, <2>2, <2>3, <2>4, <2>5
  <2> QED BY <2>6 DEF next
<1> QED BY <1>6, <1>7, <1>8, <1>9

SavedAt(blocks) == UNION {Cells(b) : b \in Elements(blocks)}

SavedRight(ram, address, last, blocks) ==
  /\ blocks \in Seq(Chunk)
  /\ \A b \in Elements(blocks) : Saves(ram, b)
  /\ SavedAt(blocks) = Covers(address, last)

LEMMA OneMore ==
  ASSUME NEW ram \in [Memory -> Byte], NEW address \in Ram, NEW n \in 0 .. BlockSize,
         address + n <= End + 1, NEW next, NEW last, NEW rest,
         SavedRight(ram, next, last, rest),
         Covers(address, last) = (address .. address + n - 1) \cup Covers(next, last)
  PROVE  SavedRight(ram, address, last, <<Copied(ram, address, n)>> \o rest)
<1> DEFINE b == Copied(ram, address, n)
           all == <<b>> \o rest
<1>1. Saves(ram, b) /\ Cells(b) = address .. address + n - 1
  BY CopiedIs
<1> HIDE DEF b
<1>2. /\ rest \in Seq(Chunk)
      /\ \A c \in Elements(rest) : Saves(ram, c)
      /\ SavedAt(rest) = Covers(next, last)
  BY DEF SavedRight
<1>3. <<b>> \in Seq(Chunk) /\ Elements(<<b>>) = {b}
  BY <1>1 DEF Elements, Saves
<1>4. all \in Seq(Chunk) /\ Elements(all) = {b} \cup Elements(rest)
  BY <1>2, <1>3, ElementsOfBoth
<1> HIDE DEF all
<1>5. SavedAt(all) = Cells(b) \cup SavedAt(rest)
  BY <1>4 DEF SavedAt
<1>6. SavedAt(all) = Covers(address, last)
  BY <1>1, <1>2, <1>5
<1> QED BY <1>1, <1>2, <1>4, <1>6 DEF SavedRight, all, b

LEMMA SavingRight ==
  ASSUME NEW ram \in [Memory -> Byte], NEW last \in 0 .. End,
         NEW f, IsSaving(f, ram, last, 0), NEW address \in 0 .. End + 1
  PROVE  SavedRight(ram, address, last, f[address])
<1> DEFINE Right(a) == SavedRight(ram, a, last, f[a])
           Low(n) == End + 1 - n
           T == {n \in 0 .. End + 1 : ~ Right(Low(n))}
<1> HIDE DEF Right
<1>1. ASSUME NEW a \in 0 .. End + 1, \A b \in a + 1 .. End + 1 : Right(b)
      PROVE  Right(a)
  <2>1. f[a] = SavedFrom(f, ram, last, a)
    BY DEF IsSaving
  <2>2. CASE a >= last
    <3>1. f[a] = <<>>
      BY <2>1, <2>2 DEF SavedFrom
    <3>2. <<>> \in Seq(Chunk) /\ Elements(<<>>) = {} /\ SavedAt(<<>>) = {}
      BY DEF Elements, SavedAt
    <3>3. Covers(a, last) = {}
      BY <2>2 DEF Covers
    <3>4. SavedRight(ram, a, last, <<>>)
      BY <3>2, <3>3 DEF SavedRight
    <3> QED BY <3>1, <3>4 DEF Right
  <2>3. CASE ~(a >= last) /\ a <= MonitorEnd /\ a + BlockSize >= MonitorStart
    <3> DEFINE n == Smaller((MonitorStart - a) % 65536, BlockSize)
               next == MonitorEnd + 1
    <3>1. f[a] = <<Copied(ram, a, n)>> \o f[next]
      BY <2>1, <2>3 DEF SavedFrom, InFrontOfMonitor
    <3>2. /\ a <= MonitorStart => n = MonitorStart - a
          /\ a > MonitorStart => n = BlockSize
      <4>1. CASE a <= MonitorStart
        <5>1. MonitorStart - a \in Int /\ MonitorStart - a >= 0 /\ MonitorStart - a <= 65535
              /\ -65535 <= MonitorStart - a
          BY <4>1, Numbers
        <5>2. ((MonitorStart - a) % 65536) = MonitorStart - a
          BY <5>1, Wraps
        <5>3. n = Smaller(MonitorStart - a, BlockSize)
          BY <5>2
        <5> QED BY <2>3, <4>1, <5>3, Numbers DEF Smaller
      <4>2. CASE a > MonitorStart
        <5>1. MonitorStart - a \in Int /\ ~(MonitorStart - a >= 0) /\ MonitorStart - a <= 65535
              /\ -(65535 - BlockSize) <= MonitorStart - a /\ -65535 <= MonitorStart - a
          BY <2>3, <4>2, Numbers
        <5>2. ((MonitorStart - a) % 65536) = MonitorStart - a + 65536
          BY <5>1, Wraps
        <5>3. n = Smaller(MonitorStart - a + 65536, BlockSize)
          BY <5>2
        <5> QED BY <5>1, <5>3, Numbers DEF Smaller
      <4> QED BY <4>1, <4>2, Numbers
    <3> HIDE DEF n
    <3>3. /\ a \in Ram /\ n \in 0 .. BlockSize /\ a + n <= End + 1
          /\ next \in a + 1 .. End + 1 /\ next \in 0 .. End + 1 /\ next >= a
          /\ last \in Nat
      BY <2>3, <3>2, Numbers DEF Ram
    <3>4. a \in Nat /\ a < last /\ n \in Nat
      BY <2>3, <3>3, Numbers
    <3>5. SavedRight(ram, next, last, f[next])
      BY <1>1, <3>3 DEF Right
    <3>6. Covers(a, last) = (a .. a + n - 1) \cup Covers(next, last)
      BY <2>3, <3>2, <3>4, NearCovers
    <3> HIDE DEF next
    <3>8. SavedRight(ram, a, last, <<Copied(ram, a, n)>> \o f[next])
      BY <3>3, <3>5, <3>6, OneMore
    <3> QED BY <3>1, <3>8 DEF Right
  <2>4. CASE ~(a >= last) /\ ~(a <= MonitorEnd /\ a + BlockSize >= MonitorStart)
    <3> DEFINE n == Smaller(last - a + 1, BlockSize)
               next == a + n
    <3>1. f[a] = <<Copied(ram, a, n)>> \o f[next]
      BY <2>1, <2>4 DEF SavedFrom
    <3>2. n \in 1 .. BlockSize /\ n <= last - a + 1
      BY <2>4, Numbers DEF Smaller
    <3> HIDE DEF n
    <3>3. /\ a \in Ram /\ n \in 0 .. BlockSize /\ a + n <= End + 1
          /\ next \in a + 1 .. End + 1 /\ next \in 0 .. End + 1 /\ next >= a
          /\ last \in Nat
      BY <2>4, <3>2, Numbers DEF Ram
    <3>4. a \in Nat /\ a < last /\ n \in Nat
      BY <2>4, <3>3, Numbers
    <3>5. SavedRight(ram, next, last, f[next])
      BY <1>1, <3>3 DEF Right
    <3>6. Covers(a, last) = (a .. a + n - 1) \cup Covers(next, last)
      BY <2>4, <3>2, <3>4, PlainCovers DEF n
    <3> HIDE DEF next
    <3>8. SavedRight(ram, a, last, <<Copied(ram, a, n)>> \o f[next])
      BY <3>3, <3>5, <3>6, OneMore
    <3> QED BY <3>1, <3>8 DEF Right
  <2> QED BY <2>2, <2>3, <2>4
<1>2. T = {}
  <2> SUFFICES ASSUME T # {} PROVE FALSE
    OBVIOUS
  <2>1. PICK m \in T : \A n \in T : m <= n
    <3>1. T \subseteq Nat
      OBVIOUS
    <3> QED BY <3>1, Least
  <2>2. m \in 0 .. End + 1 /\ Low(m) \in 0 .. End + 1 /\ ~ Right(Low(m))
    BY <2>1, Numbers
  <2>3. ASSUME NEW b \in Low(m) + 1 .. End + 1 PROVE Right(b)
    <3>1. Low(b) \in 0 .. End + 1 /\ Low(b) < m /\ Low(Low(b)) = b
      BY <2>2, Numbers
    <3>2. Low(b) \notin T
      BY <2>1, <2>2, <3>1
    <3> QED BY <3>1, <3>2
  <2> HIDE DEF Low
  <2> QED BY <1>1, <2>2, <2>3
<1>3. Low(address) \in 0 .. End + 1 /\ Low(Low(address)) = address
  BY Numbers
<1> QED BY <1>2, <1>3 DEF Right

(* The blocks of a range that the dialog accepts *)
LEMMA SavedBlocksRight ==
  ASSUME NEW ram \in [Memory -> Byte], NEW start \in Nat, NEW end \in Nat,
         Accepts(start, end)
  PROVE  /\ SavedRight(ram, start, end, SavedBlocks(ram, start, end))
         /\ Small(SavedBlocks(ram, start, end))
<1>1. start \in 0 .. End + 1 /\ end \in 0 .. End
  BY Numbers DEF Accepts
<1>2. SavedRight(ram, start, end, SavedBlocks(ram, start, end))
  BY <1>1, SavedBlocksIs, SavingRight
<1> QED BY <1>2 DEF SavedRight, Small, Elements, Saves

-----------------------------------------------------------------------------
(* Any file gives blocks of bytes, or none *)

LEMMA MidIs ==
  ASSUME NEW line \in Line, NEW from \in Nat, NEW count \in Nat
  PROVE  Mid(line, from, count) \in Seq(Digit) /\ Len(Mid(line, from, count)) <= count
<1>1. Len(line.digits) \in 0 .. Len(line.digits)
  BY DEF Line
<1>2. Short(line, Len(line.digits)) = line
  BY WholeLine
<1> QED BY <1>1, <1>2, MidOfShort

LEMMA NumberOfWord ==
  ASSUME NEW s \in Seq(Digit), Len(s) <= 4
  PROVE  Number(s) \in Word
<1> DEFINE k == Len(s)
<1>1. PICK f : IsNumber(f, s, k) /\ Number(s) = f[k]
  BY NumberIs
<1>2. k \in Nat /\ k <= 4 /\ \A i \in 1 .. k : s[i] \in Int /\ 0 <= s[i] /\ s[i] <= 15
  BY DEF Digit
<1> HIDE DEF k
<1>3. f[0] = 0 /\ \A i \in 1 .. k : f[i] = (16 * f[i - 1]) + s[i]
  BY <1>1 DEF IsNumber
<1>4. k >= 1 => f[1] \in Int /\ 0 <= f[1] /\ f[1] <= 15
  <2> SUFFICES ASSUME k >= 1 PROVE f[1] \in Int /\ 0 <= f[1] /\ f[1] <= 15
    OBVIOUS
  <2>1. 1 \in 1 .. k /\ 1 - 1 = 0
    BY <1>2
  <2> QED BY <1>2, <1>3, <2>1
<1>5. k >= 2 => f[2] \in Int /\ 0 <= f[2] /\ f[2] <= 255
  <2> SUFFICES ASSUME k >= 2 PROVE f[2] \in Int /\ 0 <= f[2] /\ f[2] <= 255
    OBVIOUS
  <2>1. 2 \in 1 .. k /\ 2 - 1 = 1
    BY <1>2
  <2>2. f[2] = (16 * f[1]) + s[2]
    BY <1>3, <2>1
  <2> QED BY <1>2, <1>4, <2>1, <2>2
<1>6. k >= 3 => f[3] \in Int /\ 0 <= f[3] /\ f[3] <= 4095
  <2> SUFFICES ASSUME k >= 3 PROVE f[3] \in Int /\ 0 <= f[3] /\ f[3] <= 4095
    OBVIOUS
  <2>1. 3 \in 1 .. k /\ 3 - 1 = 2
    BY <1>2
  <2>2. f[3] = (16 * f[2]) + s[3]
    BY <1>3, <2>1
  <2> QED BY <1>2, <1>5, <2>1, <2>2
<1>7. k >= 4 => f[4] \in Int /\ 0 <= f[4] /\ f[4] <= 65535
  <2> SUFFICES ASSUME k >= 4 PROVE f[4] \in Int /\ 0 <= f[4] /\ f[4] <= 65535
    OBVIOUS
  <2>1. 4 \in 1 .. k /\ 4 - 1 = 3
    BY <1>2
  <2>2. f[4] = (16 * f[3]) + s[4]
    BY <1>3, <2>1
  <2> QED BY <1>2, <1>6, <2>1, <2>2
<1>8. k = 0 \/ k = 1 \/ k = 2 \/ k = 3 \/ k = 4
  BY <1>2
<1>9. f[k] \in Int /\ 0 <= f[k] /\ f[k] <= 65535
  <2>1. CASE k = 0
    BY <1>3, <2>1
  <2>2. CASE k # 0
    BY <1>4, <1>5, <1>6, <1>7, <1>8, <2>2
  <2> QED BY <2>1, <2>2
<1> QED BY <1>1, <1>9, Words16

LEMMA DataAtIs ==
  ASSUME NEW line \in Line, NEW from \in Nat, NEW count \in Nat
  PROVE  DataAt(line, from, count) \in Seq(Byte)
<1>1. \A i \in 1 .. count : Number(Mid(line, from + 2 * (i - 1), 2)) \in Byte
  <2> TAKE i \in 1 .. count
  <2>1. from + 2 * (i - 1) \in Nat
    OBVIOUS
  <2>2. /\ Mid(line, from + 2 * (i - 1), 2) \in Seq(Digit)
        /\ Len(Mid(line, from + 2 * (i - 1), 2)) <= 2
    BY <2>1, MidIs
  <2> QED BY <2>2, NumberOfFew
<1>2. DataAt(line, from, count) \in [1 .. count -> Byte]
  BY <1>1 DEF DataAt
<1> QED BY <1>2, SeqDef

LEMMA LineGives ==
  ASSUME NEW format, NEW line \in Line
  PROVE  \/ LineOf(format, line).blocks = <<>>
         \/ \E b \in Chunk : LineOf(format, line).blocks = <<b>>
<1> DEFINE count == Number(Mid(line, 0, 2))
           address == Number(Mid(line, 2, 4))
           length == (count - 3) % 65536
           srec == DataAt(line, 6, length)
           hex == DataAt(line, 8, count)
<1>1. count \in Nat
  <2>1. Mid(line, 0, 2) \in Seq(Digit) /\ Len(Mid(line, 0, 2)) <= 2
    BY MidIs
  <2>2. count \in Byte
    BY <2>1, NumberOfFew
  <2> HIDE DEF count
  <2> QED BY <2>2 DEF Byte
<1>2. address \in Word
  <2>1. Mid(line, 2, 4) \in Seq(Digit) /\ Len(Mid(line, 2, 4)) <= 4
    BY MidIs
  <2> QED BY <2>1, NumberOfWord
<1>3. length \in Nat
  <2> HIDE DEF count
  <2> QED BY <1>1
<1>4. srec \in Seq(Byte) /\ hex \in Seq(Byte)
  <2> HIDE DEF count, length
  <2>1. 6 \in Nat /\ 8 \in Nat
    OBVIOUS
  <2> QED BY <1>1, <1>3, <2>1, DataAtIs
<1>5. SrecLine(line) \in {Failed, Nothing, One(Block(address, srec))}
  BY DEF SrecLine
<1>6. HexLine(line) \in {Failed, Nothing, One(Block(address, hex))}
  BY DEF HexLine
<1> HIDE DEF count, address, length, srec, hex
<1>7. Block(address, srec) \in Chunk /\ Block(address, hex) \in Chunk
  BY <1>2, <1>4 DEF Block, Chunk
<1> QED BY <1>5, <1>6, <1>7, ResultsAre DEF LineOf

LEMMA AnyFileRead ==
  ASSUME NEW format, NEW lines \in Seq(Line)
  PROVE  ReadLines(format, lines).blocks \in Seq(Chunk)
<1> DEFINE K == Len(lines)
           results == Results(format, lines)
<1>1. K \in Nat /\ DOMAIN lines = 1 .. K /\ \A j \in 1 .. K : lines[j] \in Line
  OBVIOUS
<1>2. Gives(results, K)
  <2> SUFFICES ASSUME NEW j \in 1 .. K
               PROVE  results[j].blocks = <<>> \/ \E b \in Chunk : results[j].blocks = <<b>>
    BY DEF Gives
  <2>1. results[j] = LineOf(format, lines[j])
    BY DEF Results
  <2> HIDE DEF results
  <2> QED BY <1>1, <2>1, LineGives
<1>3. PICK f : IsReading(f, results, K) /\ ReadLines(format, lines).blocks = f[K]
  BY <1>1, ReadLinesIs
<1> HIDE DEF results, K
<1> QED BY <1>1, <1>2, <1>3, BlocksRead

-----------------------------------------------------------------------------
(* Loading *)

(* r is the memory m with blocks of the set over it: a cell that one of them
   has is as in one of them, any other as it was. *)
Over(r, m, set) ==
  /\ r \in [Memory -> Byte]
  /\ \A a \in Memory :
       \/ r[a] = m[a] /\ \A b \in set : a \notin Cells(b)
       \/ \E b \in set : a \in Cells(b) /\ r[a] = b.data[a - b.address + 1]

LEMMA LoadBlockIs ==
  ASSUME NEW r, NEW m, NEW set, Over(r, m, set), NEW c \in Chunk
  PROVE  Over(LoadBlock(r, c), m, set \cup {c})
<1> DEFINE l == LoadBlock(r, c)
           At(a) == c.data[a - c.address + 1]
<1>1. r \in [Memory -> Byte] /\ DOMAIN r = Memory
  BY DEF Over
<1>2. l = [a \in Memory |-> IF a \in Cells(c) THEN At(a) ELSE r[a]]
  BY <1>1 DEF LoadBlock
<1>3. \A a \in Cells(c) : At(a) \in Byte
  <2> DEFINE data == c.data
             first == c.address
  <2>1. data \in Seq(Byte) /\ first \in Int
    BY Words16 DEF Chunk
  <2>2. Cells(c) = first .. first + Len(data) - 1
    BY DEF Cells
  <2> SUFFICES ASSUME NEW a \in Cells(c) PROVE data[a - first + 1] \in Byte
    OBVIOUS
  <2> HIDE DEF data, first
  <2>3. a - first + 1 \in 1 .. Len(data)
    BY <2>1, <2>2
  <2> QED BY <2>1, <2>3
<1> HIDE DEF At, l
<1>4. l \in [Memory -> Byte]
  BY <1>1, <1>2, <1>3
<1>5. ASSUME NEW a \in Memory
      PROVE  \/ l[a] = m[a] /\ \A b \in set \cup {c} : a \notin Cells(b)
             \/ \E b \in set \cup {c} : a \in Cells(b) /\ l[a] = b.data[a - b.address + 1]
  <2>1. CASE a \in Cells(c)
    BY <1>2, <2>1 DEF At
  <2>2. CASE a \notin Cells(c)
    <3>1. l[a] = r[a]
      BY <1>2, <2>2
    <3> QED BY <2>2, <3>1 DEF Over
  <2> QED BY <2>1, <2>2
<1> QED BY <1>4, <1>5 DEF Over, l

(* f[i] is the memory when the first i blocks are loaded. *)
IsLoading(f, m, blocks, k) ==
  /\ f = [i \in 0 .. k |-> f[i]]
  /\ f[0] = m
  /\ \A i \in 1 .. k : f[i] = LoadBlock(f[i - 1], blocks[i])

LEMMA LoadingExists ==
  ASSUME NEW m, NEW blocks, NEW k \in Nat
  PROVE  \E f : IsLoading(f, m, blocks, k)
<1> SUFFICES ASSUME ~ \E f : IsLoading(f, m, blocks, k) PROVE FALSE
  OBVIOUS
<1> DEFINE T == {n \in Nat : ~ \E f : IsLoading(f, m, blocks, n)}
<1>1. PICK j \in T : \A n \in T : j <= n
  <2>1. T \subseteq Nat /\ k \in T
    OBVIOUS
  <2> QED BY <2>1, Least
<1>2. j # 0
  <2> DEFINE f == [n \in 0 .. 0 |-> m]
  <2>1. IsLoading(f, m, blocks, 0)
    BY DEF IsLoading
  <2> QED BY <2>1
<1>3. PICK f : IsLoading(f, m, blocks, j - 1)
  BY <1>1, <1>2
<1> DEFINE g == [n \in 0 .. j |-> IF n = j THEN LoadBlock(f[j - 1], blocks[j]) ELSE f[n]]
<1>4. IsLoading(g, m, blocks, j)
  <2>1. g = [n \in 0 .. j |-> g[n]] /\ g[0] = m
    BY <1>2, <1>3 DEF IsLoading
  <2>2. ASSUME NEW n \in 1 .. j PROVE g[n] = LoadBlock(g[n - 1], blocks[n])
    <3>1. n - 1 \in 0 .. j - 1 /\ n \in 0 .. j /\ g[n - 1] = f[n - 1]
      BY <1>1
    <3>2. CASE n = j
      BY <3>1, <3>2
    <3>3. CASE n # j
      <4>1. n \in 1 .. j - 1 /\ g[n] = f[n]
        BY <1>1, <3>3
      <4>2. f[n] = LoadBlock(f[n - 1], blocks[n])
        BY <1>3, <4>1 DEF IsLoading
      <4> QED BY <3>1, <4>1, <4>2
    <3> QED BY <3>2, <3>3
  <2> QED BY <2>1, <2>2 DEF IsLoading
<1> QED BY <1>4

LEMMA LoadBlocksIs ==
  ASSUME NEW m, NEW blocks, Len(blocks) \in Nat
  PROVE  \E f : IsLoading(f, m, blocks, Len(blocks)) /\ LoadBlocks(m, blocks) = f[Len(blocks)]
<1> DEFINE K == Len(blocks)
           Body(f) == [i \in 0 .. K |->
                         IF i = 0 THEN m ELSE LoadBlock(f[i - 1], blocks[i])]
           loaded == CHOOSE f : f = Body(f)
<1>1. K \in Nat
  OBVIOUS
<1>2. PICK f : IsLoading(f, m, blocks, K)
  BY <1>1, LoadingExists
<1>3. LoadBlocks(m, blocks) = loaded[K]
  BY DEF LoadBlocks
<1> HIDE DEF K
<1>4. f = Body(f)
  <2>1. ASSUME NEW n \in 0 .. K PROVE f[n] = Body(f)[n]
    <3>1. CASE n = 0
      BY <1>1, <1>2, <3>1 DEF IsLoading
    <3>2. CASE n \in 1 .. K
      BY <1>1, <1>2, <3>2 DEF IsLoading
    <3> QED BY <1>1, <3>1, <3>2
  <2>2. f = [n \in 0 .. K |-> f[n]]
    BY <1>2 DEF IsLoading
  <2> QED BY <2>1, <2>2
<1>5. loaded = Body(loaded)
  BY <1>4
<1> HIDE DEF loaded
<1>6. IsLoading(loaded, m, blocks, K)
  <2>1. loaded[0] = m
    BY <1>1, <1>5
  <2>2. ASSUME NEW i \in 1 .. K PROVE loaded[i] = LoadBlock(loaded[i - 1], blocks[i])
    <3>1. i \in 0 .. K /\ i # 0
      BY <1>1
    <3> QED BY <1>5, <3>1
  <2>3. loaded = [i \in 0 .. K |-> loaded[i]]
    BY <1>5
  <2> QED BY <2>1, <2>2, <2>3 DEF IsLoading
<1> QED BY <1>3, <1>6 DEF K

LEMMA LoadBlocksOver ==
  ASSUME NEW m \in [Memory -> Byte], NEW blocks \in Seq(Chunk)
  PROVE  Over(LoadBlocks(m, blocks), m, Elements(blocks))
<1> DEFINE k == Len(blocks)
           First(n) == {blocks[i] : i \in 1 .. n}
<1>1. k \in Nat /\ DOMAIN blocks = 1 .. k /\ \A i \in 1 .. k : blocks[i] \in Chunk
  OBVIOUS
<1>2. PICK f : IsLoading(f, m, blocks, k) /\ LoadBlocks(m, blocks) = f[k]
  BY <1>1, LoadBlocksIs
<1> HIDE DEF k
<1> DEFINE Right(n) == Over(f[n], m, First(n))
           T == {n \in 0 .. k : ~Right(n)}
<1> HIDE DEF Right
<1>3. T = {}
  <2> SUFFICES ASSUME T # {} PROVE FALSE
    OBVIOUS
  <2>1. PICK j \in T : \A n \in T : j <= n
    <3>1. T \subseteq Nat
      OBVIOUS
    <3> QED BY <3>1, Least
  <2>2. j # 0
    <3>1. First(0) = {}
      OBVIOUS
    <3>2. f[0] = m
      BY <1>2 DEF IsLoading
    <3>3. Over(m, m, {})
      BY DEF Over
    <3>4. Right(0)
      BY <3>1, <3>2, <3>3 DEF Right
    <3> QED BY <2>1, <3>4
  <2>3. j \in 1 .. k /\ j - 1 \in 0 .. k /\ j - 1 \notin T
    BY <1>1, <2>1, <2>2
  <2>4. Over(f[j - 1], m, First(j - 1))
    BY <2>3 DEF Right
  <2>5. f[j] = LoadBlock(f[j - 1], blocks[j])
    BY <1>2, <2>3 DEF IsLoading
  <2>6. First(j) = First(j - 1) \cup {blocks[j]}
    <3>1. 1 .. j = (1 .. j - 1) \cup {j}
      BY <2>3
    <3> QED BY <3>1
  <2> HIDE DEF First
  <2>7. Over(f[j], m, First(j))
    BY <1>1, <2>3, <2>4, <2>5, <2>6, LoadBlockIs
  <2> QED BY <2>1, <2>7 DEF Right
<1>4. Right(k)
  BY <1>1, <1>3
<1>5. First(k) = Elements(blocks)
  BY <1>1 DEF Elements
<1> QED BY <1>2, <1>4, <1>5 DEF Right

-----------------------------------------------------------------------------
(* The files on the way *)

(* What is on the disk when the blocks of a range were saved, and cut short
   since then or not *)
SavedAs(ram, start, end, cut) ==
  /\ saved = [cells |-> ram, range |-> <<start, end>>, cut |-> cut]
  /\ ram \in [Memory -> Byte] /\ start \in Nat /\ end \in Nat /\ Accepts(start, end)
  /\ LET blocks == SavedBlocks(ram, start, end)
     IN  \/ ~cut /\ FileBlocks(disk.name, blocks, disk.lines)
         \/ /\ cut
            /\ \E lines : \E i \in DOMAIN lines : \E d \in 0 .. Len(lines[i].digits) :
                 /\ FileBlocks(disk.name, blocks, lines)
                 /\ disk.lines = CutShort(lines, i, d)

RamInv ==
  /\ cells \in [Memory -> Byte]
  /\ disk \in File
  /\ \/ saved = NotSaved
     \/ \E ram, start, end : \E cut \in BOOLEAN : SavedAs(ram, start, end, cut)

LEMMA InitialInv == RamInit => RamInv
<1> SUFFICES ASSUME RamInit PROVE RamInv
  OBVIOUS
<1>1. cells \in [Memory -> Byte]
  <2>1. 0 \in Byte /\ \A a \in Ram : Initial[a] \in Byte
    BY RamAssumption DEF Byte
  <2> QED BY <2>1 DEF RamInit
<1>2. disk \in File
  <2>1. <<>> \in Seq(Line)
    OBVIOUS
  <2> QED BY <2>1 DEF RamInit, File
<1> QED BY <1>1, <1>2 DEF RamInit, RamInv

LEMMA ProgramInv ==
  ASSUME RamInv, NEW a \in Written, Program(a)
  PROVE  RamInv'
<1>1. a \in Memory
  BY RamAssumption, Numbers DEF Memory, Ram
<1>2. cells' \in [Memory -> Byte]
  <2>1. cells \in [Memory -> Byte] /\ cells[a] \in Byte
    BY <1>1 DEF RamInv
  <2>2. 255 - cells[a] \in Byte
    BY <2>1 DEF Byte
  <2> QED BY <2>1, <2>2 DEF Program
<1>3. disk' = disk /\ saved' = saved
  BY DEF Program
<1> QED BY <1>2, <1>3 DEF RamInv, SavedAs

LEMMA SaveInv ==
  ASSUME RamInv, NEW name \in Names, NEW start \in Nat, NEW end \in Nat,
         Save(name, start, end)
  PROVE  RamInv' /\ SavedAs(cells, start, end, FALSE)'
<1> DEFINE blocks == SavedBlocks(cells, start, end)
<1>1. cells \in [Memory -> Byte] /\ Accepts(start, end) /\ cells' = cells
  BY DEF RamInv, Save
<1>2. blocks \in Seq(Chunk) /\ Small(blocks)
  BY <1>1, SavedBlocksRight DEF SavedRight
<1>3. /\ disk' = Format(name, blocks)
      /\ saved' = [cells |-> cells, range |-> <<start, end>>, cut |-> FALSE]
  BY DEF Save
<1> HIDE DEF blocks
<1>4. disk'.name = name /\ disk'.lines = Format(name, blocks).lines
  BY <1>3 DEF Format
<1>5. FileBlocks(name, blocks, disk'.lines)
  BY <1>2, <1>4, FileGives
<1>6. disk' \in File
  <2>1. disk'.lines \in Seq(Line)
    BY <1>5 DEF FileBlocks
  <2>2. disk' = [name |-> name, lines |-> disk'.lines]
    BY <1>3, <1>4 DEF Format
  <2> QED BY <2>1, <2>2 DEF File, Names
<1>7. SavedAs(cells, start, end, FALSE)'
  BY <1>1, <1>3, <1>4, <1>5 DEF SavedAs, blocks
<1>8. FALSE \in BOOLEAN
  OBVIOUS
<1> QED BY <1>1, <1>6, <1>7, <1>8 DEF RamInv

LEMMA CutInv ==
  ASSUME RamInv, NEW i \in DOMAIN disk.lines, NEW d \in 0 .. Len(disk.lines[i].digits),
         Cut(i, d)
  PROVE  RamInv' /\ saved'.cut
<1>0. saved # NotSaved /\ ~saved.cut
  BY DEF Cut
<1>1. PICK ram, start, end : \E c \in BOOLEAN : SavedAs(ram, start, end, c)
  BY <1>0 DEF RamInv
<1>15. PICK cut \in BOOLEAN : SavedAs(ram, start, end, cut)
  BY <1>1
<1> DEFINE blocks == SavedBlocks(ram, start, end)
           lines == disk.lines
<1>2. saved = [cells |-> ram, range |-> <<start, end>>, cut |-> cut] /\ ~saved.cut
  BY <1>0, <1>15 DEF SavedAs
<1>3. saved.cut = cut /\ ~cut
  BY <1>2
<1>4. FileBlocks(disk.name, blocks, lines)
  BY <1>3, <1>15 DEF SavedAs
<1>5. saved' = [cells |-> ram, range |-> <<start, end>>, cut |-> TRUE]
  <2>1. saved' = [saved EXCEPT !.cut = TRUE]
    BY DEF Cut
  <2> QED BY <1>2, <2>1
<1>6. lines \in Seq(Line) /\ disk = [name |-> disk.name, lines |-> lines]
  BY DEF RamInv, File
<1>7. disk' = [name |-> disk.name, lines |-> CutShort(lines, i, d)]
  <2>1. disk' = [disk EXCEPT !.lines = CutShort(lines, i, d)]
    BY DEF Cut
  <2> HIDE DEF lines
  <2> QED BY <1>6, <2>1
<1>8. CutShort(lines, i, d) \in Seq(Line)
  BY <1>6, CutLinesAre
<1>9. disk' \in File
  <2> HIDE DEF lines
  <2> QED BY <1>7, <1>8 DEF RamInv, File
<1>10. cells' = cells
  BY DEF Cut
<1>11. i \in DOMAIN lines /\ d \in 0 .. Len(lines[i].digits)
  OBVIOUS
<1>12. /\ disk'.name = disk.name
       /\ disk'.lines = CutShort(lines, i, d)
  BY <1>7
<1> HIDE DEF blocks, lines
<1>13. SavedAs(ram, start, end, TRUE)'
  <2>1. /\ ram \in [Memory -> Byte] /\ start \in Nat /\ end \in Nat /\ Accepts(start, end)
    BY <1>15 DEF SavedAs
  <2>2. \E l : \E j \in DOMAIN l : \E e \in 0 .. Len(l[j].digits) :
          /\ FileBlocks(disk'.name, blocks, l)
          /\ disk'.lines = CutShort(l, j, e)
    BY <1>4, <1>11, <1>12
  <2> QED BY <1>5, <2>1, <2>2 DEF SavedAs, blocks
<1>14. TRUE \in BOOLEAN /\ saved'.cut
  BY <1>5
<1> QED BY <1>9, <1>10, <1>13, <1>14 DEF RamInv

LEMMA LoadIs ==
  ASSUME RamInv, NEW clear \in BOOLEAN, Load(clear)
  PROVE  /\ Before(clear) \in [Memory -> Byte]
         /\ ReadDisk.blocks \in Seq(Chunk)
         /\ \/ cells' = Before(clear)
            \/ /\ ReadDisk.ok /\ cells' = LoadBlocks(Before(clear), ReadDisk.blocks)
               /\ Over(cells', Before(clear), Elements(ReadDisk.blocks))
<1>1. Before(clear) \in [Memory -> Byte]
  <2>1. cells \in [Memory -> Byte] /\ 0 \in Byte
    BY DEF RamInv, Byte
  <2>2. Cleared \in [Memory -> Byte]
    BY <2>1 DEF Cleared
  <2> QED BY <2>1, <2>2 DEF Before
<1>2. ReadDisk.blocks \in Seq(Chunk)
  <2>1. CASE disk.name \in {"s19", "hex"}
    <3>1. disk.lines \in Seq(Line)
      BY DEF RamInv, File
    <3> QED BY <2>1, <3>1, AnyFileRead DEF ReadDisk
  <2>2. CASE disk.name \notin {"s19", "hex"}
    <3>1. <<>> \in Seq(Chunk)
      OBVIOUS
    <3> QED BY <2>2, <3>1, ResultsAre DEF ReadDisk
  <2> QED BY <2>1, <2>2
<1>3. \/ cells' = Before(clear)
      \/ ReadDisk.ok /\ cells' = LoadBlocks(Before(clear), ReadDisk.blocks)
  BY DEF Load, Loaded
<1> QED BY <1>1, <1>2, <1>3, LoadBlocksOver

LEMMA LoadInv ==
  ASSUME RamInv, NEW clear \in BOOLEAN, Load(clear)
  PROVE  RamInv'
<1>1. cells' \in [Memory -> Byte]
  BY LoadIs DEF Over
<1>2. disk' = disk /\ saved' = saved
  BY DEF Load
<1> QED BY <1>1, <1>2 DEF RamInv, SavedAs

LEMMA StepInv == RamInv /\ [RamNext]_ramVars => RamInv'
<1> SUFFICES ASSUME RamInv, [RamNext]_ramVars PROVE RamInv'
  OBVIOUS
<1>1. ASSUME NEW a \in Written, Program(a) PROVE RamInv'
  BY <1>1, ProgramInv
<1>2. ASSUME NEW name \in Names, NEW range \in Ranges, Save(name, range[1], range[2])
      PROVE  RamInv'
  <2>1. range[1] \in Nat /\ range[2] \in Nat
    BY RamAssumption
  <2> QED BY <1>2, <2>1, SaveInv
<1>3. ASSUME NEW i \in DOMAIN disk.lines, NEW d \in 0 .. Len(disk.lines[i].digits), Cut(i, d)
      PROVE  RamInv'
  BY <1>3, CutInv
<1>4. ASSUME NEW file \in Foreign, Provide(file) PROVE RamInv'
  BY <1>4, RamAssumption DEF Provide, RamInv
<1>5. ASSUME NEW clear \in BOOLEAN, Load(clear) PROVE RamInv'
  BY <1>5, LoadInv
<1>6. CASE UNCHANGED ramVars
  BY <1>6 DEF ramVars, RamInv, SavedAs
<1> QED BY <1>1, <1>2, <1>3, <1>4, <1>5, <1>6 DEF RamNext

LEMMA AlwaysRamInv == RamSpec => []RamInv
BY InitialInv, StepInv, PTL DEF RamSpec

LEMMA SavedRange ==
  ASSUME RamInv, NEW name \in Names, NEW start \in Nat, NEW end \in Nat,
         Save(name, start, end)
  PROVE  RangeSaved
<1> DEFINE read == BlocksSaved
           blocks == SavedBlocks(cells, start, end)
<1>1. SavedAs(cells, start, end, FALSE)'
  BY SaveInv
<1>2. /\ saved'.range[1] = start /\ saved'.range[2] = end
      /\ cells' = cells /\ cells \in [Memory -> Byte] /\ Accepts(start, end)
      /\ FileBlocks(disk'.name, blocks, disk'.lines)
  BY <1>1 DEF SavedAs, Save, RamInv
<1>3. SavedRight(cells, start, end, blocks)
  BY <1>2, SavedBlocksRight
<1> HIDE DEF blocks
<1>4. read \in Seq(Chunk) /\ Elements(read) = Elements(blocks)
  <2>1. blocks \in Seq(Chunk)
    BY <1>3 DEF SavedRight
  <2>2. FileBlocks(disk'.name, blocks, disk'.lines)
    BY <1>2
  <2> QED BY <2>1, <2>2, WholeFileRead DEF BlocksSaved
<1>5. AddressesSaved = SavedAddresses(start, end)
  <2>1. AddressesSaved = SavedAt(blocks)
    BY <1>4 DEF AddressesSaved, SavedAt, Elements
  <2>2. Covers(start, end) = SavedAddresses(start, end)
    BY <1>2 DEF Accepts, Covers
  <2> QED BY <1>3, <2>1, <2>2 DEF SavedRight
<1>6. \A i \in DOMAIN read : \A a \in Cells(read[i]) :
        read[i].data[a - read[i].address + 1] = cells[a]
  <2>1. ASSUME NEW i \in DOMAIN read PROVE Saves(cells, read[i])
    BY <1>3, <1>4 DEF SavedRight, Elements
  <2> QED BY <2>1 DEF Saves
<1> QED BY <1>2, <1>5, <1>6 DEF RangeSaved

(* Save RAM writes, in both formats, so that it reads back as it is, the range
   without the monitor's RAM and without a last byte that would be a block of its
   own, and besides the rest of the block at the monitor's RAM, at exactly these
   addresses: whatever the RAM holds, for every range, size of the RAM and of a
   block. *)
THEOREM RangeAlwaysSaved == RamSpec => SavesRange
<1>1. RamInv /\ [RamNext]_ramVars => [RangeSaved]_ramVars
  <2> SUFFICES ASSUME RamInv, [RamNext]_ramVars PROVE UNCHANGED ramVars \/ RangeSaved
    BY DEF ramVars
  <2>1. ASSUME saved' = saved \/ saved' = NotSaved \/ saved'.cut PROVE RangeSaved
    BY <2>1 DEF RangeSaved, JustSaved
  <2>2. ASSUME NEW name \in Names, NEW range \in Ranges, Save(name, range[1], range[2])
        PROVE  RangeSaved
    <3>1. range[1] \in Nat /\ range[2] \in Nat
      BY RamAssumption
    <3> QED BY <2>2, <3>1, SavedRange
  <2>3. ASSUME NEW i \in DOMAIN disk.lines, NEW d \in 0 .. Len(disk.lines[i].digits),
               Cut(i, d)
        PROVE  RangeSaved
    BY <2>1, <2>3, CutInv
  <2>4. ASSUME NEW a \in Written, Program(a) PROVE RangeSaved
    BY <2>1, <2>4 DEF Program
  <2>5. ASSUME NEW file \in Foreign, Provide(file) PROVE RangeSaved
    BY <2>1, <2>5 DEF Provide
  <2>6. ASSUME NEW clear \in BOOLEAN, Load(clear) PROVE RangeSaved
    BY <2>1, <2>6 DEF Load
  <2> QED BY <2>2, <2>3, <2>4, <2>5, <2>6 DEF RamNext
<1> QED BY <1>1, AlwaysRamInv, PTL DEF RamSpec, SavesRange

(* The blocks hold what was saved, but at one address, in Intel's format, when
   the file was cut. *)
Sound(blocks, ram, odd, oneMore) ==
  \A b \in blocks :
    /\ Cells(b) \subseteq Ram
    /\ \A a \in Cells(b) : b.data[a - b.address + 1] = ram[a] \/ (oneMore /\ a = odd)

LEMMA WholeSound ==
  ASSUME NEW ram, NEW start, NEW end, SavedAs(ram, start, end, FALSE),
         disk.name \in {"s19", "hex"}
  PROVE  /\ ReadDisk.ok
         /\ ReadDisk.blocks \in Seq(Chunk)
         /\ \A b \in Elements(ReadDisk.blocks) : Saves(ram, b)
         /\ SavedAt(ReadDisk.blocks) = SavedAddresses(start, end)
<1> DEFINE blocks == SavedBlocks(ram, start, end)
<1>1. /\ ram \in [Memory -> Byte] /\ start \in Nat /\ end \in Nat /\ Accepts(start, end)
      /\ FileBlocks(disk.name, blocks, disk.lines)
  BY DEF SavedAs
<1>2. SavedRight(ram, start, end, blocks)
  BY <1>1, SavedBlocksRight
<1>3. ReadDisk = ReadLines(disk.name, disk.lines)
  BY DEF ReadDisk
<1> HIDE DEF blocks
<1>4. /\ ReadDisk.ok /\ ReadDisk.blocks \in Seq(Chunk)
      /\ Elements(ReadDisk.blocks) = Elements(blocks)
  <2>1. blocks \in Seq(Chunk)
    BY <1>2 DEF SavedRight
  <2> DEFINE name == disk.name
             lines == disk.lines
  <2>2. FileBlocks(name, blocks, lines)
    BY <1>1
  <2>3. ReadDisk = ReadLines(name, lines)
    BY <1>3
  <2> HIDE DEF name, lines
  <2>4. /\ ReadLines(name, lines).ok = TRUE
        /\ ReadLines(name, lines).blocks \in Seq(Chunk)
        /\ Elements(ReadLines(name, lines).blocks) = Elements(blocks)
    BY <2>1, <2>2, WholeFileRead
  <2> QED BY <2>3, <2>4
<1>5. SavedAt(blocks) = SavedAddresses(start, end)
  BY <1>1, <1>2 DEF SavedRight, Covers, Accepts
<1>6. SavedAt(ReadDisk.blocks) = SavedAt(blocks)
  BY <1>4 DEF SavedAt
<1> QED BY <1>2, <1>4, <1>5, <1>6 DEF SavedRight

LEMMA CutSound ==
  ASSUME NEW ram, NEW start, NEW end, SavedAs(ram, start, end, TRUE),
         disk.name \in {"s19", "hex"}
  PROVE  \E odd : Sound(Elements(ReadDisk.blocks), ram, odd, disk.name = "hex")
<1> DEFINE blocks == SavedBlocks(ram, start, end)
<1>1. ram \in [Memory -> Byte] /\ start \in Nat /\ end \in Nat /\ Accepts(start, end)
  BY DEF SavedAs
<1>2. SavedRight(ram, start, end, blocks)
  BY <1>1, SavedBlocksRight
<1>3. ReadDisk.blocks = ReadLines(disk.name, disk.lines).blocks
  BY DEF ReadDisk
<1>4. PICK lines : \E i \in DOMAIN lines : \E d \in 0 .. Len(lines[i].digits) :
        /\ FileBlocks(disk.name, blocks, lines)
        /\ disk.lines = CutShort(lines, i, d)
  BY DEF SavedAs
<1> HIDE DEF blocks
<1>5. PICK i \in DOMAIN lines : \E d \in 0 .. Len(lines[i].digits) :
        /\ FileBlocks(disk.name, blocks, lines)
        /\ disk.lines = CutShort(lines, i, d)
  BY <1>4
<1>6. PICK d \in 0 .. Len(lines[i].digits) :
        /\ FileBlocks(disk.name, blocks, lines)
        /\ disk.lines = CutShort(lines, i, d)
  BY <1>5
<1>7. PICK last \in Chunk :
        /\ last.data = <<>> \/ \E k \in DOMAIN blocks : Like(disk.name, last, blocks[k])
        /\ Elements(ReadDisk.blocks) \subseteq Elements(blocks) \cup {last}
  <2>1. blocks \in Seq(Chunk)
    BY <1>2 DEF SavedRight
  <2> QED BY <1>3, <1>6, <2>1, CutFileRead
<1>8. \A b \in Elements(blocks) : Saves(ram, b)
  BY <1>2 DEF SavedRight
<1> DEFINE odd == last.address + Len(last.data) - 1
<1>9. /\ Cells(last) \subseteq Ram
      /\ \A a \in Cells(last) :
           \/ last.data[a - last.address + 1] = ram[a]
           \/ disk.name = "hex" /\ a = odd
  <2>1. CASE last.data = <<>>
    <3>1. last.address \in Int /\ Len(last.data) = 0
      BY <2>1, Words16 DEF Chunk
    <3>2. Cells(last) = {}
      BY <3>1 DEF Cells
    <3> QED BY <3>2
  <2>2. CASE \E k \in DOMAIN blocks : Like(disk.name, last, blocks[k])
    <3>1. PICK k \in DOMAIN blocks : Like(disk.name, last, blocks[k])
      BY <2>2
    <3> DEFINE b == blocks[k]
               n == Len(last.data)
               first == last.address
    <3>2. Saves(ram, b)
      BY <1>8 DEF Elements
    <3>3. /\ first = b.address /\ n = Len(b.data)
          /\ \A j \in 1 .. n : last.data[j] # b.data[j] => disk.name = "hex" /\ j = n
      BY <3>1 DEF Like
    <3>4. n \in Nat /\ first \in Int
      BY Words16 DEF Chunk
    <3>5. Cells(last) = Cells(b) /\ Cells(last) = first .. first + n - 1 /\ odd = first + n - 1
      BY <3>3 DEF Cells
    <3>6. Cells(b) \subseteq Ram /\ \A a \in Cells(b) : b.data[a - first + 1] = ram[a]
      BY <3>2, <3>3 DEF Saves
    <3> HIDE DEF b, n, first, odd
    <3>7. ASSUME NEW a \in Cells(last)
          PROVE  last.data[a - first + 1] = ram[a] \/ (disk.name = "hex" /\ a = odd)
      <4>1. a - first + 1 \in 1 .. n /\ (a - first + 1 = n => a = first + n - 1)
        BY <3>4, <3>5
      <4> QED BY <3>3, <3>5, <3>6, <4>1
    <3> QED BY <3>5, <3>6, <3>7 DEF first
  <2> QED BY <1>7, <2>1, <2>2
<1>10. Sound(Elements(blocks) \cup {last}, ram, odd, disk.name = "hex")
  BY <1>8, <1>9 DEF Sound, Saves
<1> HIDE DEF odd
<1>11. Sound(Elements(ReadDisk.blocks), ram, odd, disk.name = "hex")
  BY <1>7, <1>10 DEF Sound
<1> QED BY <1>11

(* A load of a file that Save RAM wrote, whole or cut short *)
LEMMA LoadedFrom ==
  ASSUME RamInv, NEW clear \in BOOLEAN, Load(clear),
         NEW ram, NEW start, NEW end, NEW cut \in BOOLEAN, SavedAs(ram, start, end, cut)
  PROVE  /\ \A a \in Memory \ Ram : cells'[a] = Before(clear)[a]
         /\ \E odd : \A a \in Memory :
              \/ cells'[a] \in {Before(clear)[a], ram[a]}
              \/ disk.name = "hex" /\ cut /\ a = odd
         /\ disk.name \in {"s19", "hex"} /\ ~cut =>
              \A a \in Memory : cells'[a] =
                IF a \in SavedAddresses(start, end) THEN ram[a] ELSE Before(clear)[a]
<1> DEFINE before == Before(clear)
           blocks == Elements(ReadDisk.blocks)
           format == disk.name
<1>1. \/ cells' = before
      \/ ReadDisk.ok /\ Over(cells', before, blocks)
  BY LoadIs
<1>2. ReadDisk.ok => format \in {"s19", "hex"}
  BY ResultsAre DEF ReadDisk
<1>3. ASSUME format \in {"s19", "hex"}
      PROVE  \E odd : Sound(blocks, ram, odd, format = "hex" /\ cut)
  <2>1. CASE cut
    <3>1. SavedAs(ram, start, end, TRUE)
      BY <2>1
    <3>2. PICK odd : Sound(blocks, ram, odd, format = "hex")
      BY <1>3, <3>1, CutSound
    <3>3. Sound(blocks, ram, odd, format = "hex" /\ cut)
      BY <2>1, <3>2 DEF Sound
    <3> QED BY <3>3
  <2>2. CASE ~cut
    <3>1. SavedAs(ram, start, end, FALSE)
      BY <2>2
    <3>2. \A b \in blocks : Saves(ram, b)
      BY <1>3, <3>1, WholeSound
    <3>3. Sound(blocks, ram, 0, format = "hex" /\ cut)
      BY <3>2 DEF Saves, Sound
    <3> QED BY <3>3
  <2> QED BY <2>1, <2>2
<1>4. /\ \A a \in Memory \ Ram : cells'[a] = before[a]
      /\ \E odd : \A a \in Memory :
           \/ cells'[a] \in {before[a], ram[a]}
           \/ format = "hex" /\ cut /\ a = odd
  <2>1. CASE cells' = before
    BY <2>1
  <2>2. CASE ReadDisk.ok /\ Over(cells', before, blocks)
    <3>1. PICK odd : Sound(blocks, ram, odd, format = "hex" /\ cut)
      BY <1>2, <1>3, <2>2
    <3> HIDE DEF before, blocks, format
    <3>2. \A a \in Memory :
            \/ cells'[a] = before[a]
            \/ \E b \in blocks : a \in Cells(b) /\ cells'[a] = b.data[a - b.address + 1]
      BY <2>2 DEF Over
    <3>3. \A a \in Memory \ Ram : cells'[a] = before[a]
      BY <3>1, <3>2 DEF Sound
    <3>4. \A a \in Memory :
            \/ cells'[a] \in {before[a], ram[a]}
            \/ format = "hex" /\ cut /\ a = odd
      BY <3>1, <3>2 DEF Sound
    <3> QED BY <3>3, <3>4
  <2> QED BY <1>1, <2>1, <2>2
<1>5. ASSUME format \in {"s19", "hex"}, ~cut, NEW a \in Memory
      PROVE  cells'[a] = IF a \in SavedAddresses(start, end) THEN ram[a] ELSE before[a]
  <2>1. SavedAs(ram, start, end, FALSE)
    BY <1>5
  <2>2. /\ ReadDisk.ok /\ ReadDisk.blocks \in Seq(Chunk)
        /\ \A b \in blocks : Saves(ram, b)
        /\ a \in SavedAddresses(start, end) <=> \E b \in blocks : a \in Cells(b)
    <3>1. /\ ReadDisk.ok /\ ReadDisk.blocks \in Seq(Chunk)
          /\ \A b \in blocks : Saves(ram, b)
          /\ SavedAt(ReadDisk.blocks) = SavedAddresses(start, end)
      BY <1>5, <2>1, WholeSound
    <3>2. a \in SavedAt(ReadDisk.blocks) <=> \E b \in blocks : a \in Cells(b)
      BY DEF SavedAt
    <3> QED BY <3>1, <3>2
  <2>3. cells' = LoadBlocks(before, ReadDisk.blocks)
    <3>1. \A i \in DOMAIN ReadDisk.blocks : ReadDisk.blocks[i].address <= End
      BY <2>2 DEF Elements, Saves
    <3> QED BY <2>2, <3>1 DEF Load, Loaded
  <2>4. before \in [Memory -> Byte]
    BY LoadIs
  <2>5. Over(cells', before, blocks)
    BY <2>2, <2>3, <2>4, LoadBlocksOver
  <2> HIDE DEF before, blocks
  <2> QED BY <1>5, <2>2, <2>5 DEF Over, Saves
<1> QED BY <1>4, <1>5

LEMMA LoadRight == ASSUME RamInv PROVE SavedLoaded
<1> SUFFICES ASSUME NEW clear \in BOOLEAN, Load(clear)
    PROVE  LET before == Before(clear)
               restored == SavedAddresses(saved.range[1], saved.range[2])
               odd == {a \in Memory : cells'[a] \notin {before[a], saved.cells[a]}}
           IN  /\ cells' # before => cells' = LoadBlocks(before, ReadDisk.blocks)
               /\ saved # NotSaved =>
                    /\ \A a \in Memory \ Ram : cells'[a] = before[a]
                    /\ \/ odd = {}
                       \/ disk.name = "hex" /\ saved.cut /\ \E a \in odd : odd = {a}
                    /\ disk.name \in {"s19", "hex"} /\ ~saved.cut =>
                         \A a \in Memory :
                           cells'[a] = IF a \in restored THEN saved.cells[a] ELSE before[a]
  BY DEF SavedLoaded
<1> DEFINE before == Before(clear)
           restored == SavedAddresses(saved.range[1], saved.range[2])
           strange == {a \in Memory : cells'[a] \notin {before[a], saved.cells[a]}}
<1>1. cells' # before => cells' = LoadBlocks(before, ReadDisk.blocks)
  BY LoadIs
<1>2. ASSUME saved # NotSaved
      PROVE  /\ \A a \in Memory \ Ram : cells'[a] = before[a]
             /\ \/ strange = {}
                \/ disk.name = "hex" /\ saved.cut /\ \E a \in strange : strange = {a}
             /\ disk.name \in {"s19", "hex"} /\ ~saved.cut =>
                  \A a \in Memory :
                    cells'[a] = IF a \in restored THEN saved.cells[a] ELSE before[a]
  <2>1. PICK ram, start, end : \E c \in BOOLEAN : SavedAs(ram, start, end, c)
    BY <1>2 DEF RamInv
  <2>2. PICK cut \in BOOLEAN : SavedAs(ram, start, end, cut)
    BY <2>1
  <2>3. /\ saved.cells = ram /\ saved.cut = cut
        /\ saved.range[1] = start /\ saved.range[2] = end
    BY <2>2 DEF SavedAs
  <2>4. /\ \A a \in Memory \ Ram : cells'[a] = before[a]
        /\ \E odd : \A a \in Memory :
             \/ cells'[a] \in {before[a], ram[a]}
             \/ disk.name = "hex" /\ cut /\ a = odd
        /\ disk.name \in {"s19", "hex"} /\ ~cut =>
             \A a \in Memory : cells'[a] =
               IF a \in SavedAddresses(start, end) THEN ram[a] ELSE before[a]
    BY <2>2, LoadedFrom
  <2>5. PICK odd : \A a \in Memory :
                     \/ cells'[a] \in {before[a], ram[a]}
                     \/ disk.name = "hex" /\ cut /\ a = odd
    BY <2>4
  <2> HIDE DEF before
  <2>6. \A a \in strange : disk.name = "hex" /\ saved.cut /\ a = odd
    BY <2>3, <2>5
  <2> HIDE DEF strange
  <2>7. strange = {} \/ (disk.name = "hex" /\ saved.cut /\ \E a \in strange : strange = {a})
    BY <2>6
  <2> QED BY <2>3, <2>4, <2>7
<1> QED BY <1>1, <1>2

(* Loading is all or nothing, restores what was saved, reaches nothing behind
   the RAM, and gives of a file that was cut short only bytes that were saved,
   but for one in Intel's format: for every RAM, range, content and cut. *)
THEOREM SavedAlwaysLoaded == RamSpec => LoadsSaved
<1>1. RamInv => SavedLoaded
  BY LoadRight
<1>2. RamInv /\ [RamNext]_ramVars => [SavedLoaded]_ramVars
  BY <1>1
<1> QED BY <1>2, AlwaysRamInv, PTL DEF RamSpec, LoadsSaved

=============================================================================
