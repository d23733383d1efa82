--------------------------- MODULE MemoryMap_proofs ---------------------------
(***************************************************************************)
(* The lists of the memory map are sound and the emulator thread's walks   *)
(* down them are safe, for every set of devices and address space.         *)
(***************************************************************************)
EXTENDS MemoryMap, FiniteSetTheorems, SequenceTheorems,
        WellFoundedInduction, TLAPS

-----------------------------------------------------------------------------
(* Numbers *)

(* Every set of numbers has a least one: the form in which the proofs below
   use induction. *)
LEMMA Least ==
  ASSUME NEW T, T \subseteq Nat, T # {}
  PROVE  \E m \in T : \A n \in T : m <= n
<1> DEFINE R == OpToRel(<, Nat)
<1>1. IsWellFoundedOn(R, Nat)
  BY NatLessThanWellFounded
<1>2. \A x, y \in Nat : <<x, y>> \in R <=> x < y
  BY DEF OpToRel
<1> HIDE DEF R
<1>3. PICK m \in T : \A y \in T : ~ (<<y, m>> \in R)
  BY <1>1, WFMin
<1>4. \A n \in T : m \in Nat /\ n \in Nat /\ ~(n < m)
  BY <1>2, <1>3
<1>5. \A n \in T : m <= n
  BY <1>4
<1> QED BY <1>3, <1>5

-----------------------------------------------------------------------------
(* Lists: what ListFrom's function is, and the devices it collects. *)

Link == Device \cup {NULL}

Chained(x) == IF x = NULL THEN NULL ELSE next[x]

(* f is the walk from first on over k links. *)
IsWalk(f, first, k) ==
  /\ f = [n \in 0 .. k |-> f[n]]
  /\ f[0] = first
  /\ \A n \in 1 .. k : f[n] = Chained(f[n - 1])

LEMMA WalkExists ==
  ASSUME NEW first, NEW k \in Nat
  PROVE  \E f : IsWalk(f, first, k)
<1> SUFFICES ASSUME ~ \E f : IsWalk(f, first, k) PROVE FALSE
  OBVIOUS
<1> DEFINE T == {n \in Nat : ~ \E f : IsWalk(f, first, n)}
<1>1. PICK m \in T : \A n \in T : m <= n
  <2>1. T \subseteq Nat /\ k \in T
    OBVIOUS
  <2> QED BY <2>1, Least
<1>2. m # 0
  <2> DEFINE f == [n \in 0 .. 0 |-> first]
  <2>1. IsWalk(f, first, 0)
    BY DEF IsWalk
  <2> QED BY <2>1
<1>3. PICK f : IsWalk(f, first, m - 1)
  BY <1>1, <1>2
<1> DEFINE g == [n \in 0 .. m |-> IF n = m THEN Chained(f[m - 1]) ELSE f[n]]
<1>4. IsWalk(g, first, m)
  <2>1. g = [n \in 0 .. m |-> g[n]] /\ g[0] = first
    BY <1>2, <1>3 DEF IsWalk
  <2>2. ASSUME NEW n \in 1 .. m PROVE g[n] = Chained(g[n - 1])
    <3>1. n - 1 \in 0 .. m - 1 /\ n \in 0 .. m /\ g[n - 1] = f[n - 1]
      BY <1>1
    <3>2. CASE n = m
      BY <3>1, <3>2
    <3>3. CASE n # m
      <4>1. n \in 1 .. m - 1 /\ g[n] = f[n]
        BY <1>1, <3>3
      <4>2. f[n] = Chained(f[n - 1])
        BY <1>3, <4>1 DEF IsWalk
      <4> QED BY <3>1, <4>1, <4>2
    <3> QED BY <3>2, <3>3
  <2> QED BY <2>1, <2>2 DEF IsWalk
<1> QED BY <1>4

LEMMA ListFromWalk ==
  ASSUME IsFiniteSet(Device), NEW first
  PROVE  \E f : /\ IsWalk(f, first, Cardinality(Device))
                /\ ListFrom(first) =
                     {f[n] : n \in 0 .. Cardinality(Device)} \ {NULL}
<1> DEFINE K == Cardinality(Device)
           Body(f) == [n \in 0 .. K |->
                         IF n = 0 THEN first
                         ELSE IF f[n - 1] = NULL THEN NULL ELSE next[f[n - 1]]]
           at == CHOOSE g : g = Body(g)
<1>1. K \in Nat
  BY FS_CardinalityType
<1>2. PICK f : IsWalk(f, first, K)
  BY <1>1, WalkExists
<1> HIDE DEF K
<1>3. f = Body(f)
  <2>1. \A n \in 0 .. K : f[n] = Body(f)[n]
    BY <1>1, <1>2 DEF IsWalk, Chained
  <2>2. f = [n \in 0 .. K |-> f[n]]
    BY <1>2 DEF IsWalk
  <2> QED BY <2>1, <2>2
<1>4. at = Body(at)
  BY <1>3
<1>5. ListFrom(first) = {at[n] : n \in DOMAIN at} \ {NULL}
  BY DEF ListFrom, K
<1> HIDE DEF at
<1>6. IsWalk(at, first, K)
  BY <1>1, <1>4 DEF IsWalk, Chained
<1>7. DOMAIN at = 0 .. K
  BY <1>4
<1> QED BY <1>5, <1>6, <1>7 DEF K

(* A set of devices that contains first and every link out of the set
   contains the list: the way it is shown what a list does not contain. *)
LEMMA ListFromWithin ==
  ASSUME IsFiniteSet(Device), NEW first, NEW S,
         first \in S \cup {NULL}, \A d \in S : next[d] \in S \cup {NULL}
  PROVE  ListFrom(first) \subseteq S
<1> DEFINE K == Cardinality(Device)
<1>1. PICK f : /\ IsWalk(f, first, K)
               /\ ListFrom(first) = {f[n] : n \in 0 .. K} \ {NULL}
  BY ListFromWalk
<1>2. K \in Nat
  BY FS_CardinalityType
<1> HIDE DEF K
<1> DEFINE T == {n \in 0 .. K : f[n] \notin S \cup {NULL}}
<1>3. T = {}
  <2> SUFFICES ASSUME T # {} PROVE FALSE
    OBVIOUS
  <2>1. PICK m \in T : \A n \in T : m <= n
    <3>1. T \subseteq Nat
      BY <1>2
    <3> QED BY <3>1, Least
  <2>2. m \in 1 .. K
    BY <1>1, <1>2, <2>1 DEF IsWalk
  <2>3. f[m - 1] \in S \cup {NULL}
    BY <1>2, <2>1, <2>2
  <2>4. f[m] = Chained(f[m - 1])
    BY <1>1, <2>2 DEF IsWalk
  <2> QED BY <2>1, <2>3, <2>4 DEF Chained
<1> QED BY <1>1, <1>3

(* When the links of a set of devices go up in an order that has the set's
   first device at the bottom and none between a device and the next, the
   list is the whole set. *)
LEMMA ListFromAll ==
  ASSUME IsFiniteSet(Device), NULL \notin Device,
         NEW S \in SUBSET Device, NEW pos \in [Device -> Nat],
         NEW first,
         IF first = NULL THEN S = {} ELSE first \in S,
         \A d \in S : pos[first] <= pos[d],
         \A d, e \in S : pos[d] = pos[e] => d = e,
         \A d \in S :
           IF next[d] = NULL THEN \A e \in S : pos[e] <= pos[d]
           ELSE /\ next[d] \in S
                /\ pos[d] < pos[next[d]]
                /\ \A e \in S : pos[e] <= pos[d] \/ pos[next[d]] <= pos[e]
  PROVE  ListFrom(first) = S
<1> DEFINE K == Cardinality(Device)
<1>1. PICK f : /\ IsWalk(f, first, K)
               /\ ListFrom(first) = {f[n] : n \in 0 .. K} \ {NULL}
  BY ListFromWalk
<1>2. K \in Nat
  BY FS_CardinalityType
<1>3. ListFrom(first) \subseteq S
  BY ListFromWithin
<1> SUFFICES ASSUME NEW d \in S, d \notin ListFrom(first) PROVE FALSE
  BY <1>3
<1> HIDE DEF K
<1>4. \A n \in 0 .. K : f[n] \in S /\ pos[f[n]] < pos[d]
  <2> DEFINE T == {n \in 0 .. K : ~(f[n] \in S /\ pos[f[n]] < pos[d])}
  <2> SUFFICES ASSUME T # {} PROVE FALSE
    OBVIOUS
  <2>1. PICK m \in T : \A n \in T : m <= n
    <3>1. T \subseteq Nat
      BY <1>2
    <3> QED BY <3>1, Least
  <2>2. \A n \in 0 .. K : f[n] # d
    BY <1>1
  <2>3. m # 0
    <3>1. f[0] = first /\ f[0] # d
      BY <1>1, <1>2, <2>2 DEF IsWalk
    <3>2. first \in S /\ pos[first] <= pos[d] /\ pos[first] # pos[d]
      BY <3>1
    <3>3. pos[first] \in Nat /\ pos[d] \in Nat
      BY <3>2
    <3> QED BY <2>1, <3>1, <3>2, <3>3
  <2>4. /\ m \in 1 .. K /\ m - 1 \in 0 .. K
        /\ f[m - 1] \in S /\ pos[f[m - 1]] < pos[d]
    BY <1>2, <2>1, <2>3
  <2>5. f[m] = next[f[m - 1]]
    BY <1>1, <2>4 DEF IsWalk, Chained
  <2>6. f[m] # d
    BY <2>1, <2>2
  <2> DEFINE p == f[m - 1]
  <2>7. p \in S /\ pos[p] < pos[d] /\ pos[p] \in Nat /\ pos[d] \in Nat
    BY <2>4
  <2>8. next[p] # NULL
    BY <2>7
  <2>9. next[p] \in S /\ pos[next[p]] <= pos[d] /\ pos[next[p]] # pos[d]
    BY <2>5, <2>6, <2>7, <2>8
  <2>10. pos[next[p]] \in Nat
    BY <2>9
  <2>11. pos[next[p]] < pos[d]
    BY <2>7, <2>9, <2>10
  <2> QED BY <2>1, <2>5, <2>9, <2>11
<1>5. \A n \in 1 .. K : pos[f[n - 1]] < pos[f[n]]
  <2> TAKE n \in 1 .. K
  <2>1. n - 1 \in 0 .. K /\ n \in 0 .. K
    BY <1>2
  <2>2. f[n] = next[f[n - 1]] /\ f[n] \in S /\ f[n - 1] \in S
    BY <1>1, <1>4, <2>1 DEF IsWalk, Chained
  <2> QED BY <2>2
<1>6. \A i, j \in 0 .. K : i < j => pos[f[i]] < pos[f[j]]
  <2> SUFFICES ASSUME NEW i \in 0 .. K,
                      \E j \in 0 .. K : i < j /\ ~(pos[f[i]] < pos[f[j]])
               PROVE  FALSE
    OBVIOUS
  <2> DEFINE T == {j \in 0 .. K : i < j /\ ~(pos[f[i]] < pos[f[j]])}
  <2>1. PICK m \in T : \A n \in T : m <= n
    <3>1. T \subseteq Nat /\ T # {}
      BY <1>2
    <3> QED BY <3>1, Least
  <2>2. /\ m \in 1 .. K /\ m - 1 \in 0 .. K
        /\ i = m - 1 \/ pos[f[i]] < pos[f[m - 1]]
    BY <1>2, <2>1
  <2>3. pos[f[m - 1]] < pos[f[m]]
    BY <1>5, <2>2
  <2>4. pos[f[i]] \in Nat /\ pos[f[m - 1]] \in Nat /\ pos[f[m]] \in Nat
    BY <1>4, <2>1, <2>2
  <2> QED BY <2>1, <2>2, <2>3, <2>4
<1>7. f \in [0 .. K -> Device]
  BY <1>1, <1>4 DEF IsWalk
<1>8. IsFiniteSet(0 .. K) /\ Cardinality(0 .. K) = K + 1
  <2>1. 0 \in Int /\ K \in Int /\ ~(0 > K) /\ K - 0 + 1 = K + 1
    BY <1>2
  <2>2. /\ IsFiniteSet(0 .. K)
        /\ Cardinality(0 .. K) = IF 0 > K THEN 0 ELSE K - 0 + 1
    BY <2>1, FS_Interval
  <2> QED BY <2>1, <2>2
<1>9. PICK i, j \in 0 .. K : i # j /\ f[i] = f[j]
  <2>1. Cardinality(Device) < Cardinality(0 .. K)
    BY <1>2, <1>8 DEF K
  <2> QED BY <1>7, <1>8, <2>1, FS_PigeonHole
<1>10. i < j \/ j < i
  BY <1>2, <1>9
<1>11. pos[f[i]] \in Nat
  BY <1>4
<1> QED BY <1>6, <1>9, <1>10, <1>11

-----------------------------------------------------------------------------
(* Jobs: what is due next for each device. *)

Ops == {"new", "map", "unmap", "unlink", "start", "end", "delete"}

(* The operation of the first call of q about d *)
Due(q, d) ==
  LET about == {i \in DOMAIN q : q[i].dev = d}
  IN  IF about = {} THEN "none"
      ELSE q[CHOOSE i \in about : \A j \in about : i <= j].op

(* Of two calls about a device with none in between, which may follow which *)
Follows ==
  {<<"new", "map">>, <<"delete", "new">>,
   <<"unmap", "start">>, <<"unlink", "start">>,
   <<"unmap", "delete">>, <<"unlink", "delete">>,
   <<"start", "end">>, <<"end", "map">>}

Between(q, i, j) == {k \in DOMAIN q : i < k /\ k < j}

(* Every device is left in a list or deleted, by calls that fit together. *)
WellFormed(q) ==
  /\ \A i, j \in DOMAIN q :
       i < j /\ q[i].dev = q[j].dev
             /\ (\A k \in Between(q, i, j) : q[k].dev # q[i].dev)
         => <<q[i].op, q[j].op>> \in Follows
  /\ \A i \in DOMAIN q :
       (\A j \in DOMAIN q : i < j => q[j].dev # q[i].dev)
         => q[i].op \in {"map", "delete"}

LEMMA CallType ==
  ASSUME NEW c \in Jobs
  PROVE  /\ c.op \in Ops /\ c.dev \in Device
         /\ c.op = "new" => c.range \in AddressRange
         /\ c.op \in {"start", "end"} => c.to \in Address
<1>1. CASE c \in [op : {"map", "unmap", "unlink", "delete"}, dev : Device]
  BY <1>1 DEF Ops
<1>2. CASE c \in [op : {"new"}, dev : Device, range : AddressRange]
  BY <1>2 DEF Ops
<1>3. CASE c \in [op : {"start", "end"}, dev : Device, to : Address]
  BY <1>3 DEF Ops
<1> QED BY <1>1, <1>2, <1>3 DEF Jobs

LEMMA DueNone ==
  ASSUME NEW q \in Seq(Jobs), NEW d, \A i \in DOMAIN q : q[i].dev # d
  PROVE  Due(q, d) = "none"
BY DEF Due

LEMMA DueEmpty == \A d : Due(<<>>, d) = "none"
BY DEF Due

LEMMA DueFirst ==
  ASSUME NEW q \in Seq(Jobs), NEW n \in DOMAIN q,
         \A j \in DOMAIN q : j < n => q[j].dev # q[n].dev
  PROVE  Due(q, q[n].dev) = q[n].op
<1> DEFINE about == {i \in DOMAIN q : q[i].dev = q[n].dev}
           first == CHOOSE i \in about : \A j \in about : i <= j
<1>1. about \subseteq Nat /\ n \in about
  OBVIOUS
<1>2. first \in about /\ \A j \in about : first <= j
  BY <1>1, Least
<1>3. first = n
  BY <1>1, <1>2
<1>4. Due(q, q[n].dev) = q[first].op
  BY <1>1 DEF Due
<1> QED BY <1>3, <1>4

LEMMA DueSome ==
  ASSUME NEW q \in Seq(Jobs), NEW d, Due(q, d) # "none"
  PROVE  \E n \in DOMAIN q : /\ q[n].dev = d /\ q[n].op = Due(q, d)
                             /\ \A j \in DOMAIN q : j < n => q[j].dev # d
<1> DEFINE about == {i \in DOMAIN q : q[i].dev = d}
<1>1. about \subseteq Nat /\ about # {}
  BY DEF Due
<1>2. PICK n \in about : \A j \in about : n <= j
  BY <1>1, Least
<1>3. \A j \in DOMAIN q : j < n => q[j].dev # d
  BY <1>1, <1>2
<1> QED BY <1>2, <1>3, DueFirst

LEMMA DueHead ==
  ASSUME NEW q \in Seq(Jobs), q # <<>>
  PROVE  Due(q, Head(q).dev) = Head(q).op
<1>1. 1 \in DOMAIN q /\ Head(q) = q[1] /\ \A j \in DOMAIN q : ~(j < 1)
  OBVIOUS
<1> QED BY <1>1, DueFirst

LEMMA TailProperties ==
  ASSUME NEW q \in Seq(Jobs), q # <<>>
  PROVE  /\ Tail(q) \in Seq(Jobs)
         /\ \A i \in DOMAIN Tail(q) : i + 1 \in DOMAIN q /\ Tail(q)[i] = q[i + 1]
         /\ \A i \in DOMAIN q \ {1} :
              i - 1 \in DOMAIN Tail(q) /\ Tail(q)[i - 1] = q[i]
         /\ DOMAIN q \subseteq Nat \ {0} /\ DOMAIN Tail(q) \subseteq Nat \ {0}
         /\ 1 \in DOMAIN q /\ Head(q) = q[1]
<1>1. /\ Tail(q) \in Seq(Jobs) /\ Len(Tail(q)) = Len(q) - 1
      /\ \A i \in 1 .. Len(Tail(q)) : Tail(q)[i] = q[i + 1]
  BY HeadTailProperties
<1>2. /\ DOMAIN q = 1 .. Len(q) /\ DOMAIN Tail(q) = 1 .. Len(Tail(q))
      /\ Len(q) \in Nat \ {0}
  BY <1>1
<1>3. \A i \in DOMAIN q \ {1} : i - 1 \in 1 .. Len(Tail(q)) /\ (i - 1) + 1 = i
  BY <1>1, <1>2
<1> QED BY <1>1, <1>2, <1>3

LEMMA DueAbsent ==
  ASSUME NEW q \in Seq(Jobs), NEW d, Due(q, d) = "none"
  PROVE  \A i \in DOMAIN q : q[i].dev # d
<1> DEFINE T == {i \in DOMAIN q : q[i].dev = d}
<1> SUFFICES ASSUME T # {} PROVE FALSE
  OBVIOUS
<1>1. T \subseteq Nat
  OBVIOUS
<1>2. PICK n \in T : \A j \in T : n <= j
  BY <1>1, Least
<1>3. \A j \in DOMAIN q : j < n => q[j].dev # d
  BY <1>1, <1>2
<1>4. Due(q, d) = q[n].op
  BY <1>2, <1>3, DueFirst
<1>5. q[n] \in Jobs
  BY <1>2, ElementOfSeq
<1> QED BY <1>4, <1>5, CallType DEF Ops

(* The calls about another device are not disturbed. *)
LEMMA DueTailOther ==
  ASSUME NEW q \in Seq(Jobs), q # <<>>, NEW d, d # Head(q).dev
  PROVE  Due(Tail(q), d) = Due(q, d)
<1>1. /\ Tail(q) \in Seq(Jobs)
      /\ \A i \in DOMAIN Tail(q) : i + 1 \in DOMAIN q /\ Tail(q)[i] = q[i + 1]
      /\ \A i \in DOMAIN q \ {1} :
           i - 1 \in DOMAIN Tail(q) /\ Tail(q)[i - 1] = q[i]
      /\ DOMAIN q \subseteq Nat \ {0} /\ DOMAIN Tail(q) \subseteq Nat \ {0}
      /\ Head(q) = q[1]
  BY TailProperties
<1>2. CASE Due(q, d) = "none"
  <2>1. \A i \in DOMAIN q : q[i].dev # d
    BY <1>2, DueAbsent
  <2>2. \A i \in DOMAIN Tail(q) : Tail(q)[i].dev # d
    BY <1>1, <2>1
  <2> QED BY <1>1, <1>2, <2>2, DueNone
<1>3. CASE Due(q, d) # "none"
  <2>1. PICK n \in DOMAIN q : /\ q[n].dev = d /\ q[n].op = Due(q, d)
                              /\ \A j \in DOMAIN q : j < n => q[j].dev # d
    BY <1>3, DueSome
  <2>2. n # 1
    BY <1>1, <2>1
  <2>3. n - 1 \in DOMAIN Tail(q) /\ Tail(q)[n - 1] = q[n]
    BY <1>1, <2>2
  <2>4. \A j \in DOMAIN Tail(q) : j < n - 1 => Tail(q)[j].dev # d
    <3> TAKE j \in DOMAIN Tail(q)
    <3>1. j + 1 \in DOMAIN q /\ Tail(q)[j] = q[j + 1]
      BY <1>1
    <3>2. j < n - 1 => j + 1 < n
      BY <1>1
    <3> QED BY <2>1, <3>1, <3>2
  <2> PICK rest, m : rest = Tail(q) /\ m = n - 1
    OBVIOUS
  <2>5. rest \in Seq(Jobs) /\ m \in DOMAIN rest /\ rest[m].dev = d
    BY <1>1, <2>1, <2>3
  <2>6. \A j \in DOMAIN rest : j < m => rest[j].dev # rest[m].dev
    BY <2>4, <2>5
  <2>7. Due(rest, rest[m].dev) = rest[m].op
    BY <2>5, <2>6, DueFirst
  <2> QED BY <2>1, <2>3, <2>5, <2>7
<1> QED BY <1>2, <1>3

(* What is due for a device after the call at the head *)
LEMMA DueTailSame ==
  ASSUME NEW q \in Seq(Jobs), q # <<>>, WellFormed(q)
  PROVE  IF Due(Tail(q), Head(q).dev) = "none"
         THEN Head(q).op \in {"map", "delete"}
         ELSE <<Head(q).op, Due(Tail(q), Head(q).dev)>> \in Follows
<1> DEFINE d == Head(q).dev
<1>1. /\ Tail(q) \in Seq(Jobs)
      /\ \A i \in DOMAIN Tail(q) : i + 1 \in DOMAIN q /\ Tail(q)[i] = q[i + 1]
      /\ \A i \in DOMAIN q \ {1} :
           i - 1 \in DOMAIN Tail(q) /\ Tail(q)[i - 1] = q[i]
      /\ DOMAIN q \subseteq Nat \ {0} /\ DOMAIN Tail(q) \subseteq Nat \ {0}
      /\ 1 \in DOMAIN q /\ Head(q) = q[1]
  BY TailProperties
<1>2. CASE \A i \in DOMAIN Tail(q) : Tail(q)[i].dev # d
  <2>1. Due(Tail(q), d) = "none"
    BY <1>1, <1>2, DueNone
  <2>2. \A j \in DOMAIN q : 1 < j => q[j].dev # q[1].dev
    <3> TAKE j \in DOMAIN q
    <3>1. 1 < j => j - 1 \in DOMAIN Tail(q) /\ Tail(q)[j - 1] = q[j]
      BY <1>1
    <3> QED BY <1>1, <1>2, <3>1
  <2>3. q[1].op \in {"map", "delete"}
    BY <1>1, <2>2 DEF WellFormed
  <2> QED BY <1>1, <2>1, <2>3
<1>3. CASE \E i \in DOMAIN Tail(q) : Tail(q)[i].dev = d
  <2> DEFINE T == {i \in DOMAIN Tail(q) : Tail(q)[i].dev = d}
  <2>1. PICK n \in T : \A j \in T : n <= j
    BY <1>1, <1>3, Least
  <2>2. \A j \in DOMAIN Tail(q) : j < n => Tail(q)[j].dev # d
    BY <1>1, <2>1
  <2> DEFINE t == Tail(q)
  <2>a. t \in Seq(Jobs) /\ n \in DOMAIN t /\ t[n].dev = d
        /\ \A j \in DOMAIN t : j < n => t[j].dev # t[n].dev
    BY <1>1, <2>1, <2>2
  <2>b. Due(t, t[n].dev) = t[n].op
    <3> HIDE DEF t, d
    <3> QED BY <2>a, DueFirst
  <2>3. Due(Tail(q), d) = Tail(q)[n].op
    BY <2>a, <2>b
  <2>4. n + 1 \in DOMAIN q /\ Tail(q)[n] = q[n + 1] /\ 1 < n + 1
    BY <1>1, <2>1
  <2>5. \A k \in Between(q, 1, n + 1) : q[k].dev # q[1].dev
    <3> TAKE k \in Between(q, 1, n + 1)
    <3>1. k \in DOMAIN q /\ 1 < k /\ k < n + 1
      BY DEF Between
    <3>2. k - 1 \in DOMAIN Tail(q) /\ Tail(q)[k - 1] = q[k] /\ k - 1 < n
      BY <1>1, <2>1, <3>1
    <3> QED BY <1>1, <2>2, <3>2
  <2>6. <<q[1].op, q[n + 1].op>> \in Follows
    BY <1>1, <2>1, <2>4, <2>5 DEF WellFormed
  <2>7. Tail(q)[n] \in Jobs
    BY <1>1, <2>1, ElementOfSeq
  <2>8. Tail(q)[n].op # "none"
    BY <2>7, CallType DEF Ops
  <2> QED BY <1>1, <2>3, <2>4, <2>6, <2>8
<1> QED BY <1>2, <1>3

LEMMA TailWellFormed ==
  ASSUME NEW q \in Seq(Jobs), q # <<>>, WellFormed(q)
  PROVE  WellFormed(Tail(q))
<1>1. /\ \A i \in DOMAIN Tail(q) : i + 1 \in DOMAIN q /\ Tail(q)[i] = q[i + 1]
      /\ \A i \in DOMAIN q \ {1} :
           i - 1 \in DOMAIN Tail(q) /\ Tail(q)[i - 1] = q[i]
      /\ DOMAIN q \subseteq Nat \ {0} /\ DOMAIN Tail(q) \subseteq Nat \ {0}
  BY TailProperties
<1>2. ASSUME NEW i \in DOMAIN Tail(q), NEW j \in DOMAIN Tail(q),
             i < j, Tail(q)[i].dev = Tail(q)[j].dev,
             \A k \in Between(Tail(q), i, j) : Tail(q)[k].dev # Tail(q)[i].dev
      PROVE  <<Tail(q)[i].op, Tail(q)[j].op>> \in Follows
  <2>1. \A k \in Between(q, i + 1, j + 1) : q[k].dev # q[i + 1].dev
    <3> TAKE k \in Between(q, i + 1, j + 1)
    <3>1. k \in DOMAIN q /\ i + 1 < k /\ k < j + 1
      BY DEF Between
    <3>2. k - 1 \in DOMAIN Tail(q) /\ Tail(q)[k - 1] = q[k]
          /\ i < k - 1 /\ k - 1 < j
      BY <1>1, <3>1
    <3> QED BY <1>1, <1>2, <3>2 DEF Between
  <2>2. i + 1 < j + 1 /\ q[i + 1].dev = q[j + 1].dev
    BY <1>1, <1>2
  <2> QED BY <1>1, <2>1, <2>2 DEF WellFormed
<1>3. ASSUME NEW i \in DOMAIN Tail(q),
             \A j \in DOMAIN Tail(q) : i < j => Tail(q)[j].dev # Tail(q)[i].dev
      PROVE  Tail(q)[i].op \in {"map", "delete"}
  <2>1. \A j \in DOMAIN q : i + 1 < j => q[j].dev # q[i + 1].dev
    <3> TAKE j \in DOMAIN q
    <3>1. i + 1 < j => j - 1 \in DOMAIN Tail(q) /\ Tail(q)[j - 1] = q[j] /\ i < j - 1
      BY <1>1
    <3> QED BY <1>1, <1>3, <3>1
  <2> QED BY <1>1, <2>1 DEF WellFormed
<1> QED BY <1>2, <1>3 DEF WellFormed

-----------------------------------------------------------------------------
(* The inductive invariant *)

(* d is in the list of its block. *)
Linked(d) == d \in live /\ Due(job, d) \in {"none", "unmap"}

(* The devices that belong in the list of each block *)
Members ==
  [b \in Block |->
     {d \in Device : Linked(d) /\ BlockOf(range[d].start) = b}]

(* Calls are made about devices that are in the state the call is for. *)
JobInv ==
  /\ WellFormed(job)
  /\ \A d \in Device : Due(job, d) = "new" => d \notin live
  /\ \A d \in Device : Due(job, d) \notin {"new", "none"} => d \in live

(* pos is an order in which the lists of m go up: the first device of each is
   its lowest, and no device lies between one and the next. *)
Ascending(m, first, link, pos) ==
  \A b \in Block :
    /\ IF first[b] = NULL THEN m[b] = {}
       ELSE first[b] \in m[b] /\ \A e \in m[b] : pos[first[b]] <= pos[e]
    /\ \A d, e \in m[b] : pos[d] = pos[e] => d = e
    /\ \A d \in m[b] :
         IF link[d] = NULL THEN \A e \in m[b] : pos[e] <= pos[d]
         ELSE /\ link[d] \in m[b] /\ pos[d] < pos[link[d]]
              /\ \A e \in m[b] : pos[e] <= pos[d] \/ pos[link[d]] <= pos[e]

(* A device that is about to be mapped has no link of its own. *)
Loose ==
  \A d \in Device :
    d \in live /\ ~Linked(d) /\ Due(job, d) # "unlink" => next[d] = NULL

(* map and unmap walk down the list that they change, unmap before d. *)
CursorInv(pos) ==
  cursor # NULL =>
    /\ job # <<>> /\ Head(job).op \in {"map", "unmap"}
    /\ cursor \in Members[BlockOf(range[Head(job).dev].start)]
    /\ Head(job).op = "unmap" => pos[cursor] < pos[Head(job).dev]

Ordered(pos) ==
  Ascending(Members, blocks, next, pos) /\ Loose /\ CursorInv(pos)

-----------------------------------------------------------------------------
(* How a call at the head of the job leaves what is due *)

LEMMA JobAdvance ==
  ASSUME TypeOK, JobInv, job # <<>>, job' = Tail(job)
  PROVE  /\ job' \in Seq(Jobs) /\ WellFormed(job')
         /\ Head(job) \in Jobs
         /\ Due(job, Head(job).dev) = Head(job).op
         /\ \A d \in Device : d # Head(job).dev => Due(job', d) = Due(job, d)
         /\ IF Due(job', Head(job).dev) = "none"
            THEN Head(job).op \in {"map", "delete"}
            ELSE <<Head(job).op, Due(job', Head(job).dev)>> \in Follows
<1>1. job \in Seq(Jobs) /\ WellFormed(job)
  BY DEF TypeOK, JobInv
<1>2. Tail(job) \in Seq(Jobs) /\ Head(job) \in Jobs
  BY <1>1
<1> QED BY <1>1, <1>2, TailWellFormed, DueHead, DueTailOther, DueTailSame

LEMMA JobUnlink ==
  ASSUME TypeOK, JobInv, job # <<>>, Head(job).op = "unmap",
         job' = <<Call("unlink", Head(job).dev)>> \o Tail(job)
  PROVE  /\ job' \in Seq(Jobs) /\ WellFormed(job')
         /\ Head(job) \in Jobs
         /\ Due(job, Head(job).dev) = "unmap"
         /\ \A d \in Device : d # Head(job).dev => Due(job', d) = Due(job, d)
         /\ Due(job', Head(job).dev) = "unlink"
<1> DEFINE c == Call("unlink", Head(job).dev)
           t == Tail(job)
           q == <<c>> \o t
<1>1. job \in Seq(Jobs) /\ WellFormed(job)
  BY DEF TypeOK, JobInv
<1>2. t \in Seq(Jobs) /\ Head(job) \in Jobs /\ Len(t) = Len(job) - 1
      /\ Len(job) \in Nat \ {0}
  BY <1>1
<1>3. c \in Jobs /\ c.op = "unlink" /\ c.dev = Head(job).dev
  BY <1>2, CallType DEF Call, Jobs
<1>4. <<c>> \in Seq(Jobs) /\ Len(<<c>>) = 1 /\ <<c>>[1] = c
  BY <1>3
<1> HIDE DEF c
<1>5. /\ q \in Seq(Jobs) /\ Len(q) = Len(job)
      /\ q[1] = c /\ \A i \in 2 .. Len(job) : q[i] = t[i - 1]
  <2>1. /\ q \in Seq(Jobs) /\ Len(q) = 1 + Len(t)
        /\ \A i \in 1 .. 1 + Len(t) :
             q[i] = IF i <= 1 THEN <<c>>[i] ELSE t[i - 1]
    BY <1>2, <1>4, ConcatProperties
  <2> QED BY <1>2, <1>4, <2>1
<1>6. \A i \in 2 .. Len(job) : q[i] = job[i]
  BY <1>1, <1>2, <1>5
<1> DEFINE u == job
<1>7. job' = q
  BY DEF c
<1>8. q # <<>> /\ Head(q) = c /\ Tail(q) = t
  <2>1. q # <<>> /\ Head(q) = c
    BY <1>2, <1>5
  <2>2. /\ Tail(q) \in Seq(Jobs) /\ Len(Tail(q)) = Len(q) - 1
        /\ \A i \in 1 .. Len(Tail(q)) : Tail(q)[i] = q[i + 1]
    BY <1>5, <2>1, HeadTailProperties
  <2>3. \A i \in 1 .. Len(t) : Tail(q)[i] = t[i]
    BY <1>2, <1>5, <2>2
  <2>4. Tail(q) = t
    BY <1>2, <1>5, <2>2, <2>3, SeqEqual
  <2> QED BY <2>1, <2>4
<1>9. WellFormed(q)
  <2> DEFINE n == Len(job)
  <2>1. /\ DOMAIN job = 1 .. n /\ DOMAIN q = 1 .. n /\ n \in Nat \ {0}
        /\ job[1] = Head(job)
    BY <1>1, <1>2, <1>5
  <2>2. /\ \A i \in 1 .. n : q[i].dev = job[i].dev
        /\ \A i \in 1 .. n : i # 1 => q[i].op = job[i].op
        /\ q[1].op = "unlink" /\ job[1].op = "unmap"
    BY <1>3, <1>5, <1>6, <2>1
  <2> HIDE DEF q, n
  <2>3. \A i, j : Between(q, i, j) = Between(job, i, j)
    BY <2>1 DEF Between
  <2>4. ASSUME NEW i \in 1 .. n, NEW j \in 1 .. n, i < j, q[i].dev = q[j].dev,
               \A k \in Between(q, i, j) : q[k].dev # q[i].dev
        PROVE  <<q[i].op, q[j].op>> \in Follows
    <3>1. \A k \in Between(job, i, j) : job[k].dev # job[i].dev
      BY <2>1, <2>2, <2>3, <2>4 DEF Between
    <3>2. <<job[i].op, job[j].op>> \in Follows
      BY <1>1, <2>1, <2>2, <2>4, <3>1 DEF WellFormed
    <3>3. j # 1 /\ q[j].op = job[j].op
      BY <2>1, <2>2, <2>4
    <3> QED BY <2>2, <3>2, <3>3 DEF Follows
  <2>5. ASSUME NEW i \in 1 .. n,
               \A j \in 1 .. n : i < j => q[j].dev # q[i].dev
        PROVE  q[i].op \in {"map", "delete"}
    <3>1. job[i].op \in {"map", "delete"}
      BY <1>1, <2>1, <2>2, <2>5 DEF WellFormed
    <3> QED BY <2>1, <2>2, <3>1
  <2> QED BY <2>1, <2>4, <2>5 DEF WellFormed
<1>10. Due(q, c.dev) = c.op
  BY <1>5, <1>8, DueHead
<1>11. \A d : d # c.dev => Due(q, d) = Due(t, d)
  BY <1>5, <1>8, DueTailOther
<1>12. \A d : d # c.dev => Due(job, d) = Due(t, d)
  BY <1>1, <1>3, DueTailOther
<1>13. Due(job, c.dev) = "unmap"
  BY <1>1, <1>3, DueHead
<1> HIDE DEF q, t
<1> QED BY <1>2, <1>3, <1>5, <1>7, <1>9, <1>10, <1>11, <1>12, <1>13

-----------------------------------------------------------------------------
(* Each call keeps the types and the job, and puts its device into the list
   of its block, takes it out, or leaves the lists' members alone. *)

SameMembers ==
  \A e \in Device : /\ Linked(e)' <=> Linked(e)
                    /\ Linked(e) => range'[e] = range[e]

Enters(d) ==
  /\ d \in Device /\ d \in live /\ ~Linked(d) /\ Due(job, d) = "map"
  /\ range' = range
  /\ \A e \in Device : Linked(e)' <=> Linked(e) \/ e = d

Leaves(d) ==
  /\ d \in Device /\ Linked(d) /\ Due(job', d) = "unlink"
  /\ range' = range
  /\ \A e \in Device : Linked(e)' <=> Linked(e) /\ e # d

LEMMA NewDeviceStep ==
  ASSUME TypeOK, JobInv, NewDevice
  PROVE  TypeOK' /\ JobInv' /\ SameMembers
<1> DEFINE d == Head(job).dev
<1>1. job # <<>> /\ job' = Tail(job) /\ Head(job).op = "new"
  BY DEF NewDevice, Current, Done
<1>2. /\ job' \in Seq(Jobs) /\ WellFormed(job') /\ Head(job) \in Jobs
      /\ Due(job, d) = "new"
      /\ \A e \in Device : e # d => Due(job', e) = Due(job, e)
      /\ Due(job', d) = "map"
  BY <1>1, JobAdvance DEF Follows
<1>3. d \in Device /\ Head(job).range \in AddressRange
  BY <1>1, <1>2, CallType
<1> HIDE DEF d
<1>4. /\ live' = live \cup {d} /\ range' = [range EXCEPT ![d] = Head(job).range]
      /\ next' = [next EXCEPT ![d] = NULL] /\ cursor' = NULL
      /\ UNCHANGED <<blocks, io, started, walk, steady, strayed>>
  BY DEF NewDevice, Done, d, walkVars
<1>5. TypeOK'
  BY <1>2, <1>3, <1>4 DEF TypeOK
<1>6. JobInv'
  BY <1>2, <1>3, <1>4 DEF JobInv
<1>7. SameMembers
  BY <1>2, <1>3, <1>4 DEF SameMembers, Linked, JobInv, TypeOK
<1> QED BY <1>5, <1>6, <1>7

LEMMA MoveStep ==
  ASSUME TypeOK, JobInv, MoveStart \/ MoveEnd
  PROVE  TypeOK' /\ JobInv' /\ SameMembers
<1> DEFINE d == Head(job).dev
<1>1. job # <<>> /\ job' = Tail(job) /\ Head(job).op \in {"start", "end"}
  BY DEF MoveStart, MoveEnd, Current, Done
<1>2. /\ job' \in Seq(Jobs) /\ WellFormed(job') /\ Head(job) \in Jobs
      /\ Due(job, d) \in {"start", "end"}
      /\ \A e \in Device : e # d => Due(job', e) = Due(job, e)
      /\ Due(job', d) \in {"end", "map"}
  BY <1>1, JobAdvance DEF Follows
<1>3. d \in Device /\ Head(job).to \in Address
  BY <1>1, <1>2, CallType
<1> HIDE DEF d
<1>4. /\ \/ range' = [range EXCEPT ![d].start = Head(job).to]
         \/ range' = [range EXCEPT ![d].end = Head(job).to]
      /\ strayed' = (strayed \/ (walk.at = d /\ walk.phase # "idle"))
      /\ cursor' = NULL
      /\ UNCHANGED <<blocks, next, live, io, started, walk, steady>>
  BY DEF MoveStart, MoveEnd, Done, Disturb, d
<1>5. TypeOK'
  <2>1. range' \in [Device -> AddressRange]
    <3>1. range \in [Device -> AddressRange]
      BY DEF TypeOK
    <3> QED BY <1>3, <1>4, <3>1 DEF AddressRange
  <2> QED BY <1>2, <1>4, <2>1 DEF TypeOK
<1>6. JobInv'
  BY <1>2, <1>3, <1>4 DEF JobInv
<1>7. SameMembers
  BY <1>2, <1>3, <1>4 DEF SameMembers, Linked, JobInv, TypeOK
<1> QED BY <1>5, <1>6, <1>7

LEMMA UnlinkStep ==
  ASSUME TypeOK, JobInv, Unlink
  PROVE  TypeOK' /\ JobInv' /\ SameMembers
<1> DEFINE d == Head(job).dev
<1>1. job # <<>> /\ job' = Tail(job) /\ Head(job).op = "unlink"
  BY DEF Unlink, Current, Done
<1>2. /\ job' \in Seq(Jobs) /\ WellFormed(job') /\ Head(job) \in Jobs
      /\ Due(job, d) = "unlink"
      /\ \A e \in Device : e # d => Due(job', e) = Due(job, e)
      /\ Due(job', d) \in {"start", "delete"}
  BY <1>1, JobAdvance DEF Follows
<1>3. d \in Device
  BY <1>1, <1>2, CallType
<1> HIDE DEF d
<1>4. /\ next' = [next EXCEPT ![d] = NULL]
      /\ strayed' = (strayed \/ (walk.at = d /\ walk.phase # "idle"))
      /\ cursor' = NULL
      /\ UNCHANGED <<blocks, range, live, io, started, walk, steady>>
  BY DEF Unlink, Done, Disturb, d
<1>5. TypeOK'
  BY <1>2, <1>3, <1>4 DEF TypeOK
<1>6. JobInv'
  BY <1>2, <1>3, <1>4 DEF JobInv
<1>7. SameMembers
  BY <1>2, <1>3, <1>4 DEF SameMembers, Linked
<1> QED BY <1>5, <1>6, <1>7

LEMMA DeleteStep ==
  ASSUME TypeOK, JobInv, Delete
  PROVE  TypeOK' /\ JobInv' /\ SameMembers
<1> DEFINE d == Head(job).dev
<1>1. job # <<>> /\ job' = Tail(job) /\ Head(job).op = "delete"
  BY DEF Delete, Current, Done
<1>2. /\ job' \in Seq(Jobs) /\ WellFormed(job') /\ Head(job) \in Jobs
      /\ Due(job, d) = "delete"
      /\ \A e \in Device : e # d => Due(job', e) = Due(job, e)
      /\ Due(job', d) \in {"none", "new"}
  BY <1>1, JobAdvance DEF Follows
<1>3. d \in Device
  BY <1>1, <1>2, CallType
<1> HIDE DEF d
<1>4. /\ live' = live \ {d}
      /\ strayed' = (strayed \/ (walk.at = d /\ walk.phase # "idle"))
      /\ walk' = IF walk.at = d THEN [walk EXCEPT !.phase = "wild"] ELSE walk
      /\ cursor' = NULL
      /\ UNCHANGED <<blocks, next, range, io, started, steady>>
  BY DEF Delete, Done, Disturb, d
<1>5. TypeOK'
  BY <1>2, <1>3, <1>4 DEF TypeOK, WalkPhase
<1>6. JobInv'
  BY <1>2, <1>3, <1>4 DEF JobInv
<1>7. SameMembers
  BY <1>2, <1>3, <1>4 DEF SameMembers, Linked
<1> QED BY <1>5, <1>6, <1>7

LEMMA MapStep ==
  ASSUME TypeOK, JobInv, MapFirst \/ MapNext
  PROVE  /\ TypeOK' /\ JobInv'
         /\ IF job' = job THEN SameMembers ELSE Enters(Head(job).dev)
<1> DEFINE d == Head(job).dev
           b == BlockOf(range[d].start)
<1>1. job # <<>> /\ Head(job).op = "map"
  BY DEF MapFirst, MapNext, Current
<1>2. Head(job) \in Jobs /\ d \in Device /\ Due(job, d) = "map" /\ d \in live
  <2>1. job \in Seq(Jobs)
    BY DEF TypeOK
  <2>2. Head(job) \in Jobs /\ Due(job, d) = "map"
    BY <1>1, <2>1, DueHead
  <2> QED BY <2>2, CallType DEF JobInv
<1>3. b \in Block
  BY <1>2 DEF TypeOK, Block, AddressRange
<1>4. /\ UNCHANGED <<range, live, io, started, walk, steady, strayed>>
      /\ \/ /\ job' = job /\ UNCHANGED <<blocks, next>>
            /\ cursor' = blocks[b] \/ (cursor # NULL /\ cursor' = next[cursor])
         \/ /\ job' = Tail(job) /\ cursor' = NULL
            /\ \/ blocks' = [blocks EXCEPT ![b] = d] /\ next' = next
               \/ blocks' = blocks /\ next' = [next EXCEPT ![cursor] = d]
  BY DEF MapFirst, MapNext, Done, walkVars
<1> HIDE DEF b, d
<1>5. CASE job' = job
  <2>1. TypeOK'
    BY <1>1, <1>2, <1>3, <1>4, <1>5 DEF TypeOK
  <2> QED BY <1>4, <1>5, <2>1 DEF JobInv, SameMembers, Linked
<1>6. CASE job' # job
  <2>1. job' = Tail(job)
    BY <1>4, <1>6
  <2>2. /\ job' \in Seq(Jobs) /\ WellFormed(job')
        /\ \A e \in Device : e # d => Due(job', e) = Due(job, e)
        /\ Due(job', d) = "none"
    BY <1>1, <2>1, JobAdvance DEF Follows, d
  <2>3. TypeOK'
    BY <1>2, <1>3, <1>4, <1>6, <2>2 DEF TypeOK
  <2>4. JobInv'
    BY <1>2, <1>4, <2>2 DEF JobInv
  <2>5. Enters(d)
    <3>1. ~Linked(d)
      BY <1>2 DEF Linked
    <3>2. \A e \in Device : Linked(e)' <=> Linked(e) \/ e = d
      BY <1>2, <1>4, <2>2 DEF Linked
    <3> QED BY <1>2, <1>4, <3>1, <3>2 DEF Enters
  <2> QED BY <1>6, <2>3, <2>4, <2>5 DEF d
<1> QED BY <1>5, <1>6

LEMMA UnmapStep ==
  ASSUME TypeOK, JobInv, NEW pos,
         Ascending(Members, blocks, next, pos), UnmapFirst \/ UnmapNext
  PROVE  /\ TypeOK' /\ JobInv'
         /\ IF job' = job THEN SameMembers /\ UNCHANGED walkVars
            ELSE Leaves(Head(job).dev) /\ ThenUnlink(Head(job).dev)
<1> DEFINE d == Head(job).dev
           b == BlockOf(range[d].start)
<1>1. job # <<>> /\ Head(job).op = "unmap"
  BY DEF UnmapFirst, UnmapNext, Current
<1>2. Head(job) \in Jobs /\ d \in Device /\ Due(job, d) = "unmap" /\ d \in live
  <2>1. job \in Seq(Jobs)
    BY DEF TypeOK
  <2>2. Head(job) \in Jobs /\ Due(job, d) = "unmap"
    BY <1>1, <2>1, DueHead
  <2> QED BY <2>2, CallType DEF JobInv
<1>3. b \in Block /\ d \in Members[b]
  BY <1>2 DEF TypeOK, Block, AddressRange, Members, Linked
<1>4. blocks[b] # NULL
  BY <1>3 DEF Ascending
<1>5. /\ UNCHANGED <<range, live, io, started>>
      /\ \/ /\ job' = job /\ UNCHANGED <<blocks, next, walk, steady, strayed>>
            /\ cursor' = blocks[b] \/ (cursor # NULL /\ cursor' = next[cursor])
         \/ /\ ThenUnlink(d)
            /\ \/ blocks' = [blocks EXCEPT ![b] = next[d]] /\ next' = next
               \/ blocks' = blocks /\ next' = next
               \/ blocks' = blocks /\ next' = [next EXCEPT ![cursor] = next[d]]
  BY <1>4 DEF UnmapFirst, UnmapNext, walkVars
<1> HIDE DEF b, d
<1>6. CASE /\ job' = job /\ UNCHANGED <<blocks, next, walk, steady, strayed>>
           /\ cursor' = blocks[b] \/ (cursor # NULL /\ cursor' = next[cursor])
  <2>1. TypeOK'
    BY <1>1, <1>2, <1>3, <1>5, <1>6 DEF TypeOK
  <2> QED BY <1>5, <1>6, <2>1 DEF JobInv, SameMembers, Linked, walkVars
<1>7. CASE /\ ThenUnlink(d)
           /\ \/ blocks' = [blocks EXCEPT ![b] = next[d]] /\ next' = next
              \/ blocks' = blocks /\ next' = next
              \/ blocks' = blocks /\ next' = [next EXCEPT ![cursor] = next[d]]
  <2>1. /\ job' = <<Call("unlink", d)>> \o Tail(job) /\ cursor' = NULL
        /\ steady' = steady \ {d} /\ walk' = walk
        /\ strayed' = (strayed \/ (walk.at = d /\ walk.phase # "idle"))
    BY <1>7 DEF ThenUnlink, Disturb
  <2>2. /\ job' \in Seq(Jobs) /\ WellFormed(job')
        /\ \A e \in Device : e # d => Due(job', e) = Due(job, e)
        /\ Due(job', d) = "unlink"
    BY <1>1, <2>1, JobUnlink DEF d
  <2>3. TypeOK'
    BY <1>2, <1>3, <1>5, <1>7, <2>1, <2>2 DEF TypeOK
  <2>4. JobInv'
    BY <1>2, <1>5, <2>2 DEF JobInv
  <2>5. Leaves(d)
    <3>1. Linked(d)
      BY <1>2 DEF Linked
    <3>2. \A e \in Device : Linked(e)' <=> Linked(e) /\ e # d
      BY <1>2, <1>5, <2>2 DEF Linked
    <3> QED BY <1>2, <1>5, <2>2, <3>1, <3>2 DEF Leaves
  <2>6. job' # job
    BY <1>2, <2>2
  <2> QED BY <1>7, <2>3, <2>4, <2>5, <2>6 DEF d
<1> QED BY <1>5, <1>6, <1>7

-----------------------------------------------------------------------------
(* The lists stay in order. *)

LEMMA MembersType ==
  /\ Members \in [Block -> SUBSET Device]
  /\ TypeOK => \A d \in Device : Linked(d) =>
                 /\ BlockOf(range[d].start) \in Block
                 /\ d \in Members[BlockOf(range[d].start)]
BY DEF Members, TypeOK, AddressRange, Block

LEMMA MembersSame ==
  ASSUME SameMembers
  PROVE  Members' = Members
BY DEF SameMembers, Members

LEMMA MembersEnter ==
  ASSUME NEW d, Enters(d), NEW b \in Block, b = BlockOf(range[d].start)
  PROVE  /\ Members' = [Members EXCEPT ![b] = @ \cup {d}]
         /\ \A c \in Block : d \notin Members[c]
BY DEF Enters, Members

LEMMA MembersLeave ==
  ASSUME NEW d, Leaves(d), NEW b \in Block, b = BlockOf(range[d].start)
  PROVE  /\ Members' = [Members EXCEPT ![b] = @ \ {d}]
         /\ d \in Members[b]
         /\ \A c \in Block : d \in Members[c] => c = b
BY DEF Leaves, Members

(* map, when the block is empty *)
LEMMA EnterEmpty ==
  ASSUME NEW m \in [Block -> SUBSET Device], NEW first \in [Block -> Link],
         NEW link \in [Device -> Link], NEW pos \in [Device -> Nat],
         Ascending(m, first, link, pos),
         NEW b \in Block, NEW d \in Device, \A c \in Block : d \notin m[c],
         first[b] = NULL, link[d] = NULL, NULL \notin Device
  PROVE  Ascending([m EXCEPT ![b] = @ \cup {d}], [first EXCEPT ![b] = d],
                   link, pos)
<1> DEFINE n == [m EXCEPT ![b] = @ \cup {d}]
           f == [first EXCEPT ![b] = d]
<1>1. /\ m[b] = {} /\ n[b] = {d} /\ f[b] = d
      /\ \A c \in Block \ {b} : n[c] = m[c] /\ f[c] = first[c]
  BY DEF Ascending
<1>2. pos[d] \in Nat
  OBVIOUS
<1> HIDE DEF n, f
<1> QED BY <1>1, <1>2 DEF Ascending, n, f

(* map, behind the last device of a list *)
LEMMA EnterLast ==
  ASSUME NEW m \in [Block -> SUBSET Device], NEW first \in [Block -> Link],
         NEW link \in [Device -> Link], NEW pos \in [Device -> Nat],
         Ascending(m, first, link, pos), NULL \notin Device,
         NEW b \in Block, NEW d \in Device, \A c \in Block : d \notin m[c],
         \A c \in Block, e \in m[b] : e \in m[c] => c = b,
         NEW last \in m[b], link[last] = NULL, link[d] = NULL
  PROVE  Ascending([m EXCEPT ![b] = @ \cup {d}], first,
                   [link EXCEPT ![last] = d],
                   [pos EXCEPT ![d] = pos[last] + 1])
<1> DEFINE n == [m EXCEPT ![b] = @ \cup {d}]
           l == [link EXCEPT ![last] = d]
           p == [pos EXCEPT ![d] = pos[last] + 1]
<1>1. /\ n[b] = m[b] \cup {d} /\ \A c \in Block \ {b} : n[c] = m[c]
      /\ l[last] = d /\ l[d] = NULL /\ d # last
      /\ \A e \in Device \ {last} : l[e] = link[e]
      /\ p[d] = pos[last] + 1 /\ \A e \in Device \ {d} : p[e] = pos[e]
      /\ \A e \in Device : p[e] \in Nat /\ pos[e] \in Nat
  OBVIOUS
<1>2. first[b] # NULL /\ \A e \in m[b] : pos[e] <= pos[last]
  BY DEF Ascending
<1> HIDE DEF n, l, p
<1>3. ASSUME NEW c \in Block, c # b
      PROVE  /\ IF first[c] = NULL THEN n[c] = {}
                ELSE first[c] \in n[c] /\ \A e \in n[c] : p[first[c]] <= p[e]
             /\ \A x, e \in n[c] : p[x] = p[e] => x = e
             /\ \A x \in n[c] :
                  IF l[x] = NULL THEN \A e \in n[c] : p[e] <= p[x]
                  ELSE /\ l[x] \in n[c] /\ p[x] < p[l[x]]
                       /\ \A e \in n[c] : p[e] <= p[x] \/ p[l[x]] <= p[e]
  <2>1. /\ n[c] = m[c] /\ last \notin m[c]
        /\ \A e \in m[c] : p[e] = pos[e] /\ l[e] = link[e]
    BY <1>1, <1>3
  <2> QED BY <2>1 DEF Ascending
<1>4. /\ first[b] \in n[b] /\ \A e \in n[b] : p[first[b]] <= p[e]
      /\ \A x, e \in n[b] : p[x] = p[e] => x = e
  <2>1. \A e \in m[b] : p[e] = pos[e] /\ p[e] < p[d]
    BY <1>1, <1>2
  <2>2. first[b] \in m[b] /\ \A e \in m[b] : pos[first[b]] <= pos[e]
    BY <1>2 DEF Ascending
  <2>3. \A x, e \in m[b] : pos[x] = pos[e] => x = e
    BY DEF Ascending
  <2> QED BY <1>1, <2>1, <2>2, <2>3
<1>5. ASSUME NEW x \in n[b]
      PROVE  IF l[x] = NULL THEN \A e \in n[b] : p[e] <= p[x]
             ELSE /\ l[x] \in n[b] /\ p[x] < p[l[x]]
                  /\ \A e \in n[b] : p[e] <= p[x] \/ p[l[x]] <= p[e]
  <2>1. \A e \in m[b] : p[e] = pos[e] /\ p[e] < p[d] /\ e \in Device
    BY <1>1, <1>2
  <2>2. CASE x = d
    BY <1>1, <2>1, <2>2
  <2>3. CASE x = last
    BY <1>1, <1>2, <2>1, <2>3
  <2>4. CASE x \in m[b] \ {last}
    <3>1. link[x] # NULL
      <4>1. pos[x] # pos[last] /\ pos[x] <= pos[last]
        BY <1>2, <2>4 DEF Ascending
      <4>2. ~(pos[last] <= pos[x])
        BY <1>1, <2>1, <2>4, <4>1
      <4> QED BY <2>4, <4>2 DEF Ascending
    <3>2. /\ link[x] \in m[b] /\ pos[x] < pos[link[x]]
          /\ \A e \in m[b] : pos[e] <= pos[x] \/ pos[link[x]] <= pos[e]
      BY <2>4, <3>1 DEF Ascending
    <3>3. l[x] = link[x] /\ link[x] \in Device
      BY <1>1, <2>4, <3>2
    <3>4. p[link[x]] < p[d]
      BY <2>1, <3>2
    <3> QED BY <1>1, <2>1, <2>4, <3>1, <3>2, <3>3, <3>4
  <2> QED BY <1>1, <2>2, <2>3, <2>4
<1> QED BY <1>2, <1>3, <1>4, <1>5 DEF Ascending, n, l, p

(* unmap of the first device of a list *)
LEMMA LeaveFirst ==
  ASSUME NEW m \in [Block -> SUBSET Device], NEW first \in [Block -> Link],
         NEW link \in [Device -> Link], NEW pos \in [Device -> Nat],
         Ascending(m, first, link, pos), NULL \notin Device,
         NEW b \in Block, NEW d \in m[b], first[b] = d,
         \A c \in Block : d \in m[c] => c = b
  PROVE  Ascending([m EXCEPT ![b] = @ \ {d}], [first EXCEPT ![b] = link[d]],
                   link, pos)
<1> DEFINE n == [m EXCEPT ![b] = @ \ {d}]
           f == [first EXCEPT ![b] = link[d]]
<1>1. /\ n[b] = m[b] \ {d} /\ \A c \in Block \ {b} : n[c] = m[c]
      /\ f[b] = link[d] /\ \A c \in Block \ {b} : f[c] = first[c]
      /\ \A e \in m[b] : pos[e] \in Nat /\ e \in Device
  OBVIOUS
<1> HIDE DEF n, f
<1>2. /\ \A e \in m[b] : pos[d] <= pos[e]
      /\ \A x, e \in m[b] : pos[x] = pos[e] => x = e
      /\ \A x \in m[b] :
           IF link[x] = NULL THEN \A e \in m[b] : pos[e] <= pos[x]
           ELSE /\ link[x] \in m[b] /\ pos[x] < pos[link[x]]
                /\ \A e \in m[b] : pos[e] <= pos[x] \/ pos[link[x]] <= pos[e]
  <2>1. d # NULL
    BY <1>1
  <2> QED BY <2>1 DEF Ascending
<1>3. \A e \in n[b] : e \in m[b] /\ pos[d] < pos[e]
  <2> TAKE e \in n[b]
  <2>1. e \in m[b] /\ e # d
    BY <1>1
  <2>2. pos[d] <= pos[e] /\ pos[d] # pos[e]
    BY <1>2, <2>1
  <2> QED BY <1>1, <2>1, <2>2
<1>4. IF f[b] = NULL THEN n[b] = {}
      ELSE f[b] \in n[b] /\ \A e \in n[b] : pos[f[b]] <= pos[e]
  <2>1. CASE link[d] = NULL
    <3>1. \A e \in m[b] : pos[e] <= pos[d]
      BY <1>2, <2>1
    <3> QED BY <1>1, <1>3, <2>1, <3>1
  <2>2. CASE link[d] # NULL
    <3>1. /\ link[d] \in m[b] /\ pos[d] < pos[link[d]]
          /\ \A e \in m[b] : pos[e] <= pos[d] \/ pos[link[d]] <= pos[e]
      BY <1>2, <2>2
    <3>2. link[d] # d
      BY <1>1, <3>1
    <3>3. \A e \in n[b] : ~(pos[e] <= pos[d])
      BY <1>1, <1>3
    <3> QED BY <1>1, <1>3, <2>2, <3>1, <3>2, <3>3
  <2> QED BY <2>1, <2>2
<1>5. ASSUME NEW x \in n[b]
      PROVE  IF link[x] = NULL THEN \A e \in n[b] : pos[e] <= pos[x]
             ELSE /\ link[x] \in n[b] /\ pos[x] < pos[link[x]]
                  /\ \A e \in n[b] : pos[e] <= pos[x] \/ pos[link[x]] <= pos[e]
  <2>1. link[x] # NULL => link[x] \in m[b] /\ pos[x] < pos[link[x]]
    BY <1>2, <1>3, <1>5
  <2>2. link[x] # NULL => link[x] # d
    BY <1>1, <1>3, <1>5, <2>1
  <2> QED BY <1>1, <1>2, <1>3, <1>5, <2>1, <2>2
<1>6. \A x, e \in n[b] : pos[x] = pos[e] => x = e
  BY <1>2, <1>3
<1>7. ASSUME NEW c \in Block, c # b
      PROVE  n[c] = m[c] /\ f[c] = first[c]
  BY <1>1, <1>7
<1> QED BY <1>4, <1>5, <1>6, <1>7 DEF Ascending, n, f

(* unmap of a device behind another *)
LEMMA LeaveNext ==
  ASSUME NEW m \in [Block -> SUBSET Device], NEW first \in [Block -> Link],
         NEW link \in [Device -> Link], NEW pos \in [Device -> Nat],
         Ascending(m, first, link, pos), NULL \notin Device,
         NEW b \in Block, NEW d \in m[b], NEW before \in m[b],
         link[before] = d,
         \A c \in Block, e \in m[b] : e \in m[c] => c = b
  PROVE  Ascending([m EXCEPT ![b] = @ \ {d}], first,
                   [link EXCEPT ![before] = link[d]], pos)
<1> DEFINE n == [m EXCEPT ![b] = @ \ {d}]
           l == [link EXCEPT ![before] = link[d]]
<1>1. /\ n[b] = m[b] \ {d} /\ \A c \in Block \ {b} : n[c] = m[c]
      /\ l[before] = link[d] /\ \A e \in Device \ {before} : l[e] = link[e]
      /\ \A e \in m[b] : pos[e] \in Nat /\ e \in Device
      /\ d # NULL
  OBVIOUS
<1> HIDE DEF n, l
<1>2. /\ \A x, e \in m[b] : pos[x] = pos[e] => x = e
      /\ \A x \in m[b] :
           IF link[x] = NULL THEN \A e \in m[b] : pos[e] <= pos[x]
           ELSE /\ link[x] \in m[b] /\ pos[x] < pos[link[x]]
                /\ \A e \in m[b] : pos[e] <= pos[x] \/ pos[link[x]] <= pos[e]
  BY DEF Ascending
<1>3. /\ pos[before] < pos[d] /\ before # d
      /\ \A e \in m[b] : pos[e] <= pos[before] \/ pos[d] <= pos[e]
  BY <1>1, <1>2
<1>4. /\ first[b] # NULL /\ first[b] \in n[b]
      /\ \A e \in n[b] : pos[first[b]] <= pos[e]
  <2>1. /\ first[b] # NULL /\ first[b] \in m[b]
        /\ \A e \in m[b] : pos[first[b]] <= pos[e]
    BY DEF Ascending
  <2>2. first[b] # d
    BY <1>1, <1>3, <2>1
  <2> QED BY <1>1, <2>1, <2>2
<1>5. ASSUME NEW x \in n[b]
      PROVE  IF l[x] = NULL THEN \A e \in n[b] : pos[e] <= pos[x]
             ELSE /\ l[x] \in n[b] /\ pos[x] < pos[l[x]]
                  /\ \A e \in n[b] : pos[e] <= pos[x] \/ pos[l[x]] <= pos[e]
  <2>0. x \in m[b] /\ x # d
    BY <1>1, <1>5
  <2>1. CASE x = before /\ link[d] = NULL
    <3>1. \A e \in m[b] : pos[e] <= pos[d]
      BY <1>2, <2>1
    <3>2. \A e \in n[b] : pos[e] <= pos[before]
      <4> TAKE e \in n[b]
      <4>1. e \in m[b] /\ e # d
        BY <1>1
      <4>2. pos[e] <= pos[d] /\ pos[e] # pos[d]
        BY <1>2, <3>1, <4>1
      <4> QED BY <1>1, <1>3, <4>1, <4>2
    <3> QED BY <1>1, <2>1, <3>2
  <2>2. CASE x = before /\ link[d] # NULL
    <3>1. /\ link[d] \in m[b] /\ pos[d] < pos[link[d]]
          /\ \A e \in m[b] : pos[e] <= pos[d] \/ pos[link[d]] <= pos[e]
      BY <1>2, <2>2
    <3>2. l[x] = link[d] /\ link[d] # d
      BY <1>1, <2>2, <3>1
    <3>3. pos[x] < pos[link[d]]
      BY <1>1, <1>3, <2>2, <3>1
    <3>4. \A e \in n[b] : pos[e] <= pos[x] \/ pos[link[d]] <= pos[e]
      <4> TAKE e \in n[b]
      <4>1. e \in m[b] /\ pos[e] # pos[d]
        BY <1>1, <1>2
      <4> QED BY <1>1, <1>3, <2>2, <3>1, <4>1
    <3> QED BY <1>1, <2>2, <3>1, <3>2, <3>3, <3>4
  <2>3. CASE x # before
    <3>1. l[x] = link[x]
      BY <1>1, <2>0, <2>3
    <3>2. link[x] # d
      <4> SUFFICES ASSUME link[x] = d PROVE FALSE
        OBVIOUS
      <4>1. /\ pos[x] < pos[d]
            /\ \A e \in m[b] : pos[e] <= pos[x] \/ pos[d] <= pos[e]
        BY <1>1, <1>2, <2>0
      <4>2. pos[before] <= pos[x] /\ pos[x] <= pos[before]
        BY <1>1, <1>3, <2>0, <4>1
      <4>3. pos[before] = pos[x]
        BY <1>1, <2>0, <4>2
      <4> QED BY <1>2, <2>0, <2>3, <4>3
    <3> QED BY <1>1, <1>2, <2>0, <3>1, <3>2
  <2> QED BY <2>1, <2>2, <2>3
<1>6. \A x, e \in n[b] : pos[x] = pos[e] => x = e
  BY <1>1, <1>2
<1>7. ASSUME NEW c \in Block, c # b
      PROVE  n[c] = m[c] /\ \A e \in m[c] : l[e] = link[e]
  BY <1>1, <1>7
<1> QED BY <1>4, <1>5, <1>6, <1>7 DEF Ascending, n, l

(* Links of devices outside the lists do not matter. *)
LEMMA AscendingLinks ==
  ASSUME NEW m, NEW first, NEW link, NEW other, NEW pos,
         Ascending(m, first, link, pos),
         \A b \in Block : \A e \in m[b] : other[e] = link[e]
  PROVE  Ascending(m, first, other, pos)
BY DEF Ascending

(* The calls that change no list *)
LEMMA OrderedApart ==
  ASSUME TypeOK, JobInv, NEW pos \in [Device -> Nat], Ordered(pos),
         NewDevice \/ MoveStart \/ MoveEnd \/ Unlink \/ Delete
  PROVE  Ordered(pos)'
<1> DEFINE d == Head(job).dev
<1>1. SameMembers /\ JobInv'
  BY NewDeviceStep, MoveStep, UnlinkStep, DeleteStep
<1>2. /\ job # <<>> /\ job' = Tail(job) /\ cursor' = NULL /\ blocks' = blocks
      /\ Head(job).op \in {"new", "start", "end", "unlink", "delete"}
      /\ next' = next \/ next' = [next EXCEPT ![d] = NULL]
      /\ Head(job).op \in {"new", "unlink"} => next' = [next EXCEPT ![d] = NULL]
      /\ Head(job).op = "new" => live' = live \cup {d}
      /\ Head(job).op = "delete" => live' = live \ {d}
      /\ Head(job).op \notin {"new", "delete"} => live' = live
  BY DEF NewDevice, MoveStart, MoveEnd, Unlink, Delete, Current, Done
<1>3. /\ Head(job) \in Jobs /\ Due(job, d) = Head(job).op
      /\ \A e \in Device : e # d => Due(job', e) = Due(job, e)
  BY <1>2, JobAdvance
<1>4. d \in Device /\ ~Linked(d)
  <2>1. d \in Device
    BY <1>3, CallType
  <2> QED BY <1>2, <1>3, <2>1 DEF Linked, JobInv
<1> HIDE DEF d
<1>5. Ascending(Members, blocks, next', pos)
  <2>1. \A b \in Block : \A e \in Members[b] : e \in Device /\ Linked(e)
    BY DEF Members
  <2>2. \A b \in Block : \A e \in Members[b] : next'[e] = next[e]
    BY <1>2, <1>4, <2>1 DEF TypeOK
  <2> QED BY <2>2, AscendingLinks DEF Ordered
<1>6. Ascending(Members, blocks, next, pos)'
  <2>1. Members' = Members
    BY <1>1, MembersSame
  <2> QED BY <1>2, <1>5, <2>1
<1>7. Loose'
  <2>1. ASSUME NEW e \in Device, e \in live', ~Linked(e)', Due(job', e) # "unlink"
        PROVE  next'[e] = NULL
    <3>1. ~Linked(e)
      BY <1>1, <2>1 DEF SameMembers
    <3>2. CASE e # d
      <4>1. e \in live /\ Due(job, e) # "unlink"
        BY <1>2, <1>3, <2>1, <3>2
      <4>2. next[e] = NULL
        BY <3>1, <4>1 DEF Ordered, Loose
      <4> QED BY <1>2, <1>4, <3>2, <4>2 DEF TypeOK
    <3>3. CASE e = d /\ Head(job).op \in {"new", "unlink"}
      BY <1>2, <1>4, <3>3 DEF TypeOK
    <3>4. CASE e = d /\ Head(job).op \in {"start", "end"}
      <4>1. next[d] = NULL
        BY <1>2, <1>3, <1>4, <2>1, <3>1, <3>4 DEF Ordered, Loose
      <4> QED BY <1>2, <1>4, <3>4, <4>1 DEF TypeOK
    <3>5. CASE e = d /\ Head(job).op = "delete"
      BY <1>2, <2>1, <3>5
    <3> QED BY <1>2, <3>2, <3>3, <3>4, <3>5
  <2> QED BY <2>1 DEF Loose
<1>8. CursorInv(pos)'
  BY <1>2 DEF CursorInv
<1> QED BY <1>6, <1>7, <1>8 DEF Ordered

(* While map or unmap walks, nothing changes but the cursor. *)
LEMMA OrderedWalking ==
  ASSUME TypeOK, NEW pos \in [Device -> Nat], Ordered(pos),
         UNCHANGED <<mapVars, job>>, SameMembers, CursorInv(pos)'
  PROVE  Ordered(pos)'
<1>1. Members' = Members /\ \A e \in Device : Linked(e)' <=> Linked(e)
  BY MembersSame DEF SameMembers
<1>2. Ascending(Members, blocks, next, pos)'
  BY <1>1 DEF Ordered, mapVars
<1>3. Loose'
  BY <1>1 DEF Ordered, Loose, mapVars
<1> QED BY <1>2, <1>3 DEF Ordered

(* map: a newly mapped device comes last in the order. *)
LEMMA OrderedMap ==
  ASSUME NULL \notin Device, TypeOK, JobInv,
         NEW pos \in [Device -> Nat], Ordered(pos), MapFirst \/ MapNext
  PROVE  \E p \in [Device -> Nat] :
           /\ Ordered(p)'
           /\ \A e \in Device : Linked(e) => p[e] = pos[e]
<1> DEFINE d == Head(job).dev
           b == BlockOf(range[d].start)
<1>1. job # <<>> /\ Head(job).op = "map"
  BY DEF MapFirst, MapNext, Current
<1>2. /\ Head(job) \in Jobs /\ d \in Device /\ Due(job, d) = "map"
      /\ d \in live /\ ~Linked(d)
  <2>1. job \in Seq(Jobs)
    BY DEF TypeOK
  <2>2. Head(job) \in Jobs /\ Due(job, d) = "map"
    BY <1>1, <2>1, DueHead
  <2> QED BY <2>2, CallType DEF JobInv, Linked
<1>3. b \in Block /\ next[d] = NULL
  BY <1>2 DEF TypeOK, Block, AddressRange, Ordered, Loose
<1>4. /\ Members \in [Block -> SUBSET Device] /\ blocks \in [Block -> Link]
      /\ next \in [Device -> Link]
      /\ Ascending(Members, blocks, next, pos)
  BY MembersType DEF TypeOK, Link, Ordered
<1>5. CASE job' = job
  <2>1. SameMembers
    BY <1>5, MapStep
  <2>2. /\ UNCHANGED <<mapVars, job>>
        /\ \/ cursor = NULL /\ blocks[b] # NULL /\ cursor' = blocks[b]
           \/ cursor # NULL /\ next[cursor] # NULL /\ cursor' = next[cursor]
    <3>1. job' # Tail(job)
      BY <1>1, <1>5 DEF TypeOK
    <3> QED BY <1>5, <3>1 DEF MapFirst, MapNext, Done, mapVars
  <2>3. cursor' \in Members[b]
    <3>1. cursor # NULL => cursor \in Members[b]
      BY DEF Ordered, CursorInv
    <3> QED BY <1>3, <1>4, <2>2, <3>1 DEF Ascending
  <2>4. Members' = Members
    BY <2>1, MembersSame
  <2>5. CursorInv(pos)'
    BY <1>1, <2>2, <2>3, <2>4 DEF CursorInv, mapVars
  <2> QED BY <2>1, <2>2, <2>5, OrderedWalking
<1>6. CASE job' # job
  <2>1. Enters(d) /\ range' = range /\ live' = live
    BY <1>6, MapStep DEF MapFirst, MapNext, Enters
  <2>2. /\ Members' = [Members EXCEPT ![b] = @ \cup {d}]
        /\ \A c \in Block : d \notin Members[c]
    BY <1>3, <2>1, MembersEnter
  <2>3. /\ job' = Tail(job) /\ cursor' = NULL
        /\ \/ /\ blocks[b] = NULL
              /\ blocks' = [blocks EXCEPT ![b] = d] /\ next' = next
           \/ /\ cursor # NULL /\ next[cursor] = NULL
              /\ blocks' = blocks /\ next' = [next EXCEPT ![cursor] = d]
    BY <1>6 DEF MapFirst, MapNext, Done
  <2>4. \A e \in Device : e # d => Due(job', e) = Due(job, e)
    BY <1>1, <2>3, JobAdvance
  <2>5. CursorInv(pos)' /\ \A p : CursorInv(p)'
    BY <2>3 DEF CursorInv
  <2>6. ASSUME \A e \in Device : ~Linked(e) /\ e # d => next'[e] = next[e]
        PROVE  Loose'
    <3>1. ASSUME NEW e \in Device,
                 e \in live', ~Linked(e)', Due(job', e) # "unlink"
          PROVE  next'[e] = NULL
      <4>1. e # d /\ ~Linked(e)
        BY <2>1, <3>1 DEF Enters
      <4>2. next[e] = NULL
        BY <2>1, <2>4, <3>1, <4>1 DEF Ordered, Loose
      <4> QED BY <2>6, <4>1, <4>2
    <3> QED BY <3>1 DEF Loose
  <2>7. CASE /\ blocks[b] = NULL
             /\ blocks' = [blocks EXCEPT ![b] = d] /\ next' = next
    <3>1. Ascending(Members', blocks', next', pos)
      BY <1>2, <1>3, <1>4, <2>2, <2>7, EnterEmpty
    <3>2. Loose'
      BY <2>6, <2>7
    <3>3. Ordered(pos)'
      BY <2>5, <3>1, <3>2 DEF Ordered
    <3> QED BY <3>3
  <2>8. CASE /\ cursor # NULL /\ next[cursor] = NULL
             /\ blocks' = blocks /\ next' = [next EXCEPT ![cursor] = d]
    <3> DEFINE p == [pos EXCEPT ![d] = pos[cursor] + 1]
    <3>1. cursor \in Members[b] /\ cursor \in Device /\ Linked(cursor)
      BY <1>3, <2>8 DEF Ordered, CursorInv, Members
    <3>2. \A c \in Block, e \in Members[b] : e \in Members[c] => c = b
      BY <1>3 DEF Members
    <3>3. Ascending(Members', blocks', next', p)
      BY <1>2, <1>3, <1>4, <2>2, <2>8, <3>1, <3>2, EnterLast
    <3>4. Loose'
      BY <1>4, <2>6, <2>8, <3>1
    <3>5. p \in [Device -> Nat] /\ \A e \in Device : Linked(e) => p[e] = pos[e]
      BY <1>2, <3>1
    <3>6. PICK q \in [Device -> Nat] : q = p
      BY <3>5
    <3>7. Ascending(Members', blocks', next', q)
      BY <3>3, <3>6
    <3>8. Ordered(q)'
      BY <2>5, <3>4, <3>7 DEF Ordered
    <3> QED BY <3>5, <3>6, <3>8
  <2> QED BY <2>3, <2>7, <2>8
<1> QED BY <1>5, <1>6

(* unmap *)
LEMMA OrderedUnmap ==
  ASSUME NULL \notin Device, TypeOK, JobInv,
         NEW pos \in [Device -> Nat], Ordered(pos), UnmapFirst \/ UnmapNext
  PROVE  Ordered(pos)'
<1> DEFINE d == Head(job).dev
           b == BlockOf(range[d].start)
<1>1. job # <<>> /\ Head(job).op = "unmap"
  BY DEF UnmapFirst, UnmapNext, Current
<1>2. /\ Head(job) \in Jobs /\ d \in Device /\ Due(job, d) = "unmap"
      /\ Linked(d)
  <2>1. job \in Seq(Jobs)
    BY DEF TypeOK
  <2>2. Head(job) \in Jobs /\ Due(job, d) = "unmap"
    BY <1>1, <2>1, DueHead
  <2> QED BY <2>2, CallType DEF JobInv, Linked
<1>3. b \in Block /\ d \in Members[b]
  BY <1>2, MembersType
<1>4. /\ Members \in [Block -> SUBSET Device] /\ blocks \in [Block -> Link]
      /\ next \in [Device -> Link]
      /\ Ascending(Members, blocks, next, pos)
  BY MembersType DEF TypeOK, Link, Ordered
<1>5. /\ blocks[b] # NULL /\ blocks[b] \in Members[b]
      /\ \A e \in Members[b] : pos[blocks[b]] <= pos[e]
      /\ \A x, e \in Members[b] : pos[x] = pos[e] => x = e
      /\ \A e \in Members[b] : e \in Device /\ pos[e] \in Nat
  BY <1>3, <1>4 DEF Ascending
<1>6. cursor # NULL =>
        /\ cursor \in Members[b] /\ pos[cursor] < pos[d]
        /\ next[cursor] # NULL /\ next[cursor] \in Members[b]
        /\ pos[next[cursor]] <= pos[d]
  <2> SUFFICES ASSUME cursor # NULL
               PROVE  /\ cursor \in Members[b] /\ pos[cursor] < pos[d]
                      /\ next[cursor] # NULL /\ next[cursor] \in Members[b]
                      /\ pos[next[cursor]] <= pos[d]
    OBVIOUS
  <2>1. cursor \in Members[b] /\ pos[cursor] < pos[d]
    BY <1>1 DEF Ordered, CursorInv
  <2>2. ~(pos[d] <= pos[cursor])
    <3>1. cursor \in Device /\ d \in Device
      BY <1>3, <1>5, <2>1
    <3>2. pos[cursor] \in Nat /\ pos[d] \in Nat
      BY <3>1
    <3> QED BY <2>1, <3>2
  <2> QED BY <1>3, <1>4, <2>1, <2>2 DEF Ascending
<1>7. CASE job' = job
  <2>1. SameMembers
    BY <1>7, UnmapStep DEF Ordered
  <2>2. Members' = Members
    BY <2>1, MembersSame
  <2>3. /\ UNCHANGED <<mapVars, job>>
        /\ \/ cursor = NULL /\ blocks[b] # d /\ cursor' = blocks[b]
           \/ cursor # NULL /\ next[cursor] # d /\ cursor' = next[cursor]
    <3>1. ~ThenUnlink(d)
      <4> SUFFICES ASSUME ThenUnlink(d) PROVE FALSE
        OBVIOUS
      <4>1. job' = <<Call("unlink", d)>> \o Tail(job)
        BY DEF ThenUnlink
      <4>2. Due(job', d) = "unlink"
        BY <1>1, <4>1, JobUnlink
      <4> QED BY <1>2, <1>7, <4>2
    <3> QED BY <1>5, <1>6, <1>7, <3>1 DEF UnmapFirst, UnmapNext, mapVars
  <2>4. cursor' \in Members[b] /\ pos[cursor'] < pos[d]
    <3>1. CASE cursor = NULL
      <4>1. pos[blocks[b]] <= pos[d] /\ pos[blocks[b]] # pos[d]
        BY <1>3, <1>5, <2>3, <3>1
      <4>2. cursor' = blocks[b] /\ blocks[b] \in Members[b]
        BY <1>5, <2>3, <3>1
      <4>3. pos[blocks[b]] \in Nat /\ pos[d] \in Nat
        BY <1>3, <1>5
      <4> QED BY <4>1, <4>2, <4>3
    <3>2. CASE cursor # NULL
      <4>1. next[cursor] \in Members[b] /\ pos[next[cursor]] <= pos[d]
            /\ pos[next[cursor]] # pos[d]
        BY <1>3, <1>5, <1>6, <2>3, <3>2
      <4>2. cursor' = next[cursor]
        BY <2>3, <3>2
      <4>3. pos[next[cursor]] \in Nat /\ pos[d] \in Nat
        BY <1>3, <1>5, <4>1
      <4> QED BY <4>1, <4>2, <4>3
    <3> QED BY <3>1, <3>2
  <2>5. CursorInv(pos)'
    BY <1>1, <2>2, <2>3, <2>4 DEF CursorInv, mapVars
  <2> QED BY <2>1, <2>3, <2>5, OrderedWalking
<1>8. CASE job' # job
  <2>1. Leaves(d) /\ ThenUnlink(d)
    BY <1>8, UnmapStep DEF Ordered
  <2>2. /\ Members' = [Members EXCEPT ![b] = @ \ {d}]
        /\ \A c \in Block : d \in Members[c] => c = b
    BY <1>3, <2>1, MembersLeave
  <2>3. /\ job' = <<Call("unlink", d)>> \o Tail(job) /\ cursor' = NULL
        /\ live' = live
        /\ \/ /\ blocks[b] = d
              /\ blocks' = [blocks EXCEPT ![b] = next[d]] /\ next' = next
           \/ /\ cursor # NULL /\ next[cursor] = d
              /\ blocks' = blocks /\ next' = [next EXCEPT ![cursor] = next[d]]
    BY <1>5, <1>6, <1>8, <2>1 DEF UnmapFirst, UnmapNext, ThenUnlink
  <2>4. \A e \in Device : e # d => Due(job', e) = Due(job, e)
    BY <1>1, <2>3, JobUnlink
  <2>5. CursorInv(pos)'
    BY <2>3 DEF CursorInv
  <2>6. Loose'
    <3>1. ASSUME NEW e \in Device,
                 e \in live', ~Linked(e)', Due(job', e) # "unlink"
          PROVE  next'[e] = NULL
      <4>1. e # d /\ ~Linked(e)
        BY <2>1, <3>1 DEF Leaves
      <4>2. next[e] = NULL
        BY <2>3, <2>4, <3>1, <4>1 DEF Ordered, Loose
      <4>3. cursor # NULL => Linked(cursor)
        BY <1>3, <1>6 DEF Members
      <4> QED BY <1>4, <2>3, <4>1, <4>2, <4>3
    <3> QED BY <3>1 DEF Loose
  <2>7. Ascending(Members', blocks', next', pos)
    <3>1. CASE /\ blocks[b] = d
               /\ blocks' = [blocks EXCEPT ![b] = next[d]] /\ next' = next
      BY <1>3, <1>4, <2>2, <3>1, LeaveFirst
    <3>2. CASE /\ cursor # NULL /\ next[cursor] = d
               /\ blocks' = blocks /\ next' = [next EXCEPT ![cursor] = next[d]]
      <4>1. \A c \in Block, e \in Members[b] : e \in Members[c] => c = b
        BY <1>3 DEF Members
      <4> QED BY <1>3, <1>4, <1>6, <2>2, <3>2, <4>1, LeaveNext
    <3> QED BY <2>3, <3>1, <3>2
  <2> QED BY <2>5, <2>6, <2>7 DEF Ordered
<1> QED BY <1>7, <1>8

-----------------------------------------------------------------------------
(* The handlers and the constructor post jobs that fit the devices' state. *)

(* d will be in the map when the job is over. *)
Kept(d) ==
  IF Due(job, d) = "none" THEN d \in live
  ELSE \E i \in DOMAIN job : job[i].dev = d /\ job[i].op = "map"

(* The debugger's two devices come and go together. *)
IoInv == Kept(Led) <=> Kept(Dip)

(* Of the calls of q about a device, the first takes it from where it is. *)
FirstCallsFit(q) ==
  \A i \in DOMAIN q :
    (\A j \in DOMAIN q : j < i => q[j].dev # q[i].dev)
      => q[i].op = IF q[i].dev \in live THEN "unmap" ELSE "new"

LEMMA Posted ==
  ASSUME TypeOK, NEW q \in Seq(Jobs), WellFormed(q), FirstCallsFit(q),
         job = <<>>, job' = q, live' = live, range' = range
  PROVE  /\ JobInv' /\ SameMembers
         /\ \A d \in Device : Due(job', d) \in {"none", "unmap", "new"}
<1>1. \A d \in Device : Due(job, d) = "none"
  BY DueEmpty
<1>2. ASSUME NEW d \in Device
      PROVE  Due(q, d) \in {"none", IF d \in live THEN "unmap" ELSE "new"}
  <2> SUFFICES ASSUME Due(q, d) # "none"
               PROVE  Due(q, d) = IF d \in live THEN "unmap" ELSE "new"
    OBVIOUS
  <2>1. PICK n \in DOMAIN q : /\ q[n].dev = d /\ q[n].op = Due(q, d)
                              /\ \A j \in DOMAIN q : j < n => q[j].dev # d
    BY DueSome
  <2> QED BY <2>1 DEF FirstCallsFit
<1>3. JobInv'
  BY <1>2 DEF JobInv
<1>4. SameMembers
  BY <1>1, <1>2 DEF SameMembers, Linked
<1> QED BY <1>2, <1>3, <1>4

LEMMA IoCalls ==
  ASSUME MapAssumption, NEW a \in [led : Address, dip : Address]
  PROVE  /\ New(Led, OneByte(a.led)) \in Jobs /\ New(Dip, OneByte(a.dip)) \in Jobs
         /\ \A d \in {Led, Dip} : /\ Call("map", d) \in Jobs
                                 /\ Call("unmap", d) \in Jobs
                                 /\ Call("delete", d) \in Jobs
         /\ CreateIo(a) \in Seq(Jobs) /\ DestroyIo \in Seq(Jobs)
         /\ Led \in Device /\ Dip \in Device /\ Led # Dip
         /\ \A c \in Address : OneByte(c) \in AddressRange
<1>1. Led \in Device /\ Dip \in Device /\ Led # Dip
  BY DEF MapAssumption, Device
<1>2. a.led \in Address /\ a.dip \in Address
  OBVIOUS
<1>3. \A c \in Address : OneByte(c) \in AddressRange
  BY DEF OneByte, AddressRange
<1>4. /\ New(Led, OneByte(a.led)) \in Jobs /\ New(Dip, OneByte(a.dip)) \in Jobs
      /\ \A d \in {Led, Dip} : /\ Call("map", d) \in Jobs
                              /\ Call("unmap", d) \in Jobs
                              /\ Call("delete", d) \in Jobs
  BY <1>1, <1>2, <1>3 DEF New, Call, Jobs
<1> QED BY <1>1, <1>3, <1>4 DEF CreateIo, DestroyIo

LEMMA ConcatFours ==
  ASSUME NEW S, NEW a \in S, NEW b \in S, NEW c \in S, NEW d \in S,
         NEW e \in S, NEW f \in S, NEW g \in S, NEW h \in S
  PROVE  <<a, b, c, d>> \o <<e, f, g, h>> = <<a, b, c, d, e, f, g, h>>
<1> DEFINE s == <<a, b, c, d>>
           t == <<e, f, g, h>>
           u == <<a, b, c, d, e, f, g, h>>
<1>1. s \in Seq(S) /\ t \in Seq(S) /\ u \in Seq(S)
  OBVIOUS
<1>2. /\ Len(s) = 4 /\ s[1] = a /\ s[2] = b /\ s[3] = c /\ s[4] = d
      /\ Len(t) = 4 /\ t[1] = e /\ t[2] = f /\ t[3] = g /\ t[4] = h
      /\ Len(u) = 8 /\ u[1] = a /\ u[2] = b /\ u[3] = c /\ u[4] = d
      /\ u[5] = e /\ u[6] = f /\ u[7] = g /\ u[8] = h
  OBVIOUS
<1> HIDE DEF s, t, u
<1>3. /\ s \o t \in Seq(S) /\ Len(s \o t) = Len(s) + Len(t)
      /\ \A i \in 1 .. Len(s) + Len(t) :
           (s \o t)[i] = IF i <= Len(s) THEN s[i] ELSE t[i - Len(s)]
  BY <1>1, ConcatProperties
<1>4. \A i \in 1 .. Len(s \o t) : (s \o t)[i] = u[i]
  BY <1>2, <1>3
<1>5. s \o t = u
  <2> PICK v : v = s \o t
    OBVIOUS
  <2>1. v \in Seq(S) /\ Len(v) = Len(u) /\ \A i \in 1 .. Len(v) : v[i] = u[i]
    BY <1>2, <1>3, <1>4
  <2> QED BY <1>1, <2>1, SeqEqual
<1> QED BY <1>5 DEF s, t, u

LEMMA OpenDebuggerPost ==
  ASSUME MapAssumption, TypeOK, IoInv, OpenDebugger
  PROVE  /\ job' \in Seq(Jobs) /\ WellFormed(job') /\ FirstCallsFit(job')
         /\ IoInv'
<1> DEFINE q == <<New(Led, OneByte(io.led)), New(Dip, OneByte(io.dip)),
                  Call("map", Led), Call("map", Dip)>>
<1>1. q \in Seq(Jobs) /\ Led \in Device /\ Dip \in Device /\ Led # Dip
  BY IoCalls DEF TypeOK, CreateIo
<1>2. /\ DOMAIN q = 1 .. 4
      /\ q[1].op = "new" /\ q[1].dev = Led /\ q[2].op = "new" /\ q[2].dev = Dip
      /\ q[3].op = "map" /\ q[3].dev = Led /\ q[4].op = "map" /\ q[4].dev = Dip
  BY DEF New, Call
<1>3. /\ job = <<>> /\ job' = q /\ live' = live
  BY DEF OpenDebugger, Post, Idle, CreateIo, mapVars
<1>4. Led \notin live /\ Dip \notin live
  <2>1. Due(job, Led) = "none" /\ Due(job, Dip) = "none"
    BY <1>3, DueEmpty
  <2> QED BY <2>1 DEF IoInv, Kept, OpenDebugger, DebuggerOpen
<1> HIDE DEF q
<1>5. WellFormed(q)
  BY <1>1, <1>2 DEF WellFormed, Follows, Between
<1>6. FirstCallsFit(q)
  BY <1>1, <1>2, <1>4 DEF FirstCallsFit
<1>7. IoInv'
  <2>1. Due(q, Led) # "none" /\ Due(q, Dip) # "none"
    BY <1>1, <1>2, DueAbsent
  <2> QED BY <1>2, <1>3, <2>1 DEF IoInv, Kept
<1> QED BY <1>1, <1>3, <1>5, <1>6, <1>7

LEMMA CloseDebuggerPost ==
  ASSUME MapAssumption, TypeOK, IoInv, CloseDebugger
  PROVE  /\ job' \in Seq(Jobs) /\ WellFormed(job') /\ FirstCallsFit(job')
         /\ IoInv'
<1> DEFINE q == <<Call("unmap", Led), Call("unmap", Dip),
                  Call("delete", Led), Call("delete", Dip)>>
<1>1. q \in Seq(Jobs) /\ Led \in Device /\ Dip \in Device /\ Led # Dip
  BY IoCalls DEF TypeOK, DestroyIo
<1>2. /\ DOMAIN q = 1 .. 4
      /\ q[1].op = "unmap" /\ q[1].dev = Led
      /\ q[2].op = "unmap" /\ q[2].dev = Dip
      /\ q[3].op = "delete" /\ q[3].dev = Led
      /\ q[4].op = "delete" /\ q[4].dev = Dip
  BY DEF Call
<1>3. /\ job = <<>> /\ job' = q /\ live' = live
  BY DEF CloseDebugger, Post, Idle, DestroyIo, mapVars
<1>4. Led \in live /\ Dip \in live
  BY DEF CloseDebugger, DebuggerOpen
<1> HIDE DEF q
<1>5. WellFormed(q)
  BY <1>1, <1>2 DEF WellFormed, Follows, Between
<1>6. FirstCallsFit(q)
  BY <1>1, <1>2, <1>4 DEF FirstCallsFit
<1>7. IoInv'
  <2>1. Due(q, Led) # "none" /\ Due(q, Dip) # "none"
    BY <1>1, <1>2, DueAbsent
  <2> QED BY <1>2, <1>3, <2>1 DEF IoInv, Kept
<1> QED BY <1>1, <1>3, <1>5, <1>6, <1>7

LEMMA ChangeIoPost ==
  ASSUME MapAssumption, TypeOK, NEW choice \in IoChoices, ChangeIo(choice)
  PROVE  /\ job' \in Seq(Jobs) /\ WellFormed(job') /\ FirstCallsFit(job')
         /\ IoInv'
<1> DEFINE q == <<Call("unmap", Led), Call("unmap", Dip),
                  Call("delete", Led), Call("delete", Dip),
                  New(Led, OneByte(choice.led)), New(Dip, OneByte(choice.dip)),
                  Call("map", Led), Call("map", Dip)>>
<1>1. /\ Led \in Device /\ Dip \in Device /\ Led # Dip
      /\ CreateIo(choice) \in Seq(Jobs) /\ DestroyIo \in Seq(Jobs)
      /\ New(Led, OneByte(choice.led)) \in Jobs
      /\ New(Dip, OneByte(choice.dip)) \in Jobs
      /\ \A d \in {Led, Dip} : /\ Call("map", d) \in Jobs
                              /\ Call("unmap", d) \in Jobs
                              /\ Call("delete", d) \in Jobs
  <2>1. choice \in [led : Address, dip : Address]
    BY DEF MapAssumption
  <2> QED BY <2>1, IoCalls
<1>2. DestroyIo \o CreateIo(choice) = q /\ q \in Seq(Jobs)
  <2>1. DestroyIo \o CreateIo(choice) = q
    BY <1>1, ConcatFours DEF DestroyIo, CreateIo
  <2> QED BY <1>1, <2>1, ConcatProperties
<1>3. /\ DOMAIN q = 1 .. 8
      /\ q[1].op = "unmap" /\ q[1].dev = Led
      /\ q[2].op = "unmap" /\ q[2].dev = Dip
      /\ q[3].op = "delete" /\ q[3].dev = Led
      /\ q[4].op = "delete" /\ q[4].dev = Dip
      /\ q[5].op = "new" /\ q[5].dev = Led /\ q[6].op = "new" /\ q[6].dev = Dip
      /\ q[7].op = "map" /\ q[7].dev = Led /\ q[8].op = "map" /\ q[8].dev = Dip
  BY DEF New, Call
<1>4. /\ job = <<>> /\ job' = q /\ live' = live /\ Led \in live /\ Dip \in live
  BY <1>2 DEF ChangeIo, Post, Idle, DebuggerOpen, mapVars
<1> HIDE DEF q
<1>5. WellFormed(q)
  <2>1. \A i \in 1 .. 8 : q[i].dev = IF i \in {1, 3, 5, 7} THEN Led ELSE Dip
    BY <1>3
  <2>2. ASSUME NEW i \in 1 .. 8, NEW j \in 1 .. 8, i < j, q[i].dev = q[j].dev,
               \A k \in Between(q, i, j) : q[k].dev # q[i].dev
        PROVE  <<q[i].op, q[j].op>> \in Follows
    <3>1. i <= 6 /\ i + 2 <= j
      BY <1>1, <2>1, <2>2
    <3>2. ~(i + 2 < j)
      <4>1. i + 2 \in 1 .. 8 /\ q[i + 2].dev = q[i].dev
        BY <1>1, <2>1, <3>1
      <4> QED BY <1>3, <2>2, <4>1 DEF Between
    <3>3. j = i + 2
      BY <3>1, <3>2
    <3> QED BY <1>3, <3>1, <3>3 DEF Follows
  <2>3. ASSUME NEW i \in 1 .. 8,
               \A j \in 1 .. 8 : i < j => q[j].dev # q[i].dev
        PROVE  q[i].op \in {"map", "delete"}
    <3>1. i \in {7, 8}
      <4> SUFFICES ASSUME i <= 6 PROVE FALSE
        OBVIOUS
      <4>1. i + 2 \in 1 .. 8 /\ i < i + 2 /\ q[i + 2].dev = q[i].dev
        BY <1>1, <2>1
      <4> QED BY <2>3, <4>1
    <3> QED BY <1>3, <3>1
  <2> QED BY <1>3, <2>2, <2>3 DEF WellFormed
<1>6. FirstCallsFit(q)
  BY <1>1, <1>3, <1>4 DEF FirstCallsFit
<1>7. IoInv'
  <2>1. Due(q, Led) # "none" /\ Due(q, Dip) # "none"
    BY <1>2, <1>3, DueAbsent
  <2> QED BY <1>3, <1>4, <2>1 DEF IoInv, Kept
<1> QED BY <1>2, <1>4, <1>5, <1>6, <1>7

LEMMA CustomPost ==
  ASSUME MapAssumption, TypeOK, IoInv, NEW d \in Custom,
         \/ \E r \in Patterns : AddDevice(d, r) \/ EditDevice(d, r)
         \/ RemoveDevice(d)
  PROVE  /\ job' \in Seq(Jobs) /\ WellFormed(job') /\ FirstCallsFit(job')
         /\ IoInv'
<1>1. /\ job = <<>> /\ live' = live
      /\ d \in Device /\ d # Led /\ d # Dip /\ Led \in Device /\ Dip \in Device
  BY DEF AddDevice, EditDevice, RemoveDevice, Idle, Post, mapVars,
         MapAssumption, Device
<1>2. \A c \in {"map", "unmap", "delete"} :
        Call(c, d) \in Jobs /\ Call(c, d).op = c /\ Call(c, d).dev = d
  BY <1>1 DEF Call, Jobs
<1>3. ASSUME NEW q \in Seq(Jobs), job' = q, \A i \in DOMAIN q : q[i].dev = d
      PROVE  IoInv'
  <2>1. Due(q, Led) = "none" /\ Due(q, Dip) = "none"
    BY <1>1, <1>3, DueNone
  <2>2. Due(job, Led) = "none" /\ Due(job, Dip) = "none"
    BY <1>1, DueEmpty
  <2> QED BY <1>1, <1>3, <2>1, <2>2 DEF IoInv, Kept
<1>4. ASSUME NEW r \in Patterns, AddDevice(d, r)
      PROVE  /\ job' \in Seq(Jobs) /\ WellFormed(job') /\ FirstCallsFit(job')
             /\ IoInv'
  <2> DEFINE q == <<New(d, r), Call("map", d)>>
  <2>1. /\ New(d, r) \in Jobs /\ New(d, r).op = "new" /\ New(d, r).dev = d
    BY <1>1 DEF New, Jobs, MapAssumption
  <2>2. /\ q \in Seq(Jobs) /\ DOMAIN q = 1 .. 2
        /\ q[1].op = "new" /\ q[2].op = "map" /\ \A i \in 1 .. 2 : q[i].dev = d
    BY <1>2, <2>1
  <2>3. job' = q /\ d \notin live
    BY <1>4 DEF AddDevice, Post
  <2> HIDE DEF q
  <2>4. WellFormed(q)
    BY <2>2 DEF WellFormed, Follows, Between
  <2>5. FirstCallsFit(q)
    BY <2>2, <2>3 DEF FirstCallsFit
  <2> QED BY <1>3, <2>2, <2>3, <2>4, <2>5
<1>5. ASSUME NEW r \in Patterns, EditDevice(d, r)
      PROVE  /\ job' \in Seq(Jobs) /\ WellFormed(job') /\ FirstCallsFit(job')
             /\ IoInv'
  <2> DEFINE q == <<Call("unmap", d), SetStart(d, r.start), SetEnd(d, r.end),
                    Call("map", d)>>
  <2>1. /\ SetStart(d, r.start) \in Jobs /\ SetStart(d, r.start).op = "start"
        /\ SetStart(d, r.start).dev = d
        /\ SetEnd(d, r.end) \in Jobs /\ SetEnd(d, r.end).op = "end"
        /\ SetEnd(d, r.end).dev = d
    <3>1. r.start \in Address /\ r.end \in Address
      BY DEF MapAssumption, AddressRange
    <3> QED BY <1>1, <3>1 DEF SetStart, SetEnd, Jobs
  <2>2. /\ q \in Seq(Jobs) /\ DOMAIN q = 1 .. 4
        /\ q[1].op = "unmap" /\ q[2].op = "start" /\ q[3].op = "end"
        /\ q[4].op = "map" /\ \A i \in 1 .. 4 : q[i].dev = d
    BY <1>2, <2>1
  <2>3. job' = q /\ d \in live
    BY <1>5 DEF EditDevice, Post
  <2> HIDE DEF q
  <2>4. WellFormed(q)
    BY <2>2 DEF WellFormed, Follows, Between
  <2>5. FirstCallsFit(q)
    BY <2>2, <2>3 DEF FirstCallsFit
  <2> QED BY <1>3, <2>2, <2>3, <2>4, <2>5
<1>6. ASSUME RemoveDevice(d)
      PROVE  /\ job' \in Seq(Jobs) /\ WellFormed(job') /\ FirstCallsFit(job')
             /\ IoInv'
  <2> DEFINE q == <<Call("unmap", d), Call("delete", d)>>
  <2>1. /\ q \in Seq(Jobs) /\ DOMAIN q = 1 .. 2
        /\ q[1].op = "unmap" /\ q[2].op = "delete"
        /\ \A i \in 1 .. 2 : q[i].dev = d
    BY <1>2
  <2>2. job' = q /\ d \in live
    BY <1>6 DEF RemoveDevice, Post
  <2> HIDE DEF q
  <2>3. WellFormed(q)
    BY <2>1 DEF WellFormed, Follows, Between
  <2>4. FirstCallsFit(q)
    BY <2>1, <2>2 DEF FirstCallsFit
  <2> QED BY <1>3, <2>1, <2>2, <2>3, <2>4
<1> QED BY <1>4, <1>5, <1>6

-----------------------------------------------------------------------------
(* The debugger's devices come and go together: what a call leaves of the
   job still ends with both mapped, or with neither. *)

LEMMA IoJob ==
  ASSUME TypeOK, JobInv, IoInv, job # <<>>, Led \in Device, Dip \in Device,
         live' = CASE Head(job).op = "new" -> live \cup {Head(job).dev}
                   [] Head(job).op = "delete" -> live \ {Head(job).dev}
                   [] OTHER -> live,
         \/ job' = Tail(job)
         \/ /\ Head(job).op = "unmap"
            /\ job' = <<Call("unlink", Head(job).dev)>> \o Tail(job)
  PROVE  IoInv'
<1> DEFINE h == Head(job).dev
           t == Tail(job)
           InTail(d) == \E i \in DOMAIN t : t[i].dev = d /\ t[i].op = "map"
<1>1. job \in Seq(Jobs) /\ t \in Seq(Jobs) /\ WellFormed(job)
  BY DEF TypeOK, JobInv
<1>2. /\ \A i \in DOMAIN t : i + 1 \in DOMAIN job /\ t[i] = job[i + 1]
      /\ \A i \in DOMAIN job \ {1} : i - 1 \in DOMAIN t /\ t[i - 1] = job[i]
      /\ 1 \in DOMAIN job /\ Head(job) = job[1]
  BY <1>1, TailProperties
<1>3. /\ Due(job, h) = Head(job).op /\ Head(job).op \in Ops
      /\ \A d \in Device : d # h => Due(t, d) = Due(job, d)
      /\ IF Due(t, h) = "none" THEN Head(job).op \in {"map", "delete"}
         ELSE <<Head(job).op, Due(t, h)>> \in Follows
  <2>1. Head(job) \in Jobs
    BY <1>1
  <2> QED BY <1>1, <2>1, CallType, DueHead, DueTailOther, DueTailSame
<1>4. ASSUME NEW d \in Device
      PROVE  Kept(d) <=> IF Due(t, d) = "none" THEN d \in live' ELSE InTail(d)
  <2>1. (\E i \in DOMAIN job : job[i].dev = d /\ job[i].op = "map")
          <=> InTail(d) \/ (d = h /\ Head(job).op = "map")
    BY <1>2
  <2>2. Due(t, d) = "none" => ~InTail(d)
    BY <1>1, DueAbsent
  <2>3. CASE d # h
    BY <1>3, <2>1, <2>2, <2>3 DEF Kept
  <2>4. CASE d = h /\ Due(t, d) = "none"
    <3>1. Head(job).op \in {"map", "delete"} /\ Due(job, d) # "none"
      BY <1>3, <2>4
    <3>2. CASE Head(job).op = "map"
      <4>1. d \in live
        BY <1>3, <2>4, <3>2 DEF JobInv
      <4> QED BY <2>1, <2>4, <3>1, <3>2, <4>1 DEF Kept
    <3>3. CASE Head(job).op = "delete"
      BY <2>1, <2>2, <2>4, <3>1, <3>3 DEF Kept
    <3> QED BY <3>1, <3>2, <3>3
  <2>5. CASE d = h /\ Due(t, d) # "none"
    <3>1. Head(job).op # "map" /\ Due(job, d) # "none"
      BY <1>3, <2>5 DEF Follows, Ops
    <3> QED BY <2>1, <2>5, <3>1 DEF Kept
  <2> QED BY <2>3, <2>4, <2>5
<1>5. ASSUME NEW d \in Device
      PROVE  Kept(d)' <=> IF Due(t, d) = "none" THEN d \in live' ELSE InTail(d)
  <2>1. CASE job' = t
    BY <2>1 DEF Kept
  <2>2. CASE /\ Head(job).op = "unmap"
             /\ job' = <<Call("unlink", Head(job).dev)>> \o Tail(job)
    <3> DEFINE c == Call("unlink", h)
    <3>1. c \in Jobs /\ c.op = "unlink" /\ c.dev = h
      <4>1. h \in Device
        <5>1. Head(job) \in Jobs
          BY <1>1
        <5> QED BY <5>1, CallType
      <4> QED BY <4>1 DEF Call, Jobs
    <3> HIDE DEF c
    <3>2. <<c>> \in Seq(Jobs) /\ Len(<<c>>) = 1 /\ <<c>>[1] = c
      BY <3>1
    <3>3. /\ job' \in Seq(Jobs) /\ Len(job') = 1 + Len(t)
          /\ \A i \in 1 .. 1 + Len(t) : job'[i] = IF i <= 1 THEN <<c>>[i] ELSE t[i - 1]
      BY <1>1, <2>2, <3>2, ConcatProperties DEF c
    <3>4. /\ DOMAIN job' = 1 .. 1 + Len(t) /\ DOMAIN t = 1 .. Len(t)
          /\ Len(t) \in Nat
          /\ job'[1] = c /\ \A i \in 1 .. Len(t) : job'[i + 1] = t[i]
      BY <1>1, <3>2, <3>3
    <3>5. (\E i \in DOMAIN job' : job'[i].dev = d /\ job'[i].op = "map") <=> InTail(d)
      <4>1. \A i \in DOMAIN job' : i = 1 \/ (i - 1 \in 1 .. Len(t) /\ job'[i] = t[i - 1])
        BY <3>3, <3>4
      <4> QED BY <3>1, <3>4, <4>1
    <3>6. /\ d # h => Due(job', d) = Due(t, d)
          /\ Due(job', h) = "unlink"
      <4>1. \A e \in Device : e # h => Due(job', e) = Due(job, e)
        BY <2>2, JobUnlink
      <4>2. Due(job', h) = "unlink"
        BY <2>2, JobUnlink
      <4> QED BY <1>3, <4>1, <4>2
    <3>7. Due(t, h) # "none"
      BY <1>3, <2>2
    <3> QED BY <3>5, <3>6, <3>7 DEF Kept
  <2> QED BY <2>1, <2>2
<1> HIDE DEF t, InTail
<1> QED BY <1>4, <1>5 DEF IoInv

LEMMA IoStep ==
  ASSUME MapAssumption, TypeOK, JobInv, IoInv, NEW pos, Ordered(pos), JobStep
  PROVE  IoInv'
<1>1. Led \in Device /\ Dip \in Device
  BY DEF Device
<1>2. CASE job' = job
  <2>1. live' = live
    BY <1>2 DEF JobStep, NewDevice, MapFirst, MapNext, UnmapFirst, UnmapNext,
                Unlink, MoveStart, MoveEnd, Delete, Done, Current, TypeOK
  <2> QED BY <1>2, <2>1 DEF IoInv, Kept
<1>3. CASE job' # job
  <2>1. /\ job # <<>>
        /\ live' = CASE Head(job).op = "new" -> live \cup {Head(job).dev}
                     [] Head(job).op = "delete" -> live \ {Head(job).dev}
                     [] OTHER -> live
        /\ \/ job' = Tail(job)
           \/ /\ Head(job).op = "unmap"
              /\ job' = <<Call("unlink", Head(job).dev)>> \o Tail(job)
    BY <1>3 DEF JobStep, NewDevice, MapFirst, MapNext, UnmapFirst, UnmapNext,
                Unlink, MoveStart, MoveEnd, Delete, Done, Current, ThenUnlink
  <2> QED BY <1>1, <2>1, IoJob
<1> QED BY <1>2, <1>3

-----------------------------------------------------------------------------
(* The emulator thread's walk *)

Standing == {"start", "end", "follow", "access"}

(* The devices that the walk must not miss *)
Sought ==
  {d \in steady : /\ BlockOf(range[d].start) = BlockOf(walk.addr)
                 /\ IsMapped(d, walk.addr)}

(* As long as its device is left alone, the walk stands in the list of its
   block, no further on than any device that it must not miss. *)
WalkInv(pos) ==
  /\ \A d \in steady : Linked(d)
  /\ walk.phase \in {"idle", "head", "none"} => walk.at = NULL
  /\ walk.phase \in Standing => walk.at \in Device
  /\ ~strayed =>
       /\ walk.phase # "wild"
       /\ walk.phase = "none" => Sought = {}
       /\ \A a \in Device : walk.at = a /\ walk.phase \in Standing =>
            /\ Linked(a) /\ BlockOf(range[a].start) = BlockOf(walk.addr)
            /\ walk.phase \in {"end", "access"} => range[a].start <= walk.addr
            /\ walk.phase = "access" => walk.addr <= range[a].end
            /\ walk.phase \in {"start", "end"} =>
                 \A d \in Sought : pos[a] <= pos[d]
            /\ walk.phase = "follow" => \A d \in Sought : pos[a] < pos[d]

Inv(pos) ==
  /\ TypeOK /\ JobInv /\ IoInv /\ Ordered(pos) /\ WalkInv(pos)

IndInv == \E pos \in [Device -> Nat] : Inv(pos)

LEMMA DeviceFinite ==
  ASSUME MapAssumption
  PROVE  IsFiniteSet(Device)
<1>1. IsFiniteSet(BuiltinDevices)
  <2>1. Builtin \in [1 .. Len(Builtin) -> BuiltinDevices] /\ Len(Builtin) \in Nat
    BY DEF MapAssumption
  <2>2. Builtin \in Surjection(1 .. Len(Builtin), BuiltinDevices)
    BY <2>1 DEF Surjection, BuiltinDevices
  <2> QED BY <2>1, <2>2, FS_NatSurjection DEF ExistsSurjection
<1>2. IsFiniteSet({Led, Dip})
  <2>1. IsFiniteSet({Led}) /\ IsFiniteSet({Dip})
    BY FS_Singleton
  <2>2. IsFiniteSet({Led} \cup {Dip})
    BY <2>1, FS_Union
  <2>3. {Led} \cup {Dip} = {Led, Dip}
    OBVIOUS
  <2> QED BY <2>2, <2>3
<1>3. IsFiniteSet(Custom)
  BY DEF MapAssumption
<1>4. IsFiniteSet(BuiltinDevices \cup {Led, Dip})
  BY <1>1, <1>2, FS_Union
<1> QED BY <1>3, <1>4, FS_Union DEF Device

(* The list of each block is exactly the devices that belong in it. *)
LEMMA ChainMembers ==
  ASSUME MapAssumption, TypeOK, NEW pos \in [Device -> Nat],
         Ascending(Members, blocks, next, pos), NEW b \in Block
  PROVE  Chain(b) = Members[b]
<1> DEFINE S == Members[b]
           first == blocks[b]
<1>1. IsFiniteSet(Device) /\ NULL \notin Device /\ S \in SUBSET Device
  BY DeviceFinite, MembersType DEF MapAssumption
<1>2. /\ IF first = NULL THEN S = {} ELSE first \in S
      /\ \A d \in S : pos[first] <= pos[d]
      /\ \A d, e \in S : pos[d] = pos[e] => d = e
      /\ \A d \in S :
           IF next[d] = NULL THEN \A e \in S : pos[e] <= pos[d]
           ELSE /\ next[d] \in S
                /\ pos[d] < pos[next[d]]
                /\ \A e \in S : pos[e] <= pos[d] \/ pos[next[d]] <= pos[e]
  BY DEF Ascending
<1> HIDE DEF S, first
<1>3. ListFrom(first) = S
  <2>1. S \in SUBSET Device
    BY <1>1
  <2> QED BY <1>1, <1>2, <2>1, ListFromAll, ZenonT(60)
<1> QED BY <1>3 DEF Chain, S, first

LEMMA BlockDevices ==
  ASSUME MapAssumption, TypeOK, NEW pos \in [Device -> Nat],
         Ascending(Members, blocks, next, pos)
  PROVE  GetBlockDevices = {d \in Device : Linked(d)}
<1>1. \A b \in Block : Chain(b) = Members[b]
  BY ChainMembers
<1>2. \A d \in Device : Linked(d) => \E b \in Block : d \in Members[b]
  BY MembersType
<1> QED BY <1>1, <1>2 DEF GetBlockDevices, Members

(* The walk while the GUI thread makes a call that leaves every device but
   gone in its list *)
LEMMA WalkHolds ==
  ASSUME TypeOK, NEW pos, NEW p, NEW gone, WalkInv(pos),
         \A e \in Device : Linked(e) => p[e] = pos[e] /\ range'[e] = range[e],
         \A e \in Device : Linked(e) /\ e # gone => Linked(e)',
         walk' = walk, steady' \subseteq steady, gone \notin steady',
         strayed => strayed',
         walk.at = gone /\ walk.phase \in Standing => strayed'
  PROVE  WalkInv(p)'
<1>1. \A d \in steady' : d \in Device /\ d \in steady /\ Linked(d) /\ Linked(d)'
  BY DEF WalkInv, TypeOK
<1>2. \A d \in steady' : p[d] = pos[d] /\ range'[d] = range[d]
  BY <1>1
<1>3. Sought' \subseteq Sought
  BY <1>1, <1>2 DEF Sought, IsMapped
<1>4. \A d \in Sought' : d \in Sought /\ p[d] = pos[d]
  BY <1>2, <1>3 DEF Sought
<1>5. ASSUME ~strayed', NEW a \in Device, walk.at = a, walk.phase \in Standing
      PROVE  /\ Linked(a) /\ Linked(a)' /\ p[a] = pos[a] /\ range'[a] = range[a]
  BY <1>5 DEF WalkInv
<1> QED BY <1>1, <1>3, <1>4, <1>5 DEF WalkInv

LEMMA WalkJob ==
  ASSUME NULL \notin Device, TypeOK, JobInv, NEW pos \in [Device -> Nat],
         NEW p, Ordered(pos), WalkInv(pos), JobStep,
         \A e \in Device : Linked(e) => p[e] = pos[e]
  PROVE  WalkInv(p)'
<1>1. ASSUME SameMembers, walk' = walk, steady' = steady, strayed => strayed'
      PROVE  WalkInv(p)'
  <2>1. NULL \notin steady' /\ (walk.at = NULL => walk.phase \notin Standing)
    BY <1>1 DEF WalkInv, TypeOK
  <2>2. \A e \in Device : Linked(e) => range'[e] = range[e]
    BY <1>1 DEF SameMembers
  <2>3. \A e \in Device : Linked(e) /\ e # NULL => Linked(e)'
    BY <1>1 DEF SameMembers
  <2> QED BY <1>1, <2>1, <2>2, <2>3, WalkHolds
<1>2. CASE NewDevice
  <2>1. walk' = walk /\ steady' = steady /\ strayed' = strayed
    BY <1>2 DEF NewDevice, walkVars
  <2> QED BY <1>1, <1>2, <2>1, NewDeviceStep
<1>3. CASE MapFirst \/ MapNext
  <2>1. walk' = walk /\ steady' = steady /\ strayed' = strayed
    BY <1>3 DEF MapFirst, MapNext, walkVars
  <2>2. /\ \A e \in Device : Linked(e) => range'[e] = range[e]
        /\ \A e \in Device : Linked(e) => Linked(e)'
    BY <1>3, MapStep DEF SameMembers, Enters
  <2>3. NULL \notin steady' /\ (walk.at = NULL => walk.phase \notin Standing)
    BY <2>1 DEF WalkInv, TypeOK
  <2> QED BY <2>1, <2>2, <2>3, WalkHolds
<1>4. CASE UnmapFirst \/ UnmapNext
  <2>1. CASE job' = job
    <3>1. SameMembers /\ walk' = walk /\ steady' = steady /\ strayed' = strayed
      BY <1>4, <2>1, UnmapStep DEF Ordered, walkVars
    <3> QED BY <1>1, <3>1
  <2>2. CASE job' # job
    <3> DEFINE d == Head(job).dev
    <3>1. Leaves(d) /\ ThenUnlink(d)
      BY <1>4, <2>2, UnmapStep DEF Ordered
    <3>2. PICK gone : gone = d
      OBVIOUS
    <3>3. /\ \A e \in Device : Linked(e) => range'[e] = range[e]
          /\ \A e \in Device : Linked(e) /\ e # gone => Linked(e)'
      BY <3>1, <3>2 DEF Leaves
    <3>4. /\ walk' = walk /\ steady' = steady \ {gone}
          /\ strayed' = (strayed \/ (walk.at = gone /\ walk.phase # "idle"))
      BY <3>1, <3>2 DEF ThenUnlink, Disturb
    <3>5. /\ strayed => strayed'
          /\ walk.at = gone /\ walk.phase \in Standing => strayed'
      BY <3>4 DEF Standing
    <3> HIDE DEF d
    <3> QED BY <3>3, <3>4, <3>5, WalkHolds
  <2> QED BY <2>1, <2>2
<1>5. CASE Unlink \/ MoveStart \/ MoveEnd
  <2>1. walk' = walk /\ steady' = steady /\ (strayed => strayed')
    BY <1>5 DEF Unlink, MoveStart, MoveEnd, Disturb
  <2> QED BY <1>1, <1>5, <2>1, UnlinkStep, MoveStep
<1>6. CASE Delete
  <2> DEFINE d == Head(job).dev
  <2>1. /\ SameMembers /\ steady' = steady /\ (strayed => strayed')
        /\ walk.at = d /\ walk.phase # "idle" => strayed'
        /\ walk' = IF walk.at = d THEN [walk EXCEPT !.phase = "wild"] ELSE walk
    BY <1>6, DeleteStep DEF Delete, Disturb
  <2>2. d \in Device
    BY <1>6, CallType DEF Delete, Current, TypeOK
  <2>3. CASE walk.at # d
    BY <1>1, <2>1, <2>3
  <2>4. CASE walk.at = d
    <3>1. strayed'
      <4>1. walk.phase # "idle"
        BY <2>2, <2>4 DEF WalkInv
      <4> QED BY <2>1, <2>4, <4>1
    <3>2. walk'.phase = "wild"
      BY <2>1, <2>4 DEF TypeOK
    <3>3. \A e \in steady' : Linked(e)'
      BY <2>1 DEF SameMembers, WalkInv, TypeOK
    <3> QED BY <3>1, <3>2, <3>3 DEF WalkInv, Standing
  <2> QED BY <2>3, <2>4
<1> QED BY <1>2, <1>3, <1>4, <1>5, <1>6 DEF JobStep

(* The steps of the walk itself *)
LEMMA WalkSteps ==
  ASSUME MapAssumption, TypeOK, JobInv, NEW pos \in [Device -> Nat],
         Ordered(pos), WalkInv(pos),
         WalkStep \/ \E a \in Probes : Begin(a)
  PROVE  TypeOK' /\ WalkInv(pos)'
<1>1. UNCHANGED <<mapVars, guiVars>>
  BY DEF WalkStep, ReadHead, TestStart, TestEnd, Follow, Access, OpenBus,
         Begin, WalkTo, Reach, EndWalk
<1>2. /\ \A e \in Device : Linked(e)' <=> Linked(e)
      /\ range' = range
  BY <1>1 DEF Linked, mapVars, guiVars
<1>3. NULL \notin Device /\ 0 \in Address
  BY DEF MapAssumption
<1>4. /\ \A d \in steady : Linked(d) /\ d \in Device /\ pos[d] \in Nat
      /\ \A d \in Sought : /\ d \in steady /\ IsMapped(d, walk.addr)
                           /\ d \in Members[BlockOf(walk.addr)]
      /\ BlockOf(walk.addr) \in Block
      /\ range \in [Device -> AddressRange] /\ walk.addr \in Nat
      /\ \A d \in Device : range[d].start \in Nat /\ range[d].end \in Nat
  <2>1. \A d \in steady : Linked(d) /\ d \in Device /\ pos[d] \in Nat
    BY DEF WalkInv, TypeOK
  <2>2. BlockOf(walk.addr) \in Block
    BY DEF TypeOK, Block
  <2>3. \A d \in Sought : /\ d \in steady /\ IsMapped(d, walk.addr)
                          /\ d \in Members[BlockOf(walk.addr)]
    BY <2>1, <2>2 DEF Sought, Members
  <2>4. range \in [Device -> AddressRange] /\ walk.addr \in Nat
    BY DEF TypeOK, MapAssumption
  <2> QED BY <2>1, <2>2, <2>3, <2>4 DEF AddressRange, MapAssumption
<1>5. Ascending(Members, blocks, next, pos)
  BY DEF Ordered
<1>6. CASE \E a \in Probes : Begin(a)
  <2>1. PICK a \in Probes : Begin(a)
    BY <1>6
  <2>2. /\ walk' = [phase |-> "head", addr |-> a, at |-> NULL]
        /\ steady' = {d \in Device : Linked(d)} /\ strayed' = FALSE
    BY <1>5, <2>1, BlockDevices DEF Begin
  <2>3. TypeOK'
    BY <1>1, <2>2 DEF TypeOK, mapVars, guiVars, WalkPhase, MapAssumption
  <2> QED BY <1>2, <2>2, <2>3 DEF WalkInv, Standing
<1>7. CASE EndWalk
  <2>1. /\ walk' = [phase |-> "idle", addr |-> 0, at |-> NULL]
        /\ steady' = {} /\ strayed' = FALSE
    BY <1>7 DEF EndWalk
  <2>2. TypeOK'
    BY <1>1, <1>3, <2>1 DEF TypeOK, mapVars, guiVars, WalkPhase
  <2> QED BY <2>1, <2>2 DEF WalkInv, Standing
<1>8. ASSUME steady' = steady, strayed' = strayed, walk'.addr = walk.addr
      PROVE  Sought' = Sought
  BY <1>2, <1>8 DEF Sought, IsMapped
<1>9. ASSUME NEW x \in Device \cup {NULL}, Reach(x),
             ~strayed =>
               IF x = NULL THEN Sought = {}
               ELSE /\ Linked(x) /\ BlockOf(range[x].start) = BlockOf(walk.addr)
                    /\ \A d \in Sought : pos[x] <= pos[d]
      PROVE  TypeOK' /\ WalkInv(pos)'
  <2>1. /\ walk' = [walk EXCEPT !.at = x,
                               !.phase = IF x = NULL THEN "none"
                                         ELSE IF x \in live THEN "start"
                                         ELSE "wild"]
        /\ steady' = steady /\ strayed' = strayed
    BY <1>9 DEF Reach
  <2>2. /\ walk'.at = x /\ walk'.addr = walk.addr
        /\ walk'.phase = IF x = NULL THEN "none"
                         ELSE IF x \in live THEN "start" ELSE "wild"
    BY <2>1 DEF TypeOK
  <2>3. TypeOK'
    BY <1>1, <2>1 DEF TypeOK, mapVars, guiVars, WalkPhase
  <2>4. Sought' = Sought
    BY <1>8, <2>1, <2>2
  <2>5. x # NULL /\ ~strayed => x \in live
    BY <1>9 DEF Linked
  <2> QED BY <1>2, <1>3, <1>4, <1>9, <2>1, <2>2, <2>3, <2>4, <2>5
          DEF WalkInv, Standing
<1>10. CASE ReadHead
  <2> DEFINE b == BlockOf(walk.addr)
  <2>1. blocks[b] \in Device \cup {NULL} /\ Reach(blocks[b])
    BY <1>4, <1>10 DEF ReadHead, TypeOK
  <2>2. blocks[b] = NULL => Sought = {}
    BY <1>4, <1>5 DEF Ascending
  <2>3. blocks[b] # NULL =>
          /\ Linked(blocks[b]) /\ BlockOf(range[blocks[b]].start) = b
          /\ \A d \in Sought : pos[blocks[b]] <= pos[d]
    BY <1>4, <1>5 DEF Ascending, Members
  <2> HIDE DEF b
  <2>4. PICK x \in Device \cup {NULL} : x = blocks[b]
    BY <2>1
  <2> QED BY <1>9, <2>1, <2>2, <2>3, <2>4 DEF b
<1>11. CASE Follow
  <2>0. walk.phase = "follow" /\ walk.at \in Device
    BY <1>11 DEF Follow, WalkInv, Standing
  <2>1. PICK a \in Device : a = walk.at
    BY <2>0
  <2>2. next[a] \in Device \cup {NULL} /\ Reach(next[a])
    BY <1>11, <2>1 DEF Follow, TypeOK
  <2>3. ~strayed =>
          /\ a \in Members[BlockOf(walk.addr)] /\ pos[a] \in Nat
          /\ \A d \in Sought : pos[a] < pos[d]
    BY <1>4, <2>0, <2>1 DEF WalkInv, Standing, Members
  <2>4. ~strayed => \A d \in Sought : ~(pos[d] <= pos[a])
    BY <1>4, <2>3
  <2>5. ~strayed /\ next[a] = NULL => Sought = {}
    BY <1>4, <1>5, <2>3, <2>4 DEF Ascending
  <2>6. ~strayed /\ next[a] # NULL =>
          /\ next[a] \in Members[BlockOf(walk.addr)]
          /\ \A d \in Sought : pos[next[a]] <= pos[d]
    BY <1>4, <1>5, <2>3, <2>4 DEF Ascending
  <2>7. PICK x \in Device \cup {NULL} : x = next[a]
    BY <2>2
  <2>8. ~strayed =>
          IF x = NULL THEN Sought = {}
          ELSE /\ Linked(x) /\ BlockOf(range[x].start) = BlockOf(walk.addr)
               /\ \A d \in Sought : pos[x] <= pos[d]
    BY <1>4, <2>5, <2>6, <2>7 DEF Members
  <2> QED BY <1>9, <2>2, <2>7, <2>8
<1>12. ASSUME NEW ph \in WalkPhase, WalkTo(ph), walk.phase \in Standing
       PROVE  /\ walk' = [walk EXCEPT !.phase = ph] /\ walk'.phase = ph
              /\ walk'.at = walk.at /\ walk'.addr = walk.addr
              /\ steady' = steady /\ strayed' = strayed
              /\ TypeOK' /\ Sought' = Sought
  <2>1. /\ walk' = [walk EXCEPT !.phase = ph] /\ walk'.phase = ph
        /\ walk'.at = walk.at /\ walk'.addr = walk.addr
        /\ steady' = steady /\ strayed' = strayed
    BY <1>12 DEF WalkTo, TypeOK
  <2>2. TypeOK'
    BY <1>1, <2>1 DEF TypeOK, mapVars, guiVars
  <2> QED BY <1>8, <2>1, <2>2
<1>13. ASSUME NEW a \in Device, a = walk.at, walk.phase \in {"start", "end"},
              ~strayed, ~IsMapped(a, walk.addr)
       PROVE  \A d \in Sought : pos[a] < pos[d]
  <2>1. a \in Members[BlockOf(walk.addr)] /\ \A d \in Sought : pos[a] <= pos[d]
    BY <1>4, <1>13 DEF WalkInv, Standing, Members
  <2>2. \A d \in Sought : d # a
    BY <1>4, <1>13
  <2>3. \A d \in Sought : pos[a] # pos[d]
    BY <1>4, <1>5, <2>1, <2>2 DEF Ascending
  <2> QED BY <1>4, <2>1, <2>3
<1>17. ASSUME NEW a \in Device, NEW ph \in {"end", "access", "follow"},
              walk.at = a, walk.phase \in {"start", "end"},
              walk'.phase = ph, walk'.at = a, walk'.addr = walk.addr,
              steady' = steady, strayed' = strayed, Sought' = Sought,
              ~strayed /\ ph = "follow" => \A d \in Sought : pos[a] < pos[d],
              ~strayed /\ ph \in {"end", "access"} => range[a].start <= walk.addr,
              ph = "access" => walk.addr <= range[a].end
       PROVE  WalkInv(pos)'
  <2>1. ~strayed => /\ Linked(a) /\ BlockOf(range[a].start) = BlockOf(walk.addr)
                    /\ \A d \in Sought : pos[a] <= pos[d]
    BY <1>17 DEF WalkInv, Standing
  <2>2. \A d \in steady' : Linked(d)'
    BY <1>2, <1>4, <1>17
  <2>3. \A x \in Device : walk'.at = x => x = a
    BY <1>17
  <2>4. Linked(a)' <=> Linked(a)
    BY <1>2
  <2> QED BY <1>2, <1>17, <2>1, <2>2, <2>3, <2>4 DEF WalkInv, Standing
<1>14. CASE TestStart
  <2>0. walk.phase = "start" /\ walk.at \in Device
    BY <1>14 DEF TestStart, WalkInv, Standing
  <2> DEFINE ph == IF range[walk.at].start <= walk.addr THEN "end" ELSE "follow"
  <2>1. ph \in WalkPhase /\ WalkTo(ph)
    BY <1>14 DEF TestStart, WalkPhase
  <2>2. ~strayed /\ ph = "follow" => \A d \in Sought : pos[walk.at] < pos[d]
    BY <1>13, <2>0 DEF IsMapped
  <2>3. /\ walk'.phase = ph /\ walk'.at = walk.at /\ walk'.addr = walk.addr
        /\ steady' = steady /\ strayed' = strayed /\ TypeOK' /\ Sought' = Sought
    BY <1>12, <2>0, <2>1 DEF Standing
  <2>4. PICK a \in Device : a = walk.at
    BY <2>0
  <2>5. /\ ph \in {"end", "access", "follow"}
        /\ ph \in {"end", "access"} => range[a].start <= walk.addr
        /\ ph # "access"
    BY <2>4
  <2> HIDE DEF ph
  <2> QED BY <1>17, <2>0, <2>2, <2>3, <2>4, <2>5
<1>15. CASE TestEnd
  <2>0. walk.phase = "end" /\ walk.at \in Device
    BY <1>15 DEF TestEnd, WalkInv, Standing
  <2> DEFINE ph == IF walk.addr <= range[walk.at].end THEN "access" ELSE "follow"
  <2>1. ph \in WalkPhase /\ WalkTo(ph)
    BY <1>15 DEF TestEnd, WalkPhase
  <2>2. ~strayed /\ ph = "follow" => \A d \in Sought : pos[walk.at] < pos[d]
    BY <1>13, <2>0 DEF IsMapped
  <2>3. /\ walk'.phase = ph /\ walk'.at = walk.at /\ walk'.addr = walk.addr
        /\ steady' = steady /\ strayed' = strayed /\ TypeOK' /\ Sought' = Sought
    BY <1>12, <2>0, <2>1 DEF Standing
  <2>4. PICK a \in Device : a = walk.at
    BY <2>0
  <2>5. /\ ph \in {"end", "access", "follow"}
        /\ ph = "access" => walk.addr <= range[a].end
        /\ ph # "end"
    BY <2>4
  <2>6. ~strayed => range[a].start <= walk.addr
    BY <2>0, <2>4 DEF WalkInv, Standing
  <2> HIDE DEF ph
  <2> QED BY <1>17, <2>0, <2>2, <2>3, <2>4, <2>5, <2>6
<1>16. CASE Access /\ ~EndWalk
  <2>0. walk.phase = "access" /\ walk.at \in Device
    BY <1>16 DEF Access, WalkInv, Standing
  <2>1. ~IsMapped(walk.at, walk.addr) /\ WalkTo("wild")
    BY <1>16 DEF Access
  <2>2. strayed
    BY <2>0, <2>1 DEF WalkInv, Standing, IsMapped
  <2>3. /\ walk'.phase = "wild" /\ steady' = steady /\ strayed' = strayed /\ TypeOK'
    BY <1>12, <2>0, <2>1 DEF Standing, WalkPhase
  <2> QED BY <1>2, <1>4, <2>2, <2>3 DEF WalkInv, Standing
<1> QED BY <1>6, <1>7, <1>10, <1>11, <1>14, <1>15, <1>16
        DEF WalkStep, Access, OpenBus

-----------------------------------------------------------------------------
(* The invariant holds in every state. *)

(* The constructor's calls create every device, then map it. *)
LEMMA InitCalls ==
  ASSUME MapAssumption, Init, NEW n, n = Len(Builtin)
  PROVE  /\ n \in Nat /\ job \in Seq(Jobs) /\ DOMAIN job = 1 .. n + n
         /\ \A i \in 1 .. n :
              job[i] = New(Builtin[i], BuiltinRange[Builtin[i]])
         /\ \A i \in n + 1 .. n + n :
              i - n \in 1 .. n /\ job[i] = Call("map", Builtin[i - n])
<1> DEFINE A == ConstructBuiltins
           B == MapBuiltins
<1>1. /\ n \in Nat /\ \A i \in 1 .. n : Builtin[i] \in BuiltinDevices
      /\ \A d \in BuiltinDevices : /\ d \in Device /\ d # Led /\ d # Dip
                                  /\ BuiltinRange[d] \in AddressRange
  BY DEF MapAssumption, Device
<1>2. A \in Seq(Jobs) /\ B \in Seq(Jobs) /\ Len(A) = n /\ Len(B) = n
  <2>1. \A i \in 1 .. n : /\ New(Builtin[i], BuiltinRange[Builtin[i]]) \in Jobs
                          /\ Call("map", Builtin[i]) \in Jobs
    BY <1>1 DEF New, Call, Jobs
  <2> QED BY <1>1, <2>1 DEF ConstructBuiltins, MapBuiltins
<1>3. /\ \A i \in 1 .. n : A[i] = New(Builtin[i], BuiltinRange[Builtin[i]])
      /\ \A i \in 1 .. n : B[i] = Call("map", Builtin[i])
  BY DEF ConstructBuiltins, MapBuiltins
<1> HIDE DEF A, B
<1>4. /\ job \in Seq(Jobs) /\ DOMAIN job = 1 .. n + n
      /\ \A i \in 1 .. n + n : job[i] = IF i <= n THEN A[i] ELSE B[i - n]
  <2>1. job = A \o B
    BY DEF Init, A, B
  <2>2. \A x, y \in Seq(Jobs) :
          /\ x \o y \in Seq(Jobs) /\ Len(x \o y) = Len(x) + Len(y)
          /\ \A i \in 1 .. Len(x) + Len(y) :
               (x \o y)[i] = IF i <= Len(x) THEN x[i] ELSE y[i - Len(x)]
    BY ConcatProperties
  <2>3. /\ A \o B \in Seq(Jobs) /\ Len(A \o B) = Len(A) + Len(B)
        /\ \A i \in 1 .. Len(A) + Len(B) :
             (A \o B)[i] = IF i <= Len(A) THEN A[i] ELSE B[i - Len(A)]
    BY <1>2, <2>2, Zenon
  <2>4. /\ Len(A \o B) = n + n
        /\ \A i \in 1 .. n + n :
             (A \o B)[i] = IF i <= n THEN A[i] ELSE B[i - n]
    BY <1>2, <2>3, Zenon
  <2>5. DOMAIN (A \o B) = 1 .. Len(A \o B)
    BY <2>3
  <2> QED BY <2>1, <2>3, <2>4, <2>5
<1>5. \A i \in 1 .. n : i \in 1 .. n + n /\ i <= n
  BY <1>1
<1>6. \A i \in n + 1 .. n + n : i \in 1 .. n + n /\ ~(i <= n) /\ i - n \in 1 .. n
  BY <1>1
<1>7. \A i \in 1 .. n : job[i] = New(Builtin[i], BuiltinRange[Builtin[i]])
  BY <1>3, <1>4, <1>5
<1>8. \A i \in n + 1 .. n + n : job[i] = Call("map", Builtin[i - n])
  BY <1>3, <1>4, <1>6
<1> QED BY <1>1, <1>4, <1>6, <1>7, <1>8

(* Every built-in device waits for its constructor. *)
LEMMA InitDue ==
  ASSUME MapAssumption, Init
  PROVE  /\ job \in Seq(Jobs) /\ WellFormed(job)
         /\ \A d \in Device :
              Due(job, d) = IF d \in BuiltinDevices THEN "new" ELSE "none"
<1> DEFINE n == Len(Builtin)
<1>1. /\ n \in Nat /\ \A i \in 1 .. n : Builtin[i] \in BuiltinDevices
      /\ \A i, j \in 1 .. n : Builtin[i] = Builtin[j] => i = j
  BY DEF MapAssumption
<1>2. \A d \in BuiltinDevices : \E i \in 1 .. n : Builtin[i] = d
  BY DEF BuiltinDevices
<1>3. /\ job \in Seq(Jobs) /\ DOMAIN job = 1 .. n + n
      /\ \A i \in 1 .. n :
           job[i] = New(Builtin[i], BuiltinRange[Builtin[i]])
      /\ \A i \in n + 1 .. n + n :
           i - n \in 1 .. n /\ job[i] = Call("map", Builtin[i - n])
  BY InitCalls
<1> HIDE DEF n
<1>4. /\ \A i \in 1 .. n : job[i].op = "new" /\ job[i].dev = Builtin[i]
      /\ \A i \in n + 1 .. n + n : /\ job[i].op = "map"
                                 /\ job[i].dev = Builtin[i - n]
                                 /\ i - n \in 1 .. n
  <2>1. ASSUME NEW i \in 1 .. n
        PROVE  job[i].op = "new" /\ job[i].dev = Builtin[i]
    <3>1. job[i] = New(Builtin[i], BuiltinRange[Builtin[i]])
      BY <1>3
    <3> QED BY <3>1 DEF New
  <2>2. ASSUME NEW i \in n + 1 .. n + n
        PROVE  /\ job[i].op = "map" /\ job[i].dev = Builtin[i - n]
               /\ i - n \in 1 .. n
    <3>1. job[i] = Call("map", Builtin[i - n]) /\ i - n \in 1 .. n
      BY <1>3
    <3> QED BY <3>1 DEF Call
  <2> QED BY <2>1, <2>2
<1>5. WellFormed(job)
  <2>1. ASSUME NEW i \in DOMAIN job, NEW j \in DOMAIN job, i < j,
               job[i].dev = job[j].dev
        PROVE  <<job[i].op, job[j].op>> \in Follows
    <3>1. i \in 1 .. n \/ i \in n + 1 .. n + n
      BY <1>3, <1>1
    <3>2. j \in 1 .. n \/ j \in n + 1 .. n + n
      BY <1>3, <1>1
    <3>3. ~(i \in 1 .. n /\ j \in 1 .. n)
      BY <1>4, <1>1, <2>1
    <3>4. ~(i \in n + 1 .. n + n /\ j \in n + 1 .. n + n)
      <4> SUFFICES ASSUME i \in n + 1 .. n + n, j \in n + 1 .. n + n PROVE FALSE
        OBVIOUS
      <4>1. i - n = j - n
        BY <1>4, <1>1, <2>1
      <4> QED BY <1>1, <2>1, <4>1
    <3>5. i \in 1 .. n /\ j \in n + 1 .. n + n
      BY <1>1, <2>1, <3>1, <3>2, <3>3, <3>4
    <3> QED BY <1>4, <3>5 DEF Follows
  <2>2. ASSUME NEW i \in DOMAIN job,
               \A j \in DOMAIN job : i < j => job[j].dev # job[i].dev
        PROVE  job[i].op \in {"map", "delete"}
    <3>1. CASE i \in 1 .. n
      <4>1. i + n \in n + 1 .. n + n /\ i + n \in DOMAIN job /\ i < i + n
            /\ (i + n) - n = i
        BY <1>3, <1>1, <3>1
      <4>2. job[i + n].dev = job[i].dev
        BY <1>4, <3>1, <4>1
      <4> QED BY <2>2, <4>1, <4>2
    <3>2. CASE i \in n + 1 .. n + n
      BY <1>4, <3>2
    <3> QED BY <1>3, <1>1, <3>1, <3>2
  <2> QED BY <2>1, <2>2 DEF WellFormed
<1>6. \A d \in Device : Due(job, d) \in {"none", "new"}
  <2> SUFFICES ASSUME NEW d \in Device, Due(job, d) # "none"
               PROVE  Due(job, d) = "new"
    OBVIOUS
  <2>1. PICK k \in DOMAIN job : /\ job[k].dev = d /\ job[k].op = Due(job, d)
                                /\ \A j \in DOMAIN job : j < k => job[j].dev # d
    BY <1>3, DueSome
  <2>2. ~(k \in n + 1 .. n + n)
    <3> SUFFICES ASSUME k \in n + 1 .. n + n PROVE FALSE
      OBVIOUS
    <3>1. k - n \in 1 .. n /\ k - n \in DOMAIN job /\ k - n < k
      BY <1>3, <1>1
    <3>2. job[k - n].dev = d
      BY <1>4, <2>1, <3>1
    <3> QED BY <2>1, <3>1, <3>2
  <2>3. k \in 1 .. n
    BY <1>3, <1>1, <2>2
  <2> QED BY <1>4, <2>1, <2>3
<1>7. ASSUME NEW d \in BuiltinDevices PROVE Due(job, d) # "none"
  <2>1. PICK i \in 1 .. n : Builtin[i] = d
    BY <1>2
  <2>2. i \in DOMAIN job /\ job[i].dev = d
    BY <1>1, <1>3, <1>4, <2>1
  <2>3. job \in Seq(Jobs)
    BY <1>3
  <2> QED BY <2>2, <2>3, DueAbsent
<1>8. ASSUME NEW d \in Device, Due(job, d) # "none" PROVE d \in BuiltinDevices
  <2>0. job \in Seq(Jobs)
    BY <1>3
  <2>1. PICK i \in DOMAIN job : job[i].dev = d
    BY <1>8, <2>0, DueSome
  <2>2. i \in 1 .. n \/ i \in n + 1 .. n + n
    BY <1>1, <1>3
  <2> QED BY <1>1, <1>4, <2>1, <2>2
<1>9. BuiltinDevices \subseteq Device
  BY DEF Device
<1> QED BY <1>3, <1>5, <1>6, <1>7, <1>8, <1>9

LEMMA InitInv ==
  ASSUME MapAssumption, Init
  PROVE  IndInv
<1>1. /\ job \in Seq(Jobs) /\ WellFormed(job)
      /\ \A d \in Device :
           Due(job, d) = IF d \in BuiltinDevices THEN "new" ELSE "none"
  BY InitDue
<1>2. live = {} /\ \A d \in Device : ~Linked(d)
  BY DEF Init, Linked
<1>3. TypeOK
  <2>1. \A d \in Device : OneByte(0) \in AddressRange
    BY DEF OneByte, AddressRange, MapAssumption
  <2> QED BY <1>1, <2>1 DEF Init, TypeOK, WalkPhase, MapAssumption
<1>4. JobInv
  BY <1>1, <1>2 DEF JobInv
<1>5. IoInv
  <2>1. Due(job, Led) = "none" /\ Due(job, Dip) = "none"
    BY <1>1 DEF MapAssumption, Device
  <2> QED BY <1>2, <2>1 DEF IoInv, Kept
<1>6. PICK pos \in [Device -> Nat] : TRUE
  <2>1. [d \in Device |-> 0] \in [Device -> Nat]
    OBVIOUS
  <2> QED BY <2>1
<1>7. Ordered(pos)
  <2>1. \A b \in Block : Members[b] = {} /\ blocks[b] = NULL
    BY <1>2 DEF Members, Init
  <2> QED BY <1>2, <2>1 DEF Ordered, Ascending, Loose, CursorInv, Init
<1>8. WalkInv(pos)
  BY DEF WalkInv, Init, Standing
<1> QED BY <1>3, <1>4, <1>5, <1>7, <1>8 DEF IndInv, Inv

(* A handler of the GUI only posts its calls. *)
LEMMA HandlerInv ==
  ASSUME MapAssumption, NEW pos \in [Device -> Nat], Inv(pos), Handler
  PROVE  Inv(pos)'
<1>1. /\ job = <<>> /\ live' = live /\ range' = range
      /\ UNCHANGED <<mapVars, cursor, started, walkVars>>
  BY DEF Handler, OpenDebugger, CloseDebugger, ChangeIo, AddDevice, EditDevice,
         RemoveDevice, Idle, Post, mapVars
<1>2. io' \in [led : Address, dip : Address]
  <2>1. io' = io \/ io' \in IoChoices
    BY DEF Handler, OpenDebugger, CloseDebugger, ChangeIo, AddDevice,
           EditDevice, RemoveDevice
  <2> QED BY <2>1 DEF Inv, TypeOK, MapAssumption
<1>3. /\ job' \in Seq(Jobs) /\ WellFormed(job') /\ FirstCallsFit(job')
      /\ IoInv'
  BY OpenDebuggerPost, CloseDebuggerPost, ChangeIoPost, CustomPost
     DEF Handler, Inv
<1>4. TypeOK'
  BY <1>1, <1>2, <1>3 DEF Inv, TypeOK, mapVars, walkVars
<1>5. /\ JobInv' /\ SameMembers
      /\ \A d \in Device : Due(job', d) \in {"none", "unmap", "new"}
  BY <1>1, <1>3, Posted DEF Inv
<1>6. cursor = NULL
  BY <1>1 DEF Inv, Ordered, CursorInv
<1>7. Ordered(pos)'
  <2>1. Members' = Members /\ \A d \in Device : Linked(d)' <=> Linked(d)
    BY <1>5, MembersSame DEF SameMembers
  <2>2. \A d \in Device : Due(job, d) = "none"
    BY <1>1, DueEmpty
  <2>3. Ascending(Members, blocks, next, pos)' /\ Loose'
    BY <1>1, <2>1, <2>2 DEF Inv, Ordered, Loose, mapVars
  <2>4. CursorInv(pos)'
    BY <1>1, <1>6 DEF CursorInv
  <2> QED BY <2>3, <2>4 DEF Ordered
<1>8. WalkInv(pos)'
  <2>1. walk' = walk /\ steady' = steady /\ strayed' = strayed
    BY <1>1 DEF walkVars
  <2>2. NULL \notin steady' /\ ~(walk.at = NULL /\ walk.phase \in Standing)
    BY <2>1 DEF Inv, WalkInv, TypeOK, MapAssumption
  <2> QED BY <1>1, <1>5, <2>1, <2>2, WalkHolds DEF Inv, SameMembers
<1> QED BY <1>3, <1>4, <1>5, <1>7, <1>8 DEF Inv

(* A call of a job puts its device last in the order, takes it out, or leaves
   the order alone. *)
LEMMA JobStepInv ==
  ASSUME MapAssumption, NEW pos \in [Device -> Nat], Inv(pos), JobStep
  PROVE  \E p \in [Device -> Nat] : Inv(p)'
<1>1. TypeOK' /\ JobInv' /\ IoInv'
  <2>1. Ascending(Members, blocks, next, pos) /\ IoInv'
    BY IoStep DEF Inv, Ordered
  <2> QED BY <2>1, NewDeviceStep, MoveStep, UnlinkStep, DeleteStep, MapStep,
             UnmapStep DEF JobStep, Inv
<1>2. PICK p \in [Device -> Nat] :
        Ordered(p)' /\ \A e \in Device : Linked(e) => p[e] = pos[e]
  BY OrderedApart, OrderedMap, OrderedUnmap DEF JobStep, Inv, MapAssumption
<1>3. WalkInv(p)'
  BY <1>2, WalkJob DEF Inv, MapAssumption
<1> QED BY <1>1, <1>2, <1>3 DEF Inv

(* Where the job and the map stay as they are, so does what is said of them. *)
LEMMA MapUnchanged ==
  ASSUME NEW pos, Inv(pos), UNCHANGED <<mapVars, job, cursor>>
  PROVE  (JobInv /\ IoInv /\ Ordered(pos))'
BY DEF Inv, JobInv, IoInv, Kept, Ordered, Members, Linked, Loose, CursorInv,
       mapVars

LEMMA NextInv ==
  ASSUME MapAssumption, IndInv, [Next]_vars
  PROVE  IndInv'
<1>1. PICK pos \in [Device -> Nat] : Inv(pos)
  BY DEF IndInv
<1>2. CASE JobStep
  BY <1>1, <1>2, JobStepInv DEF IndInv
<1>3. CASE Handler
  BY <1>1, <1>3, HandlerInv DEF IndInv
<1>4. CASE WalkStep \/ \E a \in Probes : Begin(a)
  <2>1. UNCHANGED <<mapVars, guiVars>>
    BY <1>4 DEF WalkStep, Begin, ReadHead, TestStart, TestEnd, Follow, Access,
                OpenBus, Reach, WalkTo, EndWalk
  <2>2. TypeOK' /\ WalkInv(pos)'
    BY <1>1, <1>4, WalkSteps DEF Inv
  <2>3. (JobInv /\ IoInv /\ Ordered(pos))'
    BY <1>1, <2>1, MapUnchanged DEF guiVars
  <2> QED BY <1>1, <2>2, <2>3 DEF IndInv, Inv
<1>5. CASE ExecuteEmu \/ UNCHANGED vars
  <2>1. UNCHANGED <<mapVars, io, job, cursor, walkVars>> /\ started' \in BOOLEAN
    BY <1>1, <1>5 DEF ExecuteEmu, vars, guiVars, Inv, TypeOK
  <2>2. TypeOK'
    BY <1>1, <2>1 DEF Inv, TypeOK, mapVars, walkVars
  <2>3. WalkInv(pos)'
    BY <1>1, <2>1 DEF Inv, WalkInv, Sought, Linked, IsMapped, mapVars, walkVars
  <2>4. (JobInv /\ IoInv /\ Ordered(pos))'
    BY <1>1, <2>1, MapUnchanged
  <2> QED BY <1>1, <2>2, <2>3, <2>4 DEF IndInv, Inv
<1> QED BY <1>2, <1>3, <1>4, <1>5 DEF Next

-----------------------------------------------------------------------------
(* Custom devices: each stands, or will stand when the job is over, where a
   dialog accepted it. *)

(* The built-in devices stand where the constructor put them. *)
BuiltinInv ==
  /\ \A i \in DOMAIN job : job[i].dev \in BuiltinDevices =>
       \/ job[i].op = "map"
       \/ job[i].op = "new" /\ job[i].range = BuiltinRange[job[i].dev]
  /\ \A e \in BuiltinDevices :
       IF e \in live THEN range[e] = BuiltinRange[e] ELSE Due(job, e) = "new"

(* d has, or will be given, the range r, or it is being removed. *)
AimedAt(d, r) ==
  \/ Due(job, d) = "none" /\ (d \in live => range[d] = r)
  \/ job = <<New(d, r), Call("map", d)>>
  \/ \E op \in {"unmap", "unlink"} :
       job = <<Call(op, d), SetStart(d, r.start), SetEnd(d, r.end),
               Call("map", d)>>
  \/ job = <<SetStart(d, r.start), SetEnd(d, r.end), Call("map", d)>>
  \/ job = <<SetEnd(d, r.end), Call("map", d)>> /\ range[d].start = r.start
  \/ job = <<Call("map", d)>> /\ range[d] = r
  \/ \E op \in {"unmap", "unlink"} : job = <<Call(op, d), Call("delete", d)>>
  \/ job = <<Call("delete", d)>>

(* d exists, or is about to. *)
Wanted(d) == d \in live \/ Due(job, d) # "none"

(* r avoids the built-in devices in the blocks that it touches. *)
ClearOfBuiltins(r) ==
  \A e \in BuiltinDevices :
    LET s == BuiltinRange[e]
    IN  Overlap(r, s) => \/ BlockOf(s.start) < BlockOf(r.start)
                         \/ BlockOf(r.end) < BlockOf(s.start)

CustomInv(aim) ==
  /\ BuiltinInv
  /\ \A d \in Custom :
       /\ AimedAt(d, aim[d])
       /\ Wanted(d) => aim[d] \in Patterns /\ ClearOfBuiltins(aim[d])
  /\ \A d, e \in Custom :
       /\ d # e /\ Wanted(d) /\ Wanted(e)
       /\ BlockOf(aim[d].start) = BlockOf(aim[e].start)
       => ~Overlap(aim[d], aim[e])

LEMMA BlockNumbers ==
  ASSUME MapAssumption
  PROVE  /\ \A a \in Address : BlockOf(a) \in Nat /\ BlockOf(a) \in Block
         /\ \A a, b \in Address : a <= b => BlockOf(a) <= BlockOf(b)
<1>1. BlockSize \in Nat \ {0} /\ \A a \in Address : a \in Nat
  BY DEF MapAssumption
<1>2. \A a, b \in Nat : a <= b =>
        a \div BlockSize \in Nat /\ a \div BlockSize <= b \div BlockSize
  BY <1>1
<1>3. \A a \in Nat : a \div BlockSize \in Nat
  BY <1>1
<1> QED BY <1>1, <1>2, <1>3 DEF BlockOf, Block

(* What a call does to the job, the objects and their ranges. *)
LEMMA CallEffect ==
  ASSUME JobStep, TypeOK
  PROVE  /\ job # <<>>
         /\ \/ job' = job /\ live' = live /\ range' = range
            \/ /\ Head(job).op = "unmap" /\ live' = live /\ range' = range
               /\ job' = <<Call("unlink", Head(job).dev)>> \o Tail(job)
            \/ /\ job' = Tail(job)
               /\ live' = CASE Head(job).op = "new" -> live \cup {Head(job).dev}
                            [] Head(job).op = "delete" -> live \ {Head(job).dev}
                            [] OTHER -> live
               /\ range' =
                    CASE Head(job).op = "new" ->
                           [range EXCEPT ![Head(job).dev] = Head(job).range]
                      [] Head(job).op = "start" ->
                           [range EXCEPT ![Head(job).dev].start = Head(job).to]
                      [] Head(job).op = "end" ->
                           [range EXCEPT ![Head(job).dev].end = Head(job).to]
                      [] OTHER -> range
<1>1. CASE NewDevice
  BY <1>1 DEF NewDevice, Current, Done
<1>2. CASE MapFirst \/ MapNext
  BY <1>2 DEF MapFirst, MapNext, Current, Done
<1>3. CASE UnmapFirst \/ UnmapNext
  BY <1>3 DEF UnmapFirst, UnmapNext, Current, Done, ThenUnlink
<1>4. CASE Unlink
  BY <1>4 DEF Unlink, Current, Done
<1>5. CASE MoveStart \/ MoveEnd
  BY <1>5 DEF MoveStart, MoveEnd, Current, Done
<1>6. CASE Delete
  BY <1>6 DEF Delete, Current, Done
<1> QED BY <1>1, <1>2, <1>3, <1>4, <1>5, <1>6 DEF JobStep

(* The devices that a call is not about *)
LEMMA CallOther ==
  ASSUME TypeOK, JobInv, JobStep, NEW e \in Device, e # Head(job).dev
  PROVE  /\ Due(job', e) = Due(job, e) /\ range'[e] = range[e]
         /\ e \in live' <=> e \in live
<1>1. job # <<>> /\ (job' = job => Due(job', e) = Due(job, e))
  BY CallEffect
<1>2. Due(job', e) = Due(job, e)
  BY <1>1, CallEffect, JobAdvance, JobUnlink
<1>3. range \in [Device -> AddressRange]
  BY DEF TypeOK
<1>4. range'[e] = range[e] /\ (e \in live' <=> e \in live)
  BY <1>3, CallEffect
<1> QED BY <1>2, <1>4

LEMMA BuiltinStep ==
  ASSUME MapAssumption, TypeOK, JobInv, BuiltinInv, JobStep
  PROVE  BuiltinInv'
<1> DEFINE c == Head(job)
<1>1. /\ job # <<>> /\ c \in Jobs /\ c.dev \in Device /\ Due(job, c.dev) = c.op
      /\ c = job[1] /\ 1 \in DOMAIN job
  <2>1. job # <<>> /\ job \in Seq(Jobs)
    BY CallEffect DEF TypeOK
  <2>2. c \in Jobs
    BY <2>1
  <2> QED BY <2>1, <2>2, CallType, DueHead, TailProperties
<1>2. c.dev \in BuiltinDevices =>
        \/ c.op = "map"
        \/ c.op = "new" /\ c.range = BuiltinRange[c.dev]
  BY <1>1 DEF BuiltinInv
<1>3. /\ \A i \in DOMAIN Tail(job) : i + 1 \in DOMAIN job
      /\ \A i \in DOMAIN Tail(job) : Tail(job)[i] = job[i + 1]
  BY <1>1, TailProperties DEF TypeOK
<1>4. ASSUME NEW i \in DOMAIN job', job'[i].dev \in BuiltinDevices
      PROVE  \/ job'[i].op = "map"
             \/ job'[i].op = "new" /\ job'[i].range = BuiltinRange[job'[i].dev]
  <2>1. CASE job' = job
    BY <1>4, <2>1 DEF BuiltinInv
  <2>2. CASE job' = Tail(job)
    <3>1. i + 1 \in DOMAIN job /\ job'[i] = job[i + 1]
      BY <1>3, <1>4, <2>2
    <3> QED BY <1>4, <3>1 DEF BuiltinInv
  <2>3. CASE c.op = "unmap" /\ job' = <<Call("unlink", c.dev)>> \o Tail(job)
    <3> DEFINE t == Tail(job)
               u == Call("unlink", c.dev)
    <3>1. t \in Seq(Jobs) /\ u \in Jobs
      BY <1>1, TailProperties DEF Call, Jobs, TypeOK
    <3>2. c.dev \notin BuiltinDevices
      BY <1>2, <2>3
    <3> HIDE DEF t
    <3>3. /\ Len(<<u>> \o t) = 1 + Len(t)
          /\ \A k \in 1 .. 1 + Len(t) :
               (<<u>> \o t)[k] = IF k <= 1 THEN u ELSE t[k - 1]
      BY <3>1
    <3>4. u.dev = c.dev
      BY DEF Call
    <3> HIDE DEF u
    <3>5. i \in 1 .. 1 + Len(t) /\ job'[i] = IF i <= 1 THEN u ELSE t[i - 1]
      BY <1>4, <2>3, <3>1, <3>3 DEF t, u
    <3>6. i # 1
      BY <1>4, <3>2, <3>4, <3>5
    <3>7. i - 1 \in DOMAIN t /\ job'[i] = t[i - 1]
      BY <3>1, <3>5, <3>6
    <3>8. (i - 1) + 1 \in DOMAIN job /\ job'[i] = job[(i - 1) + 1]
      BY <1>3, <3>7 DEF t
    <3> QED BY <1>4, <3>8 DEF BuiltinInv
  <2> QED BY <2>1, <2>2, <2>3, CallEffect
<1>5. ASSUME NEW e \in BuiltinDevices
      PROVE  IF e \in live' THEN range'[e] = BuiltinRange[e]
             ELSE Due(job', e) = "new"
  <2>1. e \in Device
    BY DEF Device
  <2>2. CASE e # c.dev
    BY <1>5, <2>1, <2>2, CallOther DEF BuiltinInv
  <2>3. CASE e = c.dev /\ job' = job
    BY <2>3, CallEffect DEF BuiltinInv
  <2>4. CASE e = c.dev /\ job' # job
    <3>1. CASE c.op = "new"
      BY <1>1, <1>2, <2>1, <2>4, <3>1, CallEffect DEF TypeOK
    <3>2. CASE c.op = "map"
      <4>1. e \in live
        BY <1>1, <2>1, <2>4, <3>2 DEF JobInv
      <4> QED BY <2>4, <3>2, <4>1, CallEffect DEF BuiltinInv
    <3> QED BY <1>2, <2>4, <3>1, <3>2
  <2> QED BY <2>2, <2>3, <2>4
<1> QED BY <1>4, <1>5 DEF BuiltinInv

(* unmap's last step, on the jobs that the dialog posts *)
LEMMA ReplaceFirst ==
  ASSUME NEW u \in Jobs, NEW a \in Jobs, NEW b \in Jobs, NEW c \in Jobs,
         NEW d \in Jobs
  PROVE  <<u>> \o Tail(<<a, b, c, d>>) = <<u, b, c, d>>
<1>1. Tail(<<a, b, c, d>>) = <<b, c, d>>
  OBVIOUS
<1>2. <<u>> \o <<b, c, d>> = <<u, b, c, d>>
  <2> DEFINE s == <<u>>
             t == <<b, c, d>>
             v == <<u, b, c, d>>
  <2>1. /\ s \in Seq(Jobs) /\ t \in Seq(Jobs) /\ v \in Seq(Jobs)
        /\ Len(s) = 1 /\ s[1] = u
        /\ Len(t) = 3 /\ t[1] = b /\ t[2] = c /\ t[3] = d
        /\ Len(v) = 4 /\ v[1] = u /\ v[2] = b /\ v[3] = c /\ v[4] = d
    OBVIOUS
  <2> HIDE DEF s, t, v
  <2>2. /\ s \o t \in Seq(Jobs) /\ Len(s \o t) = Len(s) + Len(t)
        /\ \A i \in 1 .. Len(s) + Len(t) :
             (s \o t)[i] = IF i <= Len(s) THEN s[i] ELSE t[i - Len(s)]
    BY <2>1, ConcatProperties
  <2>3. \A i \in 1 .. Len(s \o t) : (s \o t)[i] = v[i]
    BY <2>1, <2>2
  <2>4. s \o t = v
    BY <2>1, <2>2, <2>3, SeqEqual
  <2> QED BY <2>4 DEF s, t, v
<1> QED BY <1>1, <1>2

LEMMA ReplaceFirstOfTwo ==
  ASSUME NEW u \in Jobs, NEW a \in Jobs, NEW b \in Jobs
  PROVE  <<u>> \o Tail(<<a, b>>) = <<u, b>>
<1>1. Tail(<<a, b>>) = <<b>>
  OBVIOUS
<1>2. <<u>> \o <<b>> = <<u, b>>
  <2> DEFINE s == <<u>>
             t == <<b>>
             v == <<u, b>>
  <2>1. /\ s \in Seq(Jobs) /\ t \in Seq(Jobs) /\ v \in Seq(Jobs)
        /\ Len(s) = 1 /\ s[1] = u /\ Len(t) = 1 /\ t[1] = b
        /\ Len(v) = 2 /\ v[1] = u /\ v[2] = b
    OBVIOUS
  <2> HIDE DEF s, t, v
  <2>2. /\ s \o t \in Seq(Jobs) /\ Len(s \o t) = Len(s) + Len(t)
        /\ \A i \in 1 .. Len(s) + Len(t) :
             (s \o t)[i] = IF i <= Len(s) THEN s[i] ELSE t[i - Len(s)]
    BY <2>1, ConcatProperties
  <2>3. \A i \in 1 .. Len(s \o t) : (s \o t)[i] = v[i]
    BY <2>1, <2>2
  <2>4. s \o t = v
    BY <2>1, <2>2, <2>3, SeqEqual
  <2> QED BY <2>4 DEF s, t, v
<1> QED BY <1>1, <1>2

(* A call about d moves it on to where it is aimed at. *)
LEMMA AimStep ==
  ASSUME MapAssumption, TypeOK, JobInv, JobStep,
         NEW d \in Device, NEW r \in AddressRange, AimedAt(d, r)
  PROVE  AimedAt(d, r)'
<1>0. /\ job # <<>> /\ job \in Seq(Jobs) /\ range \in [Device -> AddressRange]
      /\ Due(job, Head(job).dev) = Head(job).op
  BY CallEffect, DueHead DEF TypeOK
<1> DEFINE n == New(d, r)
           f == SetStart(d, r.start)
           t == SetEnd(d, r.end)
           m == Call("map", d)
           x == Call("delete", d)
           u == Call("unlink", d)
<1>1. /\ n.dev = d /\ n.op = "new" /\ n.range = r
      /\ f.dev = d /\ f.op = "start" /\ f.to = r.start
      /\ t.dev = d /\ t.op = "end" /\ t.to = r.end
      /\ m.dev = d /\ m.op = "map" /\ x.dev = d /\ x.op = "delete"
      /\ \A op \in {"unmap", "unlink"} :
           Call(op, d).dev = d /\ Call(op, d).op = op
  BY DEF New, SetStart, SetEnd, Call
<1>2. /\ n \in Jobs /\ f \in Jobs /\ t \in Jobs /\ m \in Jobs /\ x \in Jobs
      /\ u \in Jobs /\ Call("unmap", d) \in Jobs
  BY DEF New, SetStart, SetEnd, Call, Jobs, AddressRange
<1> HIDE DEF n, f, t, m, x, u
<1>3. CASE job' = job
  BY <1>3, CallEffect DEF AimedAt
<1>4. CASE job' # job
  <2>1. CASE Due(job, d) = "none" /\ (d \in live => range[d] = r)
    <3>1. d # Head(job).dev
      <4>1. Head(job).op \in Ops
        BY <1>0, CallType
      <4> QED BY <1>0, <2>1, <4>1 DEF Ops
    <3> QED BY <2>1, <3>1, CallOther DEF AimedAt
  <2>2. CASE job = <<n, m>>
    <3>1. job' = <<m>> /\ range' = [range EXCEPT ![d] = r]
      BY <1>1, <1>2, <1>4, <2>2, CallEffect
    <3> QED BY <1>0, <3>1 DEF AimedAt, m
  <2>3. ASSUME NEW op \in {"unmap", "unlink"}, job = <<Call(op, d), f, t, m>>
        PROVE  AimedAt(d, r)'
    <3>1. Head(job) = Call(op, d) /\ Tail(job) = <<f, t, m>>
      BY <1>2, <2>3
    <3>2. CASE job' = Tail(job)
      BY <3>1, <3>2 DEF AimedAt, f, t, m
    <3>3. CASE job' = <<Call("unlink", Head(job).dev)>> \o Tail(job)
      <4>1. job' = <<u, f, t, m>>
        <5>1. job' = <<u>> \o Tail(<<Call(op, d), f, t, m>>)
          BY <1>1, <2>3, <3>1, <3>3 DEF u
        <5>2. Call(op, d) \in Jobs
          BY <1>2 DEF u
        <5>3. u \in Jobs /\ f \in Jobs /\ t \in Jobs /\ m \in Jobs
          BY <1>2
        <5>4. \A a \in Jobs : <<u>> \o Tail(<<a, f, t, m>>) = <<u, f, t, m>>
          BY <5>3, ReplaceFirst
        <5>5. <<u>> \o Tail(<<Call(op, d), f, t, m>>) = <<u, f, t, m>>
          BY <5>2, <5>4, Zenon
        <5> QED BY <5>1, <5>5
      <4> QED BY <4>1 DEF AimedAt, f, t, m, u
    <3> QED BY <1>4, <3>2, <3>3, CallEffect
  <2>4. CASE job = <<f, t, m>>
    <3>1. job' = <<t, m>> /\ range' = [range EXCEPT ![d].start = r.start]
      BY <1>1, <1>2, <1>4, <2>4, CallEffect
    <3>2. range'[d].start = r.start
      BY <1>0, <3>1 DEF AddressRange
    <3> QED BY <3>1, <3>2 DEF AimedAt, t, m
  <2>5. CASE job = <<t, m>> /\ range[d].start = r.start
    <3>1. job' = <<m>> /\ range' = [range EXCEPT ![d].end = r.end]
      BY <1>1, <1>2, <1>4, <2>5, CallEffect
    <3>2. range'[d] = r
      BY <1>0, <2>5, <3>1 DEF AddressRange
    <3> QED BY <3>1, <3>2 DEF AimedAt, m
  <2>6. CASE job = <<m>> /\ range[d] = r
    <3>1. job' = <<>> /\ range' = range
      BY <1>1, <1>2, <1>4, <2>6, CallEffect
    <3> QED BY <2>6, <3>1, DueEmpty DEF AimedAt
  <2>7. ASSUME NEW op \in {"unmap", "unlink"}, job = <<Call(op, d), x>>
        PROVE  AimedAt(d, r)'
    <3>1. Head(job) = Call(op, d) /\ Tail(job) = <<x>>
      BY <1>2, <2>7
    <3>2. CASE job' = Tail(job)
      BY <3>1, <3>2 DEF AimedAt, x
    <3>3. CASE job' = <<Call("unlink", Head(job).dev)>> \o Tail(job)
      <4>1. job' = <<u, x>>
        <5>1. job' = <<u>> \o Tail(<<Call(op, d), x>>)
          BY <1>1, <2>7, <3>1, <3>3 DEF u
        <5>2. Call(op, d) \in Jobs
          BY <1>2 DEF u
        <5>3. <<u>> \o Tail(<<Call(op, d), x>>) = <<u, x>>
          BY <1>2, <5>2, ReplaceFirstOfTwo, Zenon
        <5> QED BY <5>1, <5>3
      <4> QED BY <4>1 DEF AimedAt, x, u
    <3> QED BY <1>4, <3>2, <3>3, CallEffect
  <2>8. CASE job = <<x>>
    <3>1. job' = <<>> /\ live' = live \ {d}
      BY <1>1, <1>2, <1>4, <2>8, CallEffect
    <3> QED BY <3>1, DueEmpty DEF AimedAt
  <2> QED BY <2>1, <2>2, <2>3, <2>4, <2>5, <2>6, <2>7, <2>8
          DEF AimedAt, n, f, t, m, x
<1> QED BY <1>3, <1>4

(* No call makes a device that nobody asked for. *)
LEMMA WantedStep ==
  ASSUME TypeOK, JobInv, JobStep, NEW d \in Device, Wanted(d)'
  PROVE  Wanted(d)
<1>1. CASE d # Head(job).dev
  BY <1>1, CallOther DEF Wanted
<1>2. CASE d = Head(job).dev
  <2>1. job # <<>> /\ Due(job, d) = Head(job).op /\ Head(job) \in Jobs
    BY <1>2, CallEffect, DueHead DEF TypeOK
  <2> QED BY <2>1, CallType DEF Wanted, Ops
<1> QED BY <1>1, <1>2

LEMMA CustomStep ==
  ASSUME MapAssumption, TypeOK, JobInv, JobStep,
         NEW aim \in [Custom -> AddressRange], CustomInv(aim)
  PROVE  CustomInv(aim)'
<1>1. \A d \in Custom : d \in Device
  BY DEF Device
<1>2. BuiltinInv'
  BY BuiltinStep DEF CustomInv
<1>3. ASSUME NEW d \in Custom
      PROVE  AimedAt(d, aim[d])' /\ (Wanted(d)' => Wanted(d))
  BY <1>1, AimStep, WantedStep DEF CustomInv
<1> QED BY <1>2, <1>3 DEF CustomInv

(* The dialog's check of a range r for d *)
LEMMA CollisionFree ==
  ASSUME MapAssumption, NEW pos \in [Device -> Nat], Inv(pos), job = <<>>,
         NEW aim \in [Custom -> AddressRange], CustomInv(aim),
         NEW d \in Custom, NEW r \in Patterns,
         \/ ~HasCollision(r, {d})
         \/ d \notin live /\ ~HasCollision(r, {})
  PROVE  /\ ClearOfBuiltins(r)
         /\ \A e \in Custom :
              /\ e # d /\ e \in live
              /\ BlockOf(r.start) = BlockOf(aim[e].start)
              => ~Overlap(r, aim[e]) /\ ~Overlap(aim[e], r)
<1>1. /\ r \in AddressRange /\ r.start <= r.end
      /\ r.start \in Address /\ r.end \in Address
  BY DEF MapAssumption, AddressRange
<1>2. /\ BlockOf(r.start) \in Nat /\ BlockOf(r.end) \in Nat
      /\ BlockOf(r.start) <= BlockOf(r.end)
  BY <1>1, BlockNumbers
<1>3. /\ \A e \in Device : Due(job, e) = "none"
      /\ \A e \in Device : Linked(e) <=> e \in live
  BY DueEmpty DEF Linked
<1>4. ASSUME NEW e \in Device, e \in live, e # d,
             BlockOf(r.start) <= BlockOf(range[e].start),
             BlockOf(range[e].start) <= BlockOf(r.end)
      PROVE  ~Overlap(r, range[e])
  <2> DEFINE b == BlockOf(range[e].start)
  <2>1. b \in Block /\ e \in Members[b]
    BY <1>3, <1>4, MembersType DEF Inv
  <2>2. e \in Chain(b)
    BY <2>1, ChainMembers DEF Inv, Ordered
  <2> QED BY <1>4, <2>1, <2>2 DEF HasCollision
<1>5. ASSUME NEW e \in BuiltinDevices
      PROVE  /\ e \in Device /\ e \in live /\ e # d
             /\ range[e] = BuiltinRange[e] /\ BlockOf(range[e].start) \in Nat
  <2>1. e \in Device /\ e # d
    BY DEF Device, MapAssumption
  <2>2. e \in live
    BY <1>3, <2>1 DEF CustomInv, BuiltinInv
  <2>3. range[e] = BuiltinRange[e]
    BY <2>2 DEF CustomInv, BuiltinInv
  <2>4. range[e].start \in Address
    BY <2>1 DEF Inv, TypeOK, AddressRange
  <2> QED BY <2>1, <2>2, <2>3, <2>4, BlockNumbers
<1>6. ClearOfBuiltins(r)
  <2> SUFFICES ASSUME NEW e \in BuiltinDevices, Overlap(r, BuiltinRange[e]),
                      ~(BlockOf(BuiltinRange[e].start) < BlockOf(r.start)),
                      ~(BlockOf(r.end) < BlockOf(BuiltinRange[e].start))
               PROVE  FALSE
    BY DEF ClearOfBuiltins
  <2> QED BY <1>2, <1>4, <1>5
<1>7. ASSUME NEW e \in Custom, e # d, e \in live,
             BlockOf(r.start) = BlockOf(aim[e].start)
      PROVE  ~Overlap(r, aim[e]) /\ ~Overlap(aim[e], r)
  <2>1. e \in Device
    BY DEF Device
  <2>2. range[e] = aim[e]
    BY <1>7 DEF CustomInv, AimedAt
  <2>3. ~Overlap(r, range[e])
    BY <1>2, <1>4, <1>7, <2>1, <2>2
  <2> QED BY <2>2, <2>3 DEF Overlap
<1> QED BY <1>6, <1>7

(* A job about other devices than the custom ones and the built-in ones *)
LEMMA IoDevicesOnly ==
  ASSUME MapAssumption, TypeOK, JobInv,
         OpenDebugger \/ CloseDebugger \/ \E choice \in IoChoices : ChangeIo(choice)
  PROVE  \A i \in DOMAIN job' : job'[i].dev \in {Led, Dip}
<1>1. ASSUME NEW a \in [led : Address, dip : Address]
      PROVE  /\ \A i \in DOMAIN CreateIo(a) : CreateIo(a)[i].dev \in {Led, Dip}
             /\ \A i \in DOMAIN (DestroyIo \o CreateIo(a)) :
                  (DestroyIo \o CreateIo(a))[i].dev \in {Led, Dip}
  <2>1. /\ New(Led, OneByte(a.led)) \in Jobs /\ New(Dip, OneByte(a.dip)) \in Jobs
        /\ \A d \in {Led, Dip} : /\ Call("map", d) \in Jobs
                                /\ Call("unmap", d) \in Jobs
                                /\ Call("delete", d) \in Jobs
    BY IoCalls
  <2> DEFINE p == New(Led, OneByte(a.led))
             q == New(Dip, OneByte(a.dip))
             m == Call("map", Led)
             n == Call("map", Dip)
             u == Call("unmap", Led)
             v == Call("unmap", Dip)
             x == Call("delete", Led)
             y == Call("delete", Dip)
  <2>2. /\ CreateIo(a) = <<p, q, m, n>>
        /\ DestroyIo \o CreateIo(a) = <<u, v, x, y, p, q, m, n>>
    BY <2>1, ConcatFours DEF DestroyIo, CreateIo
  <2>3. /\ p.dev = Led /\ m.dev = Led /\ u.dev = Led /\ x.dev = Led
        /\ q.dev = Dip /\ n.dev = Dip /\ v.dev = Dip /\ y.dev = Dip
    BY DEF New, Call
  <2> HIDE DEF p, q, m, n, u, v, x, y
  <2>4. /\ \A i \in DOMAIN <<p, q, m, n>> : <<p, q, m, n>>[i].dev \in {Led, Dip}
        /\ \A i \in DOMAIN <<u, v, x, y, p, q, m, n>> :
             <<u, v, x, y, p, q, m, n>>[i].dev \in {Led, Dip}
    BY <2>3
  <2> QED BY <2>2, <2>4, Zenon
<1>2. \A i \in DOMAIN DestroyIo : DestroyIo[i].dev \in {Led, Dip}
  BY DEF DestroyIo, Call
<1>3. io \in [led : Address, dip : Address]
      /\ \A choice \in IoChoices : choice \in [led : Address, dip : Address]
  BY DEF TypeOK, MapAssumption
<1> QED BY <1>1, <1>2, <1>3 DEF OpenDebugger, CloseDebugger, ChangeIo, Post

(* A handler that leaves d alone leaves it where it is aimed at. *)
LEMMA Apart ==
  ASSUME MapAssumption, TypeOK, job = <<>>, job' \in Seq(Jobs),
         live' = live, range' = range,
         NEW d, \A i \in DOMAIN job' : job'[i].dev # d
  PROVE  /\ \A r : AimedAt(d, r) => AimedAt(d, r)'
         /\ Wanted(d)' <=> d \in live
         /\ Wanted(d) <=> d \in live
<1>1. Due(job', d) = "none" /\ Due(job, d) = "none"
  BY DueNone, DueEmpty
<1>2. \A r : AimedAt(d, r) => (d \in live => range[d] = r)
  BY DEF AimedAt
<1> QED BY <1>1, <1>2 DEF AimedAt, Wanted

LEMMA BuiltinHandler ==
  ASSUME MapAssumption, TypeOK, BuiltinInv, job = <<>>, live' = live,
         range' = range, \A i \in DOMAIN job' : job'[i].dev \notin BuiltinDevices
  PROVE  BuiltinInv'
<1>1. \A e \in BuiltinDevices : e \in live
  BY DueEmpty DEF BuiltinInv
<1> QED BY <1>1 DEF BuiltinInv

LEMMA CustomHandler ==
  ASSUME MapAssumption, NEW pos \in [Device -> Nat], Inv(pos), Handler,
         NEW aim \in [Custom -> AddressRange], CustomInv(aim)
  PROVE  \E goal \in [Custom -> AddressRange] : CustomInv(goal)'
<1>1. job = <<>> /\ live' = live /\ range' = range
  BY DEF Handler, OpenDebugger, CloseDebugger, ChangeIo, AddDevice, EditDevice,
         RemoveDevice, Idle, Post, mapVars
<1>2. TypeOK /\ JobInv /\ BuiltinInv /\ job' \in Seq(Jobs)
  BY HandlerInv DEF Inv, CustomInv, TypeOK
<1>3. /\ \A d \in Custom : d \notin BuiltinDevices /\ d # Led /\ d # Dip
      /\ Led \notin BuiltinDevices /\ Dip \notin BuiltinDevices
      /\ \A d \in Custom : d \in Device
  BY DEF MapAssumption, Device
<1>4. CASE OpenDebugger \/ CloseDebugger
             \/ \E choice \in IoChoices : ChangeIo(choice)
  <2>1. \A i \in DOMAIN job' : job'[i].dev \in {Led, Dip}
    BY <1>2, <1>4, IoDevicesOnly
  <2>2. BuiltinInv'
    BY <1>1, <1>2, <1>3, <2>1, BuiltinHandler
  <2>3. \A d \in Custom : AimedAt(d, aim[d])' /\ (Wanted(d)' => Wanted(d))
    <3> TAKE d \in Custom
    <3>1. \A i \in DOMAIN job' : job'[i].dev # d
      BY <1>3, <2>1
    <3> QED BY <1>1, <1>2, <3>1, Apart DEF CustomInv
  <2> QED BY <2>2, <2>3 DEF CustomInv
<1>5. ASSUME NEW d \in Custom, NEW r \in Patterns, AddDevice(d, r) \/ EditDevice(d, r)
      PROVE  \E goal \in [Custom -> AddressRange] : CustomInv(goal)'
  <2> DEFINE goal == [aim EXCEPT ![d] = r]
  <2>1. /\ \/ job' = <<New(d, r), Call("map", d)>>
           \/ job' = <<Call("unmap", d), SetStart(d, r.start),
                       SetEnd(d, r.end), Call("map", d)>>
        /\ \/ ~HasCollision(r, {d})
           \/ d \notin live /\ ~HasCollision(r, {})
    BY <1>5 DEF AddDevice, EditDevice, Post
  <2>2. \A i \in DOMAIN job' : job'[i].dev = d
    <3>1. /\ New(d, r).dev = d /\ SetStart(d, r.start).dev = d
          /\ SetEnd(d, r.end).dev = d
          /\ Call("map", d).dev = d /\ Call("unmap", d).dev = d
      BY DEF New, SetStart, SetEnd, Call
    <3>2. CASE job' = <<New(d, r), Call("map", d)>>
      BY <3>1, <3>2
    <3>3. CASE job' = <<Call("unmap", d), SetStart(d, r.start),
                        SetEnd(d, r.end), Call("map", d)>>
      BY <3>1, <3>3
    <3> QED BY <2>1, <3>2, <3>3
  <2>3. BuiltinInv'
    BY <1>1, <1>2, <1>3, <2>2, BuiltinHandler
  <2>4. /\ ClearOfBuiltins(r)
        /\ \A e \in Custom :
             e # d /\ e \in live /\ BlockOf(r.start) = BlockOf(aim[e].start)
               => ~Overlap(r, aim[e]) /\ ~Overlap(aim[e], r)
    BY <1>1, <2>1, CollisionFree
  <2>5. /\ goal \in [Custom -> AddressRange] /\ goal[d] = r
        /\ \A e \in Custom : e # d => goal[e] = aim[e]
    BY DEF MapAssumption
  <2>6. AimedAt(d, r)'
    BY <2>1 DEF AimedAt
  <2>7. \A e \in Custom : e # d =>
          /\ AimedAt(e, aim[e])'
          /\ Wanted(e)' <=> e \in live
          /\ Wanted(e) <=> e \in live
    <3> SUFFICES ASSUME NEW e \in Custom, e # d
                 PROVE  /\ AimedAt(e, aim[e])'
                        /\ Wanted(e)' <=> e \in live
                        /\ Wanted(e) <=> e \in live
      OBVIOUS
    <3>1. \A i \in DOMAIN job' : job'[i].dev # e
      BY <2>2
    <3>2. AimedAt(e, aim[e])
      BY DEF CustomInv
    <3> QED BY <1>1, <1>2, <3>1, <3>2, Apart
  <2> HIDE DEF goal
  <2>8. \A e \in Custom :
          /\ AimedAt(e, goal[e])'
          /\ Wanted(e)' => goal[e] \in Patterns /\ ClearOfBuiltins(goal[e])
    BY <2>4, <2>5, <2>6, <2>7 DEF CustomInv
  <2>9. ASSUME NEW e \in Custom, NEW f \in Custom, e # f,
               Wanted(e)', Wanted(f)',
               BlockOf(goal[e].start) = BlockOf(goal[f].start)
        PROVE  ~Overlap(goal[e], goal[f])
    BY <2>4, <2>5, <2>7, <2>9 DEF CustomInv
  <2>10. CustomInv(goal)'
    BY <2>3, <2>8, <2>9 DEF CustomInv
  <2> QED BY <2>5, <2>10
<1>6. ASSUME NEW d \in Custom, RemoveDevice(d)
      PROVE  CustomInv(aim)'
  <2>1. job' = <<Call("unmap", d), Call("delete", d)>> /\ d \in live
    BY <1>6 DEF RemoveDevice, Post
  <2>2. \A i \in DOMAIN job' : job'[i].dev = d
    <3>1. \A op : Call(op, d).dev = d
      BY DEF Call
    <3> QED BY <2>1, <3>1
  <2>3. BuiltinInv'
    BY <1>1, <1>2, <1>3, <2>2, BuiltinHandler
  <2>4. \A e \in Custom : AimedAt(e, aim[e])' /\ (Wanted(e)' => Wanted(e))
    <3> SUFFICES ASSUME NEW e \in Custom
                 PROVE  AimedAt(e, aim[e])' /\ (Wanted(e)' => Wanted(e))
      OBVIOUS
    <3>1. CASE e = d
      BY <2>1, <3>1 DEF AimedAt, Wanted
    <3>2. CASE e # d
      <4>1. \A i \in DOMAIN job' : job'[i].dev # e
        BY <2>2, <3>2
      <4> QED BY <1>1, <1>2, <4>1, Apart DEF CustomInv
    <3> QED BY <3>1, <3>2
  <2> QED BY <2>3, <2>4 DEF CustomInv
<1> QED BY <1>4, <1>5, <1>6 DEF Handler

LEMMA CustomInit ==
  ASSUME MapAssumption, Init
  PROVE  \E aim \in [Custom -> AddressRange] : CustomInv(aim)
<1> DEFINE aim == [d \in Custom |-> OneByte(0)]
<1>1. aim \in [Custom -> AddressRange]
  BY DEF OneByte, AddressRange, MapAssumption
<1>2. /\ live = {}
      /\ \A d \in Custom : Due(job, d) = "none"
      /\ \A e \in BuiltinDevices : Due(job, e) = "new"
  BY InitDue DEF Init, Device, MapAssumption
<1>3. \A d \in Custom : AimedAt(d, aim[d]) /\ ~Wanted(d)
  BY <1>2 DEF AimedAt, Wanted
<1>4. BuiltinInv
  <2> DEFINE n == Len(Builtin)
  <2>1. n \in Nat
    BY DEF MapAssumption
  <2>2. /\ DOMAIN job = 1 .. n + n
        /\ \A i \in 1 .. n :
             job[i] = New(Builtin[i], BuiltinRange[Builtin[i]])
        /\ \A i \in n + 1 .. n + n :
             i - n \in 1 .. n /\ job[i] = Call("map", Builtin[i - n])
    BY InitCalls
  <2> HIDE DEF n
  <2>3. ASSUME NEW i \in DOMAIN job
        PROVE  \/ job[i].op = "map"
               \/ job[i].op = "new" /\ job[i].range = BuiltinRange[job[i].dev]
    <3>1. i \in 1 .. n \/ i \in n + 1 .. n + n
      BY <2>1, <2>2
    <3>2. CASE i \in 1 .. n
      <4>1. job[i] = New(Builtin[i], BuiltinRange[Builtin[i]])
        BY <2>2, <3>2
      <4> QED BY <4>1 DEF New
    <3>3. CASE i \in n + 1 .. n + n
      <4>1. job[i] = Call("map", Builtin[i - n])
        BY <2>2, <3>3
      <4> QED BY <4>1 DEF Call
    <3> QED BY <3>1, <3>2, <3>3
  <2> QED BY <1>2, <2>3 DEF BuiltinInv
<1> HIDE DEF aim
<1> QED BY <1>1, <1>3, <1>4 DEF CustomInv

-----------------------------------------------------------------------------
(* THEOREMS *)

LEMMA AlwaysIndInv == Spec => []IndInv
<1>1. Init => IndInv
  BY MapAssumption, InitInv
<1>2. IndInv /\ [Next]_vars => IndInv'
  BY MapAssumption, NextInv
<1> QED BY <1>1, <1>2, PTL DEF Spec

(* The links of the map are devices or NULL and every range is of addresses,
   whatever MemoryMapManager's callers map, edit and unmap. *)
THEOREM TypeCorrect == Spec => []TypeOK
<1>1. IndInv => TypeOK
  BY DEF IndInv, Inv
<1> QED BY <1>1, AlwaysIndInv, PTL

(* Between two handlers the list of every block (map and unmap,
   dev/memory_map.cpp) holds exactly the live devices that start in it. *)
THEOREM ChainsAreSound == Spec => []ChainsSound
<1>1. ASSUME IndInv, Idle, NEW b \in Block
      PROVE  Chain(b) = {d \in live : BlockOf(range[d].start) = b}
  <2>1. PICK pos \in [Device -> Nat] : Inv(pos)
    BY <1>1 DEF IndInv
  <2>2. Chain(b) = Members[b]
    BY <2>1, MapAssumption, ChainMembers DEF Inv, Ordered
  <2>3. \A d \in Device : Due(job, d) = "none"
    BY <1>1, DueEmpty DEF Idle
  <2>4. live \subseteq Device
    BY <2>1 DEF Inv, TypeOK
  <2> QED BY <2>2, <2>3, <2>4 DEF Members, Linked
<1>2. IndInv => ChainsSound
  BY <1>1 DEF ChainsSound
<1> QED BY <1>2, AlwaysIndInv, PTL

(* The emulator thread leaves the devices' memory in get_block_device or in
   an access only if the GUI thread edited or removed the very device that it
   stood on. *)
THEOREM WildOnlyStrayed == Spec => []WildOnlyWhenStrayed
<1>1. IndInv => WildOnlyWhenStrayed
  BY DEF IndInv, Inv, WalkInv, WildOnlyWhenStrayed
<1> QED BY <1>1, AlwaysIndInv, PTL

(* get_block_device finds a device that stays mapped, whatever the GUI thread
   maps and unmaps around it meanwhile, in the block of its first address, and
   never in another. *)
THEOREM SteadyIsFound == Spec => []SteadyFound
<1>1. ASSUME NEW pos \in [Device -> Nat], Inv(pos), walk.phase = "none", ~strayed,
             NEW d \in steady, IsMapped(d, walk.addr)
      PROVE  BlockOf(range[d].start) < BlockOf(walk.addr)
  <2>1. d \notin Sought /\ d \in Device
    BY <1>1 DEF Inv, WalkInv, TypeOK
  <2>2. BlockOf(range[d].start) # BlockOf(walk.addr)
    BY <1>1, <2>1 DEF Sought
  <2>3. /\ range[d].start \in Address /\ walk.addr \in Address
        /\ range[d].start <= walk.addr
    BY <1>1, <2>1 DEF Inv, TypeOK, AddressRange, IsMapped
  <2>4. /\ BlockOf(range[d].start) \in Nat /\ BlockOf(walk.addr) \in Nat
        /\ BlockOf(range[d].start) <= BlockOf(walk.addr)
    BY <2>3, MapAssumption, BlockNumbers
  <2> QED BY <2>2, <2>4
<1>2. ASSUME NEW pos \in [Device -> Nat], Inv(pos), walk.phase = "access", ~strayed
      PROVE  BlockOf(range[walk.at].start) = BlockOf(walk.addr)
  BY <1>2 DEF Inv, WalkInv, Standing
<1>3. IndInv => SteadyFound
  BY <1>1, <1>2 DEF IndInv, SteadyFound
<1> QED BY <1>3, AlwaysIndInv, PTL

(* The devices after d in its list *)
LEMMA ListAfter ==
  ASSUME MapAssumption, NEW pos \in [Device -> Nat], Inv(pos),
         NEW d \in Device, Linked(d), NEW e \in ListFrom(next[d])
  PROVE  e # d /\ BlockOf(range[e].start) = BlockOf(range[d].start)
<1> DEFINE b == BlockOf(range[d].start)
           S == {x \in Members[b] : pos[d] < pos[x]}
<1>1. /\ b \in Block /\ d \in Members[b]
      /\ \A x \in Members[b] :
           /\ x \in Device /\ BlockOf(range[x].start) = b
           /\ next[x] # NULL => next[x] \in Members[b] /\ pos[x] < pos[next[x]]
  <2>1. b \in Block /\ d \in Members[b]
    BY MembersType DEF Inv
  <2> QED BY <2>1 DEF Inv, Ordered, Ascending, Members
<1> HIDE DEF b
<1>2. next[d] \in S \cup {NULL} /\ \A x \in S : next[x] \in S \cup {NULL}
  BY <1>1
<1>3. ListFrom(next[d]) \subseteq S
  <2> HIDE DEF S
  <2> QED BY <1>2, DeviceFinite, ListFromWithin
<1> QED BY <1>1, <1>3 DEF b

LEMMA CustomAlways ==
  Spec => [](\E aim \in [Custom -> AddressRange] : CustomInv(aim))
<1> DEFINE C == \E aim \in [Custom -> AddressRange] : CustomInv(aim)
<1>1. Init => C
  BY MapAssumption, CustomInit
<1>2. IndInv /\ C /\ [Next]_vars => C'
  <2> SUFFICES ASSUME IndInv, NEW aim \in [Custom -> AddressRange],
                      CustomInv(aim), [Next]_vars
               PROVE  C'
    OBVIOUS
  <2>1. PICK pos \in [Device -> Nat] : Inv(pos)
    BY DEF IndInv
  <2>2. CASE JobStep
    BY <2>1, <2>2, MapAssumption, CustomStep DEF Inv
  <2>3. CASE Handler
    BY <2>1, <2>3, MapAssumption, CustomHandler
  <2>4. CASE UNCHANGED <<mapVars, job>>
    BY <2>4 DEF CustomInv, BuiltinInv, AimedAt, Wanted, mapVars
  <2>5. UNCHANGED vars \/ ExecuteEmu \/ WalkStep \/ (\E a \in Probes : Begin(a))
          => UNCHANGED <<mapVars, job>>
    BY DEF vars, guiVars, ExecuteEmu, WalkStep, Begin, ReadHead, TestStart,
           TestEnd, Follow, Access, OpenBus, Reach, WalkTo, EndWalk
  <2> QED BY <2>2, <2>3, <2>4, <2>5 DEF Next
<1> QED BY <1>1, <1>2, AlwaysIndInv, PTL DEF Spec

-----------------------------------------------------------------------------
(* Devices within a block.  NothingSpans says it of the ranges that the program
   builds in and that the user enters. *)

Fits(r) == BlockOf(r.start) = BlockOf(r.end)

NothingSpans ==
  /\ \A r \in Patterns : Fits(r)
  /\ \A e \in BuiltinDevices : Fits(BuiltinRange[e])

(* A call that gives no device a range across blocks *)
CallFits(call) ==
  call.op \notin {"start", "end"} /\ (call.op = "new" => Fits(call.range))

(* A custom device may cross a block while it is being moved, but it is in no
   list then; the others are never moved. *)
FitsInv ==
  /\ \A i \in DOMAIN job : job[i].dev \notin Custom => CallFits(job[i])
  /\ \A d \in live \ Custom : Fits(range[d])
  /\ \A d \in live \cap Custom : Linked(d) => Fits(range[d])

(* The calls after a step are those from before it, and unlink. *)
LEMMA CallsKept ==
  ASSUME TypeOK, JobStep, NEW i \in DOMAIN job'
  PROVE  \/ \E j \in DOMAIN job : job'[i] = job[j]
         \/ job'[i].op = "unlink"
<1>1. job # <<>> /\ job \in Seq(Jobs)
  BY CallEffect DEF TypeOK
<1>2. /\ Tail(job) \in Seq(Jobs)
      /\ \A j \in DOMAIN Tail(job) :
           j + 1 \in DOMAIN job /\ Tail(job)[j] = job[j + 1]
  BY <1>1, TailProperties
<1>3. CASE job' = job \/ job' = Tail(job)
  BY <1>2, <1>3
<1>4. CASE job' = <<Call("unlink", Head(job).dev)>> \o Tail(job)
  <2> DEFINE t == Tail(job)
             u == Call("unlink", Head(job).dev)
  <2>1. u \in Jobs /\ u.op = "unlink"
    <3>1. Head(job) \in Jobs
      BY <1>1
    <3>2. Head(job).dev \in Device
      BY <3>1, CallType
    <3> QED BY <3>2 DEF Call, Jobs
  <2>2. t \in Seq(Jobs)
    BY <1>2
  <2> HIDE DEF t, u
  <2>3. /\ DOMAIN (<<u>> \o t) = 1 .. 1 + Len(t)
        /\ \A k \in 1 .. 1 + Len(t) :
             (<<u>> \o t)[k] = IF k <= 1 THEN u ELSE t[k - 1]
    BY <2>1, <2>2
  <2>4. i \in 1 .. 1 + Len(t) /\ job'[i] = IF i <= 1 THEN u ELSE t[i - 1]
    BY <1>4, <2>3 DEF t, u
  <2>5. CASE i <= 1
    BY <2>1, <2>4, <2>5
  <2>6. CASE ~(i <= 1)
    <3>1. i - 1 \in DOMAIN t /\ job'[i] = t[i - 1]
      BY <2>2, <2>4, <2>6
    <3> QED BY <1>2, <3>1 DEF t
  <2> QED BY <2>5, <2>6
<1> QED BY <1>3, <1>4, CallEffect

(* A custom device that is in a list after a call is where it is aimed at, or
   was in it before. *)
LEMMA LinkedAimed ==
  ASSUME MapAssumption, TypeOK, JobInv, JobStep,
         NEW aim \in [Custom -> AddressRange], CustomInv(aim),
         NEW d \in Custom, d \in live', Linked(d)'
  PROVE  \/ Linked(d) /\ range'[d] = range[d]
         \/ range'[d] = aim[d] /\ aim[d] \in Patterns
<1>1. /\ d \in Device /\ job # <<>> /\ Due(job, Head(job).dev) = Head(job).op
      /\ Head(job) \in Jobs
  BY CallEffect, DueHead DEF Device, TypeOK
<1>2. CASE d # Head(job).dev
  BY <1>1, <1>2, CallOther DEF Linked
<1>3. CASE d = Head(job).dev /\ job' = job
  BY <1>3, CallEffect DEF Linked
<1>4. CASE /\ d = Head(job).dev /\ Head(job).op = "unmap"
           /\ job' = <<Call("unlink", Head(job).dev)>> \o Tail(job)
  <2>1. Due(job', d) = "unlink"
    BY <1>1, <1>4, JobUnlink
  <2> QED BY <2>1 DEF Linked
<1>5. CASE d = Head(job).dev /\ job' = Tail(job)
  <2>1. IF Due(job', d) = "none" THEN Head(job).op \in {"map", "delete"}
        ELSE <<Head(job).op, Due(job', d)>> \in Follows
    BY <1>1, <1>5, JobAdvance
  <2>2. CASE Due(job', d) = "none"
    <3>1. AimedAt(d, aim[d])' /\ (Wanted(d)' => Wanted(d))
      BY <1>1, AimStep, WantedStep DEF CustomInv
    <3>2. range'[d] = aim[d]
      <4>1. ASSUME job' # <<>>, Head(job').dev = d
            PROVE  FALSE
        <5>1. job' \in Seq(Jobs) /\ Head(job') \in Jobs
          BY <1>1, <1>5, <4>1, JobAdvance
        <5>2. Due(job', d) = Head(job').op
          BY <4>1, <5>1, DueHead
        <5> QED BY <2>2, <5>1, <5>2, CallType DEF Ops
      <4>2. \A op, a, r :
              /\ Call(op, d).dev = d /\ New(d, r).dev = d
              /\ SetStart(d, a).dev = d /\ SetEnd(d, a).dev = d
        BY DEF Call, New, SetStart, SetEnd
      <4> QED BY <2>2, <3>1, <4>1, <4>2 DEF AimedAt
    <3>3. aim[d] \in Patterns
      BY <3>1 DEF CustomInv, Wanted
    <3> QED BY <3>2, <3>3
  <2>3. CASE Due(job', d) = "unmap"
    BY <2>1, <2>3 DEF Follows
  <2> QED BY <2>2, <2>3 DEF Linked
<1> QED BY <1>2, <1>3, <1>4, <1>5, CallEffect

LEMMA FitsStep ==
  ASSUME MapAssumption, NothingSpans, TypeOK, JobInv, JobStep,
         NEW aim \in [Custom -> AddressRange], CustomInv(aim), FitsInv
  PROVE  FitsInv'
<1>1. ASSUME NEW i \in DOMAIN job', job'[i].dev \notin Custom
      PROVE  CallFits(job'[i])
  <2>1. CASE \E j \in DOMAIN job : job'[i] = job[j]
    BY <1>1, <2>1 DEF FitsInv
  <2>2. CASE job'[i].op = "unlink"
    BY <2>2 DEF CallFits
  <2> QED BY <1>1, <2>1, <2>2, CallsKept
<1>2. ASSUME NEW d \in live' \ Custom
      PROVE  Fits(range'[d])
  <2>1. /\ job # <<>> /\ 1 \in DOMAIN job /\ Head(job) = job[1]
        /\ Head(job) \in Jobs /\ Head(job).dev \in Device
        /\ range \in [Device -> AddressRange]
    <3>1. job # <<>> /\ job \in Seq(Jobs) /\ range \in [Device -> AddressRange]
      BY CallEffect DEF TypeOK
    <3>2. Head(job) \in Jobs
      BY <3>1
    <3> QED BY <3>1, <3>2, CallType, TailProperties
  <2>2. CASE d # Head(job).dev
    <3>1. d \in live /\ d \in Device
      BY <1>2, <2>2, CallEffect DEF TypeOK
    <3>2. range'[d] = range[d]
      BY <2>2, <3>1, CallOther
    <3> QED BY <1>2, <3>1, <3>2 DEF FitsInv
  <2>3. CASE d = Head(job).dev
    <3>1. CallFits(Head(job))
      BY <1>2, <2>1, <2>3 DEF FitsInv
    <3>2. CASE d \in live /\ range' = range
      BY <1>2, <3>2 DEF FitsInv
    <3>3. CASE Head(job).op = "new" /\ range'[d] = Head(job).range
      BY <3>1, <3>3 DEF CallFits
    <3>4. \/ d \in live /\ range' = range
          \/ Head(job).op = "new" /\ range'[d] = Head(job).range
      BY <1>2, <2>1, <2>3, <3>1, CallEffect DEF CallFits
    <3> QED BY <3>2, <3>3, <3>4
  <2> QED BY <2>2, <2>3
<1>3. ASSUME NEW d \in live' \cap Custom, Linked(d)'
      PROVE  Fits(range'[d])
  <2>1. \/ Linked(d) /\ range'[d] = range[d]
        \/ range'[d] = aim[d] /\ aim[d] \in Patterns
    BY <1>3, LinkedAimed
  <2>2. Linked(d) => d \in live
    BY DEF Linked
  <2> QED BY <1>3, <2>1, <2>2 DEF FitsInv, NothingSpans
<1> QED BY <1>1, <1>2, <1>3 DEF FitsInv

(* The jobs of the LED and DIP devices *)
LEMMA IoCallsFit ==
  ASSUME MapAssumption, TypeOK,
         OpenDebugger \/ CloseDebugger \/ \E choice \in IoChoices : ChangeIo(choice)
  PROVE  \A i \in DOMAIN job' : CallFits(job'[i])
<1>1. /\ \A d : \A op \in {"map", "unmap", "delete"} : CallFits(Call(op, d))
      /\ \A d, a : CallFits(New(d, OneByte(a)))
  BY DEF CallFits, Call, New, OneByte, Fits
<1>2. ASSUME NEW a \in [led : Address, dip : Address]
      PROVE  /\ \A i \in DOMAIN CreateIo(a) : CallFits(CreateIo(a)[i])
             /\ \A i \in DOMAIN (DestroyIo \o CreateIo(a)) :
                  CallFits((DestroyIo \o CreateIo(a))[i])
  <2>1. /\ New(Led, OneByte(a.led)) \in Jobs /\ New(Dip, OneByte(a.dip)) \in Jobs
        /\ \A d \in {Led, Dip} : /\ Call("map", d) \in Jobs
                                /\ Call("unmap", d) \in Jobs
                                /\ Call("delete", d) \in Jobs
    BY IoCalls
  <2> DEFINE p == New(Led, OneByte(a.led))
             q == New(Dip, OneByte(a.dip))
             m == Call("map", Led)
             n == Call("map", Dip)
             u == Call("unmap", Led)
             v == Call("unmap", Dip)
             x == Call("delete", Led)
             y == Call("delete", Dip)
  <2>2. /\ CreateIo(a) = <<p, q, m, n>>
        /\ DestroyIo \o CreateIo(a) = <<u, v, x, y, p, q, m, n>>
    BY <2>1, ConcatFours DEF DestroyIo, CreateIo
  <2>3. /\ CallFits(p) /\ CallFits(q) /\ CallFits(m) /\ CallFits(n)
        /\ CallFits(u) /\ CallFits(v) /\ CallFits(x) /\ CallFits(y)
    BY <1>1
  <2> HIDE DEF p, q, m, n, u, v, x, y
  <2>4. /\ \A i \in DOMAIN <<p, q, m, n>> : CallFits(<<p, q, m, n>>[i])
        /\ \A i \in DOMAIN <<u, v, x, y, p, q, m, n>> :
             CallFits(<<u, v, x, y, p, q, m, n>>[i])
    BY <2>3
  <2> QED BY <2>2, <2>4, Zenon
<1>3. \A i \in DOMAIN DestroyIo : CallFits(DestroyIo[i])
  <2> DEFINE u == Call("unmap", Led)
             v == Call("unmap", Dip)
             x == Call("delete", Led)
             y == Call("delete", Dip)
  <2>1. CallFits(u) /\ CallFits(v) /\ CallFits(x) /\ CallFits(y)
    BY <1>1
  <2>2. DestroyIo = <<u, v, x, y>>
    BY DEF DestroyIo
  <2> HIDE DEF u, v, x, y
  <2>3. \A i \in DOMAIN <<u, v, x, y>> : CallFits(<<u, v, x, y>>[i])
    BY <2>1
  <2> QED BY <2>2, <2>3, Zenon
<1>4. io \in [led : Address, dip : Address]
      /\ \A choice \in IoChoices : choice \in [led : Address, dip : Address]
  BY DEF TypeOK, MapAssumption
<1> QED BY <1>2, <1>3, <1>4 DEF OpenDebugger, CloseDebugger, ChangeIo, Post

LEMMA FitsHandler ==
  ASSUME MapAssumption, TypeOK, FitsInv, Handler
  PROVE  FitsInv'
<1>1. job = <<>> /\ live' = live /\ range' = range
  BY DEF Handler, OpenDebugger, CloseDebugger, ChangeIo, AddDevice, EditDevice,
         RemoveDevice, Idle, Post, mapVars
<1>2. \A d \in live' \cap Custom : Linked(d)
  BY <1>1, DueEmpty DEF Linked, Device
<1>3. \A i \in DOMAIN job' : job'[i].dev \notin Custom => CallFits(job'[i])
  <2>1. CASE OpenDebugger \/ CloseDebugger
               \/ \E choice \in IoChoices : ChangeIo(choice)
    BY <2>1, IoCallsFit
  <2>2. ASSUME NEW d \in Custom, NEW r \in Patterns,
               AddDevice(d, r) \/ EditDevice(d, r) \/ RemoveDevice(d)
        PROVE  \A i \in DOMAIN job' : job'[i].dev \in Custom
    <3>1. /\ New(d, r).dev = d /\ SetStart(d, r.start).dev = d
          /\ SetEnd(d, r.end).dev = d /\ \A op : Call(op, d).dev = d
      BY DEF New, SetStart, SetEnd, Call
    <3>2. CASE job' = <<New(d, r), Call("map", d)>>
      BY <3>1, <3>2
    <3>3. CASE job' = <<Call("unmap", d), SetStart(d, r.start),
                        SetEnd(d, r.end), Call("map", d)>>
      BY <3>1, <3>3
    <3>4. CASE job' = <<Call("unmap", d), Call("delete", d)>>
      BY <3>1, <3>4
    <3> QED BY <2>2, <3>2, <3>3, <3>4 DEF AddDevice, EditDevice, RemoveDevice, Post
  <2>3. CASE \E d \in Custom : RemoveDevice(d) /\ Patterns = {}
    <3>1. PICK d \in Custom : RemoveDevice(d)
      BY <2>3
    <3>2. job' = <<Call("unmap", d), Call("delete", d)>> /\ \A op : Call(op, d).dev = d
      BY <3>1 DEF RemoveDevice, Post, Call
    <3> QED BY <3>2
  <2> QED BY <2>1, <2>2, <2>3 DEF Handler
<1> QED BY <1>1, <1>2, <1>3 DEF FitsInv

LEMMA FitsInit ==
  ASSUME MapAssumption, NothingSpans, Init
  PROVE  FitsInv
<1>1. \E aim \in [Custom -> AddressRange] : CustomInv(aim)
  BY CustomInit
<1>2. BuiltinInv /\ live = {}
  BY <1>1 DEF CustomInv, Init
<1>3. ASSUME NEW i \in DOMAIN job
      PROVE  CallFits(job[i])
  <2>1. job[i].dev \in BuiltinDevices
    <3> DEFINE n == Len(Builtin)
    <3>1. n \in Nat /\ \A k \in 1 .. n : Builtin[k] \in BuiltinDevices
      BY DEF MapAssumption, BuiltinDevices
    <3>2. /\ DOMAIN job = 1 .. n + n
          /\ \A k \in 1 .. n :
               job[k] = New(Builtin[k], BuiltinRange[Builtin[k]])
          /\ \A k \in n + 1 .. n + n :
               k - n \in 1 .. n /\ job[k] = Call("map", Builtin[k - n])
      BY InitCalls
    <3> HIDE DEF n
    <3>3. i \in 1 .. n \/ i \in n + 1 .. n + n
      BY <3>1, <3>2
    <3>4. \A d, r : New(d, r).dev = d /\ Call("map", d).dev = d
      BY DEF New, Call
    <3> QED BY <3>1, <3>2, <3>3, <3>4
  <2>2. \/ job[i].op = "map"
        \/ job[i].op = "new" /\ job[i].range = BuiltinRange[job[i].dev]
    BY <1>2, <2>1 DEF BuiltinInv
  <2> QED BY <2>1, <2>2 DEF CallFits, NothingSpans
<1> QED BY <1>2, <1>3 DEF FitsInv

LEMMA FitsAlways ==
  ASSUME NothingSpans
  PROVE  Spec => []FitsInv
<1> DEFINE C == \E aim \in [Custom -> AddressRange] : CustomInv(aim)
<1>1. Init => FitsInv
  BY MapAssumption, FitsInit
<1>2. IndInv /\ C /\ FitsInv /\ [Next]_vars => FitsInv'
  <2> SUFFICES ASSUME IndInv, NEW aim \in [Custom -> AddressRange],
                      CustomInv(aim), FitsInv, [Next]_vars
               PROVE  FitsInv'
    OBVIOUS
  <2>1. TypeOK /\ JobInv
    BY DEF IndInv, Inv
  <2>2. CASE JobStep
    BY <2>1, <2>2, MapAssumption, FitsStep
  <2>3. CASE Handler
    BY <2>1, <2>3, MapAssumption, FitsHandler
  <2>4. CASE UNCHANGED <<mapVars, job>>
    BY <2>4 DEF FitsInv, Linked, mapVars
  <2>5. UNCHANGED vars \/ ExecuteEmu \/ WalkStep \/ (\E a \in Probes : Begin(a))
          => UNCHANGED <<mapVars, job>>
    BY DEF vars, guiVars, ExecuteEmu, WalkStep, Begin, ReadHead, TestStart,
           TestEnd, Follow, Access, OpenBus, Reach, WalkTo, EndWalk
  <2> QED BY <2>2, <2>3, <2>4, <2>5 DEF Next
<1> QED BY <1>1, <1>2, AlwaysIndInv, CustomAlways, PTL DEF Spec

(* As long as no device crosses the border of a block, get_block_device finds
   every device that stays mapped, at each of its addresses. *)
THEOREM FoundWithinBlocks ==
  ASSUME NothingSpans
  PROVE  Spec => []DevicesFound
<1>1. ASSUME NEW pos \in [Device -> Nat], Inv(pos), FitsInv,
             walk.phase = "none", ~strayed, NEW d \in steady, IsMapped(d, walk.addr)
      PROVE  FALSE
  <2>1. d \notin Sought /\ Linked(d) /\ d \in Device
    BY <1>1 DEF Inv, WalkInv, TypeOK
  <2>2. Fits(range[d])
    BY <1>1, <2>1 DEF FitsInv, Linked
  <2>3. /\ range[d].start \in Address /\ range[d].end \in Address
        /\ walk.addr \in Address
        /\ range[d].start <= walk.addr /\ walk.addr <= range[d].end
    BY <1>1, <2>1 DEF Inv, TypeOK, AddressRange, IsMapped
  <2>4. BlockOf(range[d].start) = BlockOf(walk.addr)
    <3>1. /\ BlockOf(range[d].start) \in Nat /\ BlockOf(walk.addr) \in Nat
          /\ BlockOf(range[d].start) <= BlockOf(walk.addr)
          /\ BlockOf(walk.addr) <= BlockOf(range[d].end)
      BY <2>3, MapAssumption, BlockNumbers
    <3> QED BY <2>2, <3>1 DEF Fits
  <2> QED BY <1>1, <2>1, <2>4 DEF Sought
<1>2. IndInv /\ FitsInv => DevicesFound
  BY <1>1 DEF IndInv, DevicesFound
<1> QED BY <1>2, AlwaysIndInv, FitsAlways, PTL

-----------------------------------------------------------------------------
(* Whatever the Custom Devices dialog has accepted (has_collision,
   dev/memory_map.cpp), load_devices accepts again at the next start, in the
   order in which the devices are saved. *)
THEOREM RestartKeeps == Spec => []RestartKeepsDevices
<1>1. ASSUME NEW pos \in [Device -> Nat], Inv(pos),
             NEW aim \in [Custom -> AddressRange], CustomInv(aim), Idle,
             NEW d \in Custom, d \in live, NEW e \in live, RefusedFor(d, e)
      PROVE  FALSE
  <2>1. d \in Device /\ e \in Device /\ \A c \in Custom : c \in Device
    BY <1>1 DEF Inv, TypeOK, Device
  <2>2. /\ BlockOf(range[d].start) \in Nat /\ BlockOf(range[d].end) \in Nat
        /\ BlockOf(range[e].start) \in Nat
    BY <1>1, <2>1, MapAssumption, BlockNumbers DEF Inv, TypeOK, AddressRange
  <2>3. job = <<>> /\ \A c \in Device : Due(job, c) = "none"
    BY <1>1, DueEmpty DEF Idle
  <2>4. \A c \in Custom : c \in live => range[c] = aim[c] /\ Wanted(c)
    BY <1>1, <2>3 DEF CustomInv, AimedAt, Wanted
  <2>5. CASE e \in BuiltinDevices
    <3>1. range[e] = BuiltinRange[e] /\ ClearOfBuiltins(range[d])
      BY <1>1, <2>4, <2>5 DEF CustomInv, BuiltinInv
    <3> QED BY <1>1, <2>2, <2>5, <3>1 DEF ClearOfBuiltins, RefusedFor
  <2>6. CASE e \in Custom /\ SavedBefore(e, d)
    <3>1. d \in ListFrom(next[e])
      BY <1>1, <2>2, <2>6 DEF SavedBefore, RefusedFor
    <3>2. Linked(e)
      BY <1>1, <2>1, <2>3 DEF Linked
    <3>3. d # e /\ BlockOf(range[d].start) = BlockOf(range[e].start)
      BY <1>1, <2>1, <3>1, <3>2, MapAssumption, ListAfter
    <3>4. ~Overlap(range[d], range[e])
      BY <1>1, <2>4, <2>6, <3>3 DEF CustomInv
    <3> QED BY <1>1, <3>4 DEF RefusedFor
  <2> QED BY <1>1, <2>5, <2>6 DEF RefusedFor
<1>2. IndInv /\ (\E aim \in [Custom -> AddressRange] : CustomInv(aim))
        => RestartKeepsDevices
  BY <1>1 DEF IndInv, RestartKeepsDevices
<1> QED BY <1>2, AlwaysIndInv, CustomAlways, PTL

=============================================================================
