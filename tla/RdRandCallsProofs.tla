-------------------------- MODULE RdRandCallsProofs --------------------------
(***************************************************************************)
(* What holds of a call of a generation function, for every function,      *)
(* address, count and retry limit, whichever draws fail.                   *)
(***************************************************************************)
EXTENDS RdRandCalls, FiniteSetTheorems, TLAPS

PartSet == [first : Nat, draws : Nat \ {0}, size : 1..WORD, group : 1..3]

(* The address after a part. *)
End(p) == p.first + p.draws * p.size

(* The parts s lie between the addresses a and b. *)
Within(s, a, b) == \A i \in DOMAIN s : a <= s[i].first /\ End(s[i]) <= b

(* The parts s follow each other without a gap, from a to b. *)
Chain(s, a, b) ==
  /\ s = << >> => a = b
  /\ s # << >> => /\ s[1].first = a
                  /\ \A i \in 1..(Len(s) - 1) : s[i + 1].first = End(s[i])
                  /\ End(s[Len(s)]) = b

(* The parts s come in the order of their addresses, and of their groups,  *)
(* which are of two parts at most and numbered from a to b.                *)
Layout(s, a, b) ==
  /\ \A i, j \in DOMAIN s : i < j => End(s[i]) <= s[j].first
  /\ \A i \in DOMAIN s : a <= s[i].group /\ s[i].group <= b
  /\ \A i, j \in DOMAIN s : j = i + 2 => s[i].group # s[j].group

-----------------------------------------------------------------------------
(* Arithmetic.                                                             *)

LEMMA Products ==
  ASSUME NEW a \in Nat, NEW b \in Nat
  PROVE  /\ a * b \in Nat /\ a * b = b * a
         /\ b >= 1 => a <= a * b
         /\ a * b = 0 => a = 0 \/ b = 0
BY SMT

LEMMA DivisionWithRest ==
  ASSUME NEW a \in Nat, NEW b \in Nat, b >= 1
  PROVE  /\ a \div b \in Nat /\ a % b \in Nat /\ a % b < b
         /\ a = b * (a \div b) + (a % b)
BY SMT

LEMMA DivisionUnique ==
  ASSUME NEW a \in Nat, NEW b \in Nat, b >= 1, NEW q \in Nat, NEW r \in Nat,
         r < b, a = b * q + r
  PROVE  a \div b = q
BY SMT

LEMMA UnitRatio ==
  ASSUME NEW u \in Nat, NEW r \in Nat, u >= 1, r >= 1, WORD = u * r
  PROVE  u <= WORD /\ WORD \div u = r
<1>1. WORD = u * r + 0 /\ 0 < u
  BY WordAssumption
<1>2. WORD \div u = r
  BY <1>1, WordAssumption, DivisionUnique
<1>3. u <= u * r
  BY Products
<1> QED
  BY <1>2, <1>3

(* A word is four units of 16 bits, two of 32 and one of 64. *)
LEMMA Units ==
  ASSUME NEW fn \in FunctionNames
  PROVE  /\ Unit(fn) \in Nat /\ 1 <= Unit(fn) /\ Unit(fn) <= WORD
         /\ WORD \div Unit(fn) \in Nat /\ WORD \div Unit(fn) >= 1
         /\ WORD = Unit(fn) * (WORD \div Unit(fn))
<1>1. PICK q \in Nat : q >= 1 /\ WORD = q * 4 /\ q = WORD \div 4
  <2>1. WORD = (WORD \div 4) * 4 /\ WORD \div 4 \in Nat /\ WORD \div 4 >= 1
    BY WordAssumption, WordOfUnits
  <2> QED
    BY <2>1
<1>2. WORD \div 2 = 2 * q /\ WORD = (2 * q) * 2
  BY <1>1
<1>3. \/ fn \in {"uint16", "uint16_array"} /\ Unit(fn) = q
      \/ fn \in {"uint32", "uint32_array"} /\ Unit(fn) = 2 * q
      \/ /\ fn \in {"uint64", "uint64_array", "reseed_delay", "reseed_skip"}
         /\ Unit(fn) = WORD
      \/ fn \in {"uint8_array", "get_bytes", "fwrite"} /\ Unit(fn) = 1
  BY <1>1, <1>2 DEF Unit, FunctionNames, Singles, Arrays, Reseeds
<1>4. \E u \in Nat, r \in Nat : u >= 1 /\ r >= 1 /\ WORD = u * r /\ Unit(fn) = u
  <2>1. CASE Unit(fn) = q
    BY <1>1, <2>1
  <2>2. CASE Unit(fn) = 2 * q
    <3>1. 2 * q \in Nat /\ 2 * q >= 1 /\ WORD = (2 * q) * 2
      BY <1>1, <1>2
    <3> QED
      BY <2>2, <3>1
  <2>3. CASE Unit(fn) = WORD
    <3>1. WORD = WORD * 1
      BY WordAssumption
    <3> WORD \in Nat /\ 1 \in Nat /\ WORD >= 1
      BY WordAssumption
    <3> WITNESS WORD \in Nat, 1 \in Nat
    <3> QED
      BY <2>3, <3>1
  <2>4. CASE Unit(fn) = 1
    <3>1. WORD = 1 * WORD
      BY WordAssumption
    <3> WORD \in Nat /\ 1 \in Nat /\ WORD >= 1
      BY WordAssumption
    <3> WITNESS 1 \in Nat, WORD \in Nat
    <3> QED
      BY <2>4, <3>1
  <2> QED
    BY <1>3, <2>1, <2>2, <2>3, <2>4
<1> QED
  BY <1>4, UnitRatio

-----------------------------------------------------------------------------
(* The parts of a call.                                                    *)

LEMMA PartShape ==
  ASSUME NEW first \in Nat, NEW draws \in Nat, NEW size \in 0..WORD, NEW group \in 1..3
  PROVE  /\ Part(first, draws, size, group) \in Seq(PartSet)
         /\ Within(Part(first, draws, size, group), first, first + draws * size)
         /\ Chain(Part(first, draws, size, group), first, first + draws * size)
         /\ Layout(Part(first, draws, size, group), group, group)
         /\ Len(Part(first, draws, size, group)) <= 1
<1>1. draws * size \in Nat
  BY Products, WordAssumption
<1>2. CASE draws * size = 0
  BY <1>2 DEF Part, Within, Chain, Layout
<1>3. CASE draws * size # 0
  <2>1. draws # 0 /\ size # 0
    BY <1>3
  <2> DEFINE p == [first |-> first, draws |-> draws, size |-> size, group |-> group]
  <2>2. p \in PartSet /\ End(p) = first + draws * size
    BY <2>1, WordAssumption DEF PartSet, End
  <2>3. Part(first, draws, size, group) = << p >>
    BY <1>3 DEF Part
  <2>4. p.first = first /\ p.group = group
    OBVIOUS
  <2> HIDE DEF p
  <2>5. << p >> \in Seq(PartSet) /\ DOMAIN << p >> = {1} /\ << p >>[1] = p /\ Len(<< p >>) = 1
        /\ << p >> # << >>
    BY <2>2
  <2>6. Within(<< p >>, first, first + draws * size)
    BY <2>2, <2>4, <2>5 DEF Within
  <2>7. Chain(<< p >>, first, first + draws * size)
    BY <2>2, <2>4, <2>5 DEF Chain
  <2>8. Layout(<< p >>, group, group)
    <3>1. \A i, j \in {1} : ~(i < j) /\ j # i + 2
      OBVIOUS
    <3> QED
      BY <2>4, <2>5, <3>1 DEF Layout
  <2> QED
    BY <2>3, <2>5, <2>6, <2>7, <2>8
<1> QED
  BY <1>2, <1>3

LEMMA PartTypes ==
  ASSUME NEW p \in PartSet
  PROVE  /\ p.first \in Nat /\ p.draws \in Nat /\ p.draws >= 1
         /\ p.size \in Nat /\ p.size >= 1 /\ p.size <= WORD
         /\ End(p) \in Nat
<1>1. /\ p.first \in Nat /\ p.draws \in Nat /\ p.draws >= 1
      /\ p.size \in Nat /\ p.size >= 1 /\ p.size <= WORD
  BY WordAssumption DEF PartSet
<1>2. p.draws * p.size \in Nat
  BY <1>1, Products
<1> QED
  BY <1>1, <1>2 DEF End

(* One array of parts after the other. *)
LEMMA WithinConcat ==
  ASSUME NEW s \in Seq(PartSet), NEW t \in Seq(PartSet),
         NEW a \in Int, NEW b \in Int, NEW c \in Int, NEW d \in Int,
         Within(s, a, b), Within(t, c, d), a <= c, b <= d
  PROVE  s \o t \in Seq(PartSet) /\ Within(s \o t, a, d)
<1>1. s \o t \in Seq(PartSet)
  OBVIOUS
<1>2. ASSUME NEW i \in DOMAIN (s \o t)
      PROVE  a <= (s \o t)[i].first /\ End((s \o t)[i]) <= d
  <2>1. (s \o t)[i] \in PartSet
    BY <1>1
  <2>2. (s \o t)[i].first \in Nat /\ End((s \o t)[i]) \in Nat
    BY <2>1, PartTypes
  <2>3. CASE i <= Len(s)
    <3>1. (s \o t)[i] = s[i] /\ i \in DOMAIN s
      BY <2>3
    <3> QED
      BY <2>2, <3>1 DEF Within
  <2>4. CASE i > Len(s)
    <3>1. (s \o t)[i] = t[i - Len(s)] /\ i - Len(s) \in DOMAIN t
      BY <2>4
    <3> QED
      BY <2>2, <3>1 DEF Within
  <2> QED
    BY <2>3, <2>4
<1> QED
  BY <1>1, <1>2 DEF Within

LEMMA ChainConcat ==
  ASSUME NEW s \in Seq(PartSet), NEW t \in Seq(PartSet), NEW a, NEW b, NEW c,
         Chain(s, a, b), Chain(t, b, c)
  PROVE  Chain(s \o t, a, c)
<1>1. CASE s = << >>
  <2>1. s \o t = t
    BY <1>1
  <2> QED
    BY <1>1, <2>1 DEF Chain
<1>2. CASE t = << >>
  <2>1. s \o t = s
    BY <1>2
  <2> QED
    BY <1>2, <2>1 DEF Chain
<1>3. CASE s # << >> /\ t # << >>
  <2> DEFINE n == Len(s)
             w == s \o t
  <2>1. /\ n \in Nat /\ n >= 1 /\ Len(t) \in Nat /\ Len(t) >= 1 /\ Len(w) = n + Len(t)
        /\ w # << >>
        /\ \A i \in 1..n : w[i] = s[i]
        /\ \A i \in 1..Len(t) : w[n + i] = t[i]
    BY <1>3
  <2> HIDE DEF n, w
  <2>2. w[1].first = a
    BY <1>3, <2>1 DEF Chain
  <2>3. End(w[Len(w)]) = c
    BY <1>3, <2>1 DEF Chain
  <2>4. ASSUME NEW i \in 1..(Len(w) - 1)
        PROVE  w[i + 1].first = End(w[i])
    <3>1. CASE i < n
      <4>1. i \in 1..(n - 1) /\ w[i] = s[i] /\ w[i + 1] = s[i + 1]
        BY <2>1, <3>1
      <4> QED
        BY <1>3, <4>1 DEF Chain, n
    <3>2. CASE i = n
      <4>1. w[i] = s[Len(s)] /\ w[i + 1] = t[1]
        BY <2>1, <3>2 DEF n
      <4> QED
        BY <1>3, <4>1 DEF Chain
    <3>3. CASE i > n
      <4>1. PICK j \in 1..(Len(t) - 1) : i = n + j
        <5>1. i - n \in 1..(Len(t) - 1) /\ i = n + (i - n)
          BY <2>1, <3>3
        <5> QED
          BY <5>1
      <4>2. w[i] = t[j] /\ w[i + 1] = t[j + 1]
        BY <2>1, <4>1
      <4> QED
        BY <1>3, <4>2 DEF Chain
    <3> QED
      BY <2>1, <3>1, <3>2, <3>3
  <2> QED
    BY <2>1, <2>2, <2>3, <2>4 DEF Chain, w
<1> QED
  BY <1>1, <1>2, <1>3

LEMMA ConcatElements ==
  ASSUME NEW s \in Seq(PartSet), NEW t \in Seq(PartSet)
  PROVE  /\ s \o t \in Seq(PartSet) /\ DOMAIN (s \o t) = 1..(Len(s) + Len(t))
         /\ Len(s) \in Nat /\ Len(t) \in Nat
         /\ DOMAIN s = 1..Len(s) /\ DOMAIN t = 1..Len(t)
         /\ \A i \in DOMAIN s : (s \o t)[i] = s[i]
         /\ \A i \in DOMAIN t : (s \o t)[Len(s) + i] = t[i]
OBVIOUS

LEMMA ConcatCases ==
  ASSUME NEW s \in Seq(PartSet), NEW t \in Seq(PartSet), NEW i \in DOMAIN (s \o t)
  PROVE  \/ i \in DOMAIN s /\ (s \o t)[i] = s[i]
         \/ i - Len(s) \in DOMAIN t /\ (s \o t)[i] = t[i - Len(s)] /\ i > Len(s)
<1> DEFINE w == s \o t
<1>1. /\ DOMAIN w = 1..(Len(s) + Len(t)) /\ i \in DOMAIN w
      /\ Len(s) \in Nat /\ Len(t) \in Nat
      /\ DOMAIN s = 1..Len(s) /\ DOMAIN t = 1..Len(t)
      /\ \A k \in DOMAIN s : w[k] = s[k]
      /\ \A k \in DOMAIN t : w[Len(s) + k] = t[k]
  BY ConcatElements
<1> HIDE DEF w
<1>2. CASE i <= Len(s)
  BY <1>1, <1>2 DEF w
<1>3. CASE i > Len(s)
  <2>1. i - Len(s) \in DOMAIN t /\ Len(s) + (i - Len(s)) = i
    BY <1>1, <1>3
  <2>2. w[Len(s) + (i - Len(s))] = t[i - Len(s)]
    BY <1>1, <2>1
  <2> QED
    BY <1>3, <2>1, <2>2 DEF w
<1> QED
  BY <1>1, <1>2, <1>3

(* The two parts of a group, and two sequences of different groups.        *)
LEMMA LayoutPair ==
  ASSUME NEW s \in Seq(PartSet), NEW t \in Seq(PartSet), NEW g \in 1..3,
         NEW a \in Int, NEW b \in Int, NEW d \in Int,
         Within(s, a, b), Within(t, b, d), Layout(s, g, g), Layout(t, g, g),
         Len(s) <= 1, Len(t) <= 1
  PROVE  Layout(s \o t, g, g)
<1> DEFINE w == s \o t
<1>1. /\ w \in Seq(PartSet) /\ DOMAIN w = 1..(Len(s) + Len(t))
      /\ Len(s) \in {0, 1} /\ Len(t) \in {0, 1}
      /\ DOMAIN s = 1..Len(s) /\ DOMAIN t = 1..Len(t)
      /\ \A i \in DOMAIN s : w[i] = s[i]
      /\ \A i \in DOMAIN t : w[Len(s) + i] = t[i]
  <2>1. Len(s) \in {0, 1} /\ Len(t) \in {0, 1}
    <3>1. Len(s) \in Nat /\ Len(t) \in Nat
      BY ConcatElements
    <3>2. \A n \in Nat : n <= 1 => n \in {0, 1}
      OBVIOUS
    <3> QED
      BY <3>1, <3>2
  <2> QED
    BY <2>1, ConcatElements
<1> HIDE DEF w
<1>2. ASSUME NEW i \in DOMAIN w, NEW j \in DOMAIN w, i < j
      PROVE  End(w[i]) <= w[j].first
  <2>1. i = 1 /\ j = 2 /\ Len(s) = 1 /\ Len(t) = 1
    <3>1. i \in 1..2 /\ j \in 1..2 /\ j <= Len(s) + Len(t)
      BY <1>1
    <3> QED
      BY <1>1, <1>2, <3>1
  <2>2. 1 \in DOMAIN s /\ 1 \in DOMAIN t /\ w[1] = s[1] /\ w[2] = t[1]
    BY <1>1, <2>1
  <2>3. End(w[1]) <= b /\ b <= w[2].first
    BY <2>2 DEF Within
  <2>4. w[1] \in PartSet /\ w[2] \in PartSet
    BY <2>2
  <2>5. End(w[1]) \in Nat /\ w[2].first \in Nat
    BY <2>4, PartTypes
  <2> QED
    BY <2>1, <2>3, <2>5
<1>3. ASSUME NEW i \in DOMAIN w PROVE w[i].group = g
  <2>1. w[i] \in PartSet
    BY <1>1
  <2>2. \/ i \in DOMAIN s /\ w[i] = s[i]
        \/ i - Len(s) \in DOMAIN t /\ w[i] = t[i - Len(s)]
    BY ConcatCases DEF w
  <2>3. g <= w[i].group /\ w[i].group <= g
    BY <2>2 DEF Layout
  <2> QED
    BY <2>1, <2>3 DEF PartSet
<1>4. \A i, j \in DOMAIN w : j # i + 2
  BY <1>1
<1> QED
  BY <1>2, <1>3, <1>4 DEF Layout, w

LEMMA LayoutConcat ==
  ASSUME NEW s \in Seq(PartSet), NEW t \in Seq(PartSet),
         NEW a \in Int, NEW b \in Int, NEW d \in Int,
         Within(s, a, b), Within(t, b, d),
         NEW k \in 1..3, NEW l \in 1..3, NEW m \in 1..3, NEW n \in 1..3,
         Layout(s, k, l), Layout(t, m, n), k <= l, l < m, m <= n
  PROVE  Layout(s \o t, k, n)
<1> DEFINE w == s \o t
<1>1. /\ w \in Seq(PartSet) /\ DOMAIN w = 1..(Len(s) + Len(t))
      /\ Len(s) \in Nat /\ Len(t) \in Nat
      /\ DOMAIN s = 1..Len(s) /\ DOMAIN t = 1..Len(t)
      /\ \A i \in DOMAIN s : w[i] = s[i]
      /\ \A i \in DOMAIN t : w[Len(s) + i] = t[i]
  BY ConcatElements
<1> HIDE DEF w
<1>2. ASSUME NEW i \in DOMAIN w
      PROVE  \/ i \in DOMAIN s /\ w[i] = s[i]
             \/ i - Len(s) \in DOMAIN t /\ w[i] = t[i - Len(s)] /\ i > Len(s)
  BY ConcatCases DEF w
<1>3. ASSUME NEW i \in DOMAIN w
      PROVE  /\ End(w[i]) \in Nat /\ w[i].first \in Nat /\ w[i].group \in 1..3
             /\ i \in DOMAIN s => /\ End(w[i]) <= b
                                  /\ k <= w[i].group /\ w[i].group <= l
             /\ i \notin DOMAIN s => /\ b <= w[i].first
                                     /\ m <= w[i].group /\ w[i].group <= n
  <2>1. w[i] \in PartSet
    BY <1>1
  <2>2. End(w[i]) \in Nat /\ w[i].first \in Nat /\ w[i].group \in 1..3
    BY <2>1, PartTypes DEF PartSet
  <2>3. i \in DOMAIN s => End(w[i]) <= b /\ k <= w[i].group /\ w[i].group <= l
    BY <1>1 DEF Within, Layout
  <2>4. ASSUME i \notin DOMAIN s
        PROVE  b <= w[i].first /\ m <= w[i].group /\ w[i].group <= n
    <3>1. i - Len(s) \in DOMAIN t /\ w[i] = t[i - Len(s)]
      BY <1>2, <2>4
    <3> QED
      BY <3>1 DEF Within, Layout
  <2> QED
    BY <2>2, <2>3, <2>4
<1>4. ASSUME NEW i \in DOMAIN w, NEW j \in DOMAIN w, i < j
      PROVE  End(w[i]) <= w[j].first
  <2>1. CASE j \in DOMAIN s
    <3>1. i \in DOMAIN s
      BY <1>1, <1>4, <2>1
    <3> QED
      BY <1>1, <1>4, <2>1, <3>1 DEF Layout
  <2>2. CASE i \in DOMAIN s /\ j \notin DOMAIN s
    BY <1>3, <2>2
  <2>3. CASE i \notin DOMAIN s
    <3>1. j \notin DOMAIN s
      BY <1>1, <1>4, <2>3
    <3>2. /\ i - Len(s) \in DOMAIN t /\ w[i] = t[i - Len(s)]
          /\ j - Len(s) \in DOMAIN t /\ w[j] = t[j - Len(s)]
          /\ i - Len(s) < j - Len(s)
      BY <1>1, <1>2, <1>4, <2>3, <3>1
    <3> QED
      BY <3>2 DEF Layout
  <2> QED
    BY <2>1, <2>2, <2>3
<1>5. ASSUME NEW i \in DOMAIN w, NEW j \in DOMAIN w, j = i + 2
      PROVE  w[i].group # w[j].group
  <2>1. CASE j \in DOMAIN s
    <3>1. i \in DOMAIN s
      BY <1>1, <1>5, <2>1
    <3> QED
      BY <1>1, <1>5, <2>1, <3>1 DEF Layout
  <2>2. CASE i \in DOMAIN s /\ j \notin DOMAIN s
    <3>1. /\ w[i].group <= l /\ m <= w[j].group
          /\ w[i].group \in 1..3 /\ w[j].group \in 1..3
      BY <1>3, <2>2
    <3> QED
      BY <3>1
  <2>3. CASE i \notin DOMAIN s
    <3>1. j \notin DOMAIN s
      BY <1>1, <1>5, <2>3
    <3>2. /\ i - Len(s) \in DOMAIN t /\ w[i] = t[i - Len(s)]
          /\ j - Len(s) \in DOMAIN t /\ w[j] = t[j - Len(s)]
          /\ j - Len(s) = (i - Len(s)) + 2
      BY <1>1, <1>2, <1>5, <2>3, <3>1
    <3> QED
      BY <3>2 DEF Layout
  <2> QED
    BY <2>1, <2>2, <2>3
<1>6. ASSUME NEW i \in DOMAIN w PROVE k <= w[i].group /\ w[i].group <= n
  BY <1>3
<1> QED
  BY <1>4, <1>5, <1>6 DEF Layout, w

(* The bounds may be given more generously. *)
LEMMA WithinMore ==
  ASSUME NEW s \in Seq(PartSet), NEW a \in Int, NEW b \in Int, NEW d \in Int,
         Within(s, a, b), b <= d
  PROVE  Within(s, a, d)
<1>1. ASSUME NEW i \in DOMAIN s PROVE End(s[i]) <= d
  <2>1. s[i] \in PartSet
    OBVIOUS
  <2>2. End(s[i]) \in Nat /\ End(s[i]) <= b
    BY <2>1, PartTypes DEF Within
  <2> QED
    BY <2>2
<1> QED
  BY <1>1 DEF Within

(* The elements over a whole number of words, and the words.               *)
LEMMA WordsOfElements ==
  ASSUME NEW u \in Nat, NEW r \in Nat, u >= 1, r >= 1, WORD = u * r, NEW count \in Nat
  PROVE  /\ (count * u) \div WORD = count \div r
         /\ count * u = WORD * (count \div r) + (count % r) * u
         /\ count \div r \in Nat /\ count % r \in Nat
<1> DEFINE k == count \div r
           m == count % r
<1>1. k \in Nat /\ m \in Nat /\ m < r /\ count = r * k + m
  BY DivisionWithRest
<1> HIDE DEF k, m
<1>2. count * u = (r * k) * u + m * u
  BY <1>1
<1>3. (r * k) * u = WORD * k
  BY <1>1
<1>4. m * u \in Nat /\ count * u \in Nat
  BY <1>1, Products
<1>5. m * u < WORD
  <2>1. m + 1 <= r
    BY <1>1
  <2>2. (m + 1) * u <= r * u
    BY <1>1, <2>1
  <2>3. (m + 1) * u = m * u + u
    BY <1>1
  <2> QED
    BY <1>4, <2>2, <2>3, WordAssumption
<1>6. (count * u) \div WORD = k
  BY <1>1, <1>2, <1>3, <1>4, <1>5, WordAssumption, DivisionUnique
<1> QED
  BY <1>1, <1>2, <1>3, <1>6 DEF k, m

(* The elements forgotten are left over by the whole words, and one of     *)
(* those that are left over is drawn.                                      *)
LEMMA ForgottenRest ==
  ASSUME NEW fn, NEW count \in Nat
  PROVE  /\ Forgotten(fn, count) \in Nat
         /\ fn # "uint16_array" => Forgotten(fn, count) = 0
         /\ fn = "uint16_array" =>
              \/ count % 4 = 0 /\ Forgotten(fn, count) = 0
              \/ count % 4 > 0 /\ Forgotten(fn, count) = (count % 4) - 1
<1>1. count % 4 \in Nat
  BY DivisionWithRest
<1> QED
  BY <1>1 DEF Forgotten

(* An array function's two parts lie in its array, and follow each other   *)
(* up to the elements that are forgotten.                                  *)
LEMMA ArrayPartsShape ==
  ASSUME NEW fn \in Arrays, NEW first \in Nat, NEW count \in Nat, NEW group \in 1..3
  PROVE  /\ ArrayParts(fn, first, count, group) \in Seq(PartSet)
         /\ Within(ArrayParts(fn, first, count, group), first, first + count * Unit(fn))
         /\ Chain(ArrayParts(fn, first, count, group), first,
                  first + (count * Unit(fn) - Forgotten(fn, count) * Unit(fn)))
         /\ Layout(ArrayParts(fn, first, count, group), group, group)
<1> DEFINE odd   == OddBytes(fn, count)
           words == (count * Unit(fn)) \div WORD
           s     == Part(first, 1, odd, group)
           t     == Part(first + odd, words, WORD, group)
<1>1. ArrayParts(fn, first, count, group) = s \o t
  BY DEF ArrayParts
<1>2. PICK u \in Nat, r \in Nat : /\ u >= 1 /\ r >= 1 /\ WORD = u * r
                                  /\ Unit(fn) = u /\ WORD \div Unit(fn) = r /\ u <= WORD
  BY Units DEF FunctionNames
<1>3. /\ words = count \div r /\ words \in Nat
      /\ count * u = WORD * words + (count % r) * u
      /\ count % r \in Nat /\ count % r < r
  <2>1. words = (count * u) \div WORD
    BY <1>2
  <2>2. /\ (count * u) \div WORD = count \div r
        /\ count * u = WORD * (count \div r) + (count % r) * u
        /\ count \div r \in Nat /\ count % r \in Nat
    <3>1. u >= 1 /\ r >= 1 /\ WORD = u * r
      BY <1>2
    <3> HIDE DEF odd, words, s, t
    <3> QED
      BY <3>1, WordsOfElements
  <2>3. count % r < r
    BY <1>2, DivisionWithRest
  <2> HIDE DEF words
  <2> QED
    BY <2>1, <2>2, <2>3
<1>4. fn = "uint8_array" => u = 1 /\ r = WORD
  BY <1>2, WordAssumption DEF Unit
<1>5. fn = "uint16_array" => r = 4
  <2> SUFFICES ASSUME fn = "uint16_array" PROVE r = 4
    OBVIOUS
  <2>1. u = WORD \div 4
    BY <1>2 DEF Unit
  <2>2. WORD = u * 4
    BY <2>1, WordAssumption, WordOfUnits
  <2> QED
    BY <1>2, <2>2, UnitRatio
<1>6. fn = "uint32_array" => r = 2
  <2> SUFFICES ASSUME fn = "uint32_array" PROVE r = 2
    OBVIOUS
  <2>1. u = WORD \div 2
    BY <1>2 DEF Unit
  <2>2. WORD = u * 2
    BY <2>1, WordAssumption, WordOfUnits
  <2> QED
    BY <1>2, <2>2, UnitRatio
<1>7. fn = "uint64_array" => r = 1
  <2> SUFFICES ASSUME fn = "uint64_array" PROVE r = 1
    OBVIOUS
  <2>1. u = WORD /\ WORD = u * 1
    BY <1>2, WordAssumption DEF Unit
  <2> QED
    BY <1>2, <2>1, UnitRatio
<1>8. /\ odd \in 0..WORD /\ odd <= (count % r) * u
      /\ odd = (count % r) * u - Forgotten(fn, count) * u
  <2> DEFINE f == Forgotten(fn, count)
  <2>4. /\ f \in Nat
        /\ fn # "uint16_array" => f = 0
        /\ fn = "uint16_array" => (count % r = 0 /\ f = 0) \/ (count % r > 0 /\ f = (count % r) - 1)
    BY <1>5, ForgottenRest
  <2>5. f = 0 => f * u = 0
    BY <1>2
  <2> HIDE DEF f
  <2>1. CASE fn = "uint8_array"
    <3>1. odd = count % WORD /\ (count % r) * u = count % WORD
      BY <1>3, <1>4, <2>1 DEF OddBytes
    <3>2. f * u = 0
      BY <2>1, <2>4, <2>5
    <3> QED
      BY <1>3, <1>4, <2>1, <3>1, <3>2, WordAssumption DEF f
  <2>2. CASE fn # "uint8_array" /\ count % r > 0
    <3>1. odd = u
      BY <1>2, <2>2 DEF OddBytes, OddBytesOfOneUnit
    <3>2. u <= (count % r) * u
      BY <1>2, <1>3, <2>2, Products
    <3>3. f = (count % r) - 1
      BY <1>3, <1>6, <1>7, <2>2, <2>4 DEF Arrays
    <3>4. (count % r) * u = f * u + u
      <4>1. count % r = f + 1
        BY <1>3, <3>3
      <4>2. (f + 1) * u = f * u + u
        BY <1>2, <2>4
      <4> QED
        BY <4>1, <4>2
    <3>5. f * u \in Nat /\ u \in Nat
      BY <1>2, <2>4, Products
    <3> QED
      BY <1>2, <3>1, <3>2, <3>4, <3>5, WordAssumption DEF f
  <2>3. CASE fn # "uint8_array" /\ count % r = 0
    <3>1. odd = 0
      BY <1>2, <2>3 DEF OddBytes, OddBytesOfOneUnit
    <3>2. (count % r) * u = 0
      BY <1>2, <2>3
    <3>3. f * u = 0
      <4>1. fn = "uint16_array" => f = 0
        BY <2>3, <2>4
      <4> QED
        BY <2>4, <2>5, <4>1
    <3> QED
      BY <3>1, <3>2, <3>3, WordAssumption DEF f
  <2> QED
    BY <1>3, <2>1, <2>2, <2>3
<1> HIDE DEF odd, words
<1>9. /\ s \in Seq(PartSet) /\ Within(s, first, first + 1 * odd)
      /\ Chain(s, first, first + 1 * odd)
      /\ Layout(s, group, group) /\ Len(s) <= 1
  <2>1. 1 \in Nat
    OBVIOUS
  <2> QED
    BY <1>8, <2>1, PartShape
<1>10. /\ first + odd \in Nat
       /\ t \in Seq(PartSet) /\ Within(t, first + odd, first + odd + words * WORD)
       /\ Chain(t, first + odd, first + odd + words * WORD)
       /\ Layout(t, group, group) /\ Len(t) <= 1
  <2>1. first + odd \in Nat /\ WORD \in 0..WORD
    BY <1>8, WordAssumption
  <2> QED
    BY <1>3, <2>1, PartShape
<1>11. 1 * odd = odd /\ words * WORD = WORD * words /\ words * WORD \in Nat
       /\ (count % r) * u \in Nat /\ odd \in Nat /\ count * u \in Nat
  BY <1>2, <1>3, <1>8, WordAssumption, Products
<1>12. Within(s \o t, first, first + count * u) /\ s \o t \in Seq(PartSet)
  <2>1. first + odd + words * WORD <= first + count * u
    BY <1>3, <1>8, <1>11
  <2>2. Within(t, first + odd, first + count * u)
    <3> HIDE DEF t
    <3> QED
      BY <1>10, <1>11, <2>1, WithinMore
  <2>3. first + odd <= first + count * u /\ first <= first + odd
    BY <1>11, <2>1
  <2>4. Within(s, first, first + odd)
    BY <1>9, <1>11
  <2> HIDE DEF s, t
  <2> QED
    BY <1>9, <1>10, <1>11, <2>2, <2>3, <2>4, WithinConcat
<1>13. Chain(s \o t, first, first + (count * u - Forgotten(fn, count) * u))
  <2>1. first + odd + words * WORD = first + (count * u - Forgotten(fn, count) * u)
    <3>1. Forgotten(fn, count) * u \in Nat
      BY <1>2, ForgottenRest, Products
    <3> QED
      BY <1>3, <1>8, <1>11, <3>1
  <2>2. /\ Chain(s, first, first + odd)
        /\ Chain(t, first + odd, first + (count * u - Forgotten(fn, count) * u))
    BY <1>9, <1>10, <1>11, <2>1
  <2> HIDE DEF s, t
  <2> QED
    BY <1>9, <1>10, <2>2, ChainConcat
<1>14. Layout(s \o t, group, group)
  <2>1. /\ first \in Int /\ first + odd \in Int /\ first + odd + words * WORD \in Int
        /\ Within(s, first, first + odd)
    BY <1>9, <1>11
  <2> HIDE DEF s, t
  <2> QED
    BY <1>9, <1>10, <2>1, LayoutPair
<1> QED
  BY <1>1, <1>2, <1>12, <1>13, <1>14

(* The parts of rdrand_get_uint8_array_retry() forget nothing.             *)
LEMMA ByteArrayShape ==
  ASSUME NEW first \in Nat, NEW count \in Nat, NEW group \in 1..3
  PROVE  /\ ArrayParts("uint8_array", first, count, group) \in Seq(PartSet)
         /\ Within(ArrayParts("uint8_array", first, count, group), first, first + count)
         /\ Chain(ArrayParts("uint8_array", first, count, group), first, first + count)
         /\ Layout(ArrayParts("uint8_array", first, count, group), group, group)
<1>1. "uint8_array" \in Arrays /\ Unit("uint8_array") = 1
  BY DEF Arrays, Unit
<1>2. Forgotten("uint8_array", count) = 0
  BY DEF Forgotten
<1>3. count * 1 = count /\ count * 1 - 0 * 1 = count
  OBVIOUS
<1> QED
  BY <1>1, <1>2, <1>3, ArrayPartsShape

(* rdrand_get_bytes_retry(): the words start behind the odd bytes.         *)
LEMMA StartOfWords ==
  ASSUME NEW first \in Nat, NEW size \in Nat
  PROVE  /\ Offset(first, size) \in Nat /\ Offset(first, size) <= size
         /\ AlignedStart(first, size) = first + Offset(first, size)
<1>1. CASE size < WORD
  BY <1>1 DEF Offset, AlignedStart
<1>2. CASE size >= WORD
  <2>1. first % WORD \in Nat /\ first % WORD < WORD
    BY DivisionWithRest, WordAssumption
  <2>2. /\ Offset(first, size) = WORD - (first % WORD)
        /\ AlignedStart(first, size) = (first - (first % WORD)) + WORD
    BY <1>2, WordAssumption DEF Offset, AlignedStart
  <2> QED
    BY <1>2, <2>1, <2>2, WordAssumption
<1> QED
  BY <1>1, <1>2, WordAssumption

(* rdrand_get_bytes_retry(): the odd bytes up to an aligned address, the   *)
(* words from there, and the rest are one stretch of memory, and all of it *)
(* unless the aligned bytes are more than an unsigned int counts.          *)
LEMMA GetBytesShape ==
  ASSUME NEW first \in Nat, NEW size \in Nat
  PROVE  /\ GetBytesParts(first, size) \in Seq(PartSet)
         /\ Within(GetBytesParts(first, size), first, first + size)
         /\ size < UINT_RANGE => Chain(GetBytesParts(first, size), first, first + size)
         /\ Layout(GetBytesParts(first, size), 1, 3)
<1> DEFINE offset == Offset(first, size)
           middle == AlignedStart(first, size)
           bytes  == AlignedBytes(first, size)
           words  == bytes \div WORD
           rest   == bytes % WORD
           tail   == middle + WORD * words
           s == ArrayParts("uint8_array", first, offset, 1)
           t == Part(middle, words, WORD, 2)
           v == ArrayParts("uint8_array", tail, rest, 3)
<1>1. GetBytesParts(first, size) = (s \o t) \o v
  BY DEF GetBytesParts
<1>2. /\ offset \in Nat /\ offset <= size /\ middle = first + offset
  BY StartOfWords
<1>3. /\ bytes \in Nat /\ bytes <= size - offset
      /\ size < UINT_RANGE => bytes = size - offset
  <2>1. bytes = (size - offset) % UINT_RANGE
    BY DEF AlignedBytes
  <2>2. size - offset \in Nat
    BY <1>2
  <2> HIDE DEF bytes, offset
  <2>3. bytes \in Nat /\ bytes <= size - offset
    BY <2>1, <2>2, UintAssumption
  <2>4. size < UINT_RANGE => bytes = size - offset
    BY <1>2, <2>1, <2>2, UintAssumption
  <2> QED
    BY <2>3, <2>4
<1> HIDE DEF offset, middle, bytes
<1>4. /\ words \in Nat /\ rest \in Nat /\ bytes = WORD * words + rest
      /\ WORD * words \in Nat /\ words * WORD = WORD * words
  BY <1>3, DivisionWithRest, Products, WordAssumption
<1> HIDE DEF words, rest
<1>5. /\ middle \in Nat /\ tail \in Nat /\ tail + rest = middle + bytes
      /\ tail + rest <= first + size
      /\ size < UINT_RANGE => tail + rest = first + size
  BY <1>2, <1>3, <1>4
<1>6. /\ s \in Seq(PartSet) /\ Within(s, first, middle) /\ Chain(s, first, middle)
      /\ Layout(s, 1, 1)
  <2>1. 1 \in 1..3
    OBVIOUS
  <2> QED
    BY <1>2, <2>1, ByteArrayShape
<1>7. /\ t \in Seq(PartSet) /\ Within(t, middle, tail) /\ Chain(t, middle, tail)
      /\ Layout(t, 2, 2)
  <2>1. WORD \in 0..WORD /\ 2 \in 1..3
    BY WordAssumption
  <2> QED
    BY <1>4, <1>5, <2>1, PartShape
<1>8. /\ v \in Seq(PartSet) /\ Within(v, tail, tail + rest) /\ Chain(v, tail, tail + rest)
      /\ Layout(v, 3, 3)
  <2>1. 3 \in 1..3
    OBVIOUS
  <2> HIDE DEF tail
  <2> QED
    BY <1>4, <1>5, <2>1, ByteArrayShape
<1>9. tail = middle + WORD * words
  OBVIOUS
<1> HIDE DEF s, t, v, tail
<1>10. /\ s \o t \in Seq(PartSet) /\ Within(s \o t, first, tail) /\ Chain(s \o t, first, tail)
       /\ Layout(s \o t, 1, 2)
  <2>1. middle <= tail
    BY <1>4, <1>5, <1>9
  <2>2. first \in Int /\ middle \in Int /\ tail \in Int /\ first <= middle
    BY <1>2, <1>5
  <2>3. /\ s \in Seq(PartSet) /\ t \in Seq(PartSet)
        /\ Within(s, first, middle) /\ Within(t, middle, tail)
    BY <1>6, <1>7
  <2>4. s \o t \in Seq(PartSet) /\ Within(s \o t, first, tail)
    BY <2>1, <2>2, <2>3, WithinConcat
  <2>5. Layout(s \o t, 1, 2)
    <3>1. 1 \in 1..3 /\ 2 \in 1..3 /\ 1 <= 1 /\ 1 < 2 /\ 2 <= 2
      OBVIOUS
    <3> QED
      BY <1>6, <1>7, <2>2, <2>3, <3>1, LayoutConcat
  <2> QED
    BY <1>6, <1>7, <2>4, <2>5, ChainConcat
<1>11. /\ (s \o t) \o v \in Seq(PartSet)
       /\ Within((s \o t) \o v, first, tail + rest)
       /\ Chain((s \o t) \o v, first, tail + rest)
       /\ Layout((s \o t) \o v, 1, 3)
  <2>1. first <= tail /\ tail <= tail + rest
    BY <1>2, <1>4, <1>5, <1>9
  <2>2. first \in Int /\ tail \in Int /\ tail + rest \in Int
    BY <1>4, <1>5
  <2>3. /\ s \o t \in Seq(PartSet) /\ v \in Seq(PartSet)
        /\ Within(s \o t, first, tail) /\ Within(v, tail, tail + rest)
    BY <1>8, <1>10
  <2>4. (s \o t) \o v \in Seq(PartSet) /\ Within((s \o t) \o v, first, tail + rest)
    BY <2>1, <2>2, <2>3, WithinConcat
  <2>5. Layout((s \o t) \o v, 1, 3)
    <3>1. 1 \in 1..3 /\ 2 \in 1..3 /\ 3 \in 1..3 /\ 1 <= 2 /\ 2 < 3 /\ 3 <= 3
      OBVIOUS
    <3> QED
      BY <1>8, <1>10, <2>2, <2>3, <3>1, LayoutConcat
  <2> QED
    BY <1>8, <1>10, <2>4, <2>5, ChainConcat
<1>12. Within((s \o t) \o v, first, first + size)
  <2>1. first \in Int /\ tail + rest \in Int /\ first + size \in Int
    BY <1>4, <1>5
  <2> QED
    BY <1>5, <1>11, <2>1, WithinMore
<1> QED
  BY <1>1, <1>5, <1>11, <1>12

(* rdrand_fwrite(): the whole words of the file, and the rest.             *)
LEMMA FwriteShape ==
  ASSUME NEW count \in Nat
  PROVE  LET s == Part(0, count \div WORD, WORD, 1)
             t == Part(WORD * (count \div WORD), 1, count % WORD, 1)
         IN  /\ s \o t \in Seq(PartSet) /\ Within(s \o t, 0, count) /\ Chain(s \o t, 0, count)
             /\ Layout(s \o t, 1, 1)
<1> DEFINE k == count \div WORD
           m == count % WORD
           s == Part(0, k, WORD, 1)
           t == Part(WORD * k, 1, m, 1)
<1>1. /\ k \in Nat /\ m \in Nat /\ m < WORD /\ count = WORD * k + m
      /\ WORD * k \in Nat /\ k * WORD = WORD * k
  BY DivisionWithRest, Products, WordAssumption
<1> HIDE DEF k, m
<1>2. /\ s \in Seq(PartSet) /\ Within(s, 0, WORD * k) /\ Chain(s, 0, WORD * k)
      /\ Layout(s, 1, 1) /\ Len(s) <= 1
  <2>1. 0 \in Nat /\ WORD \in 0..WORD /\ 1 \in 1..3 /\ 0 + k * WORD = WORD * k
    BY <1>1, WordAssumption
  <2>2. /\ s \in Seq(PartSet) /\ Within(s, 0, 0 + k * WORD) /\ Chain(s, 0, 0 + k * WORD)
        /\ Layout(s, 1, 1) /\ Len(s) <= 1
    BY <1>1, <2>1, PartShape
  <2> QED
    BY <2>1, <2>2
<1>3. /\ t \in Seq(PartSet) /\ Within(t, WORD * k, count) /\ Chain(t, WORD * k, count)
      /\ Layout(t, 1, 1) /\ Len(t) <= 1
  <2>1. 1 \in Nat /\ m \in 0..WORD /\ 1 \in 1..3 /\ WORD * k + 1 * m = count
    BY <1>1, WordAssumption
  <2>2. /\ t \in Seq(PartSet) /\ Within(t, WORD * k, WORD * k + 1 * m)
        /\ Chain(t, WORD * k, WORD * k + 1 * m)
        /\ Layout(t, 1, 1) /\ Len(t) <= 1
    BY <1>1, <2>1, PartShape
  <2> QED
    BY <2>1, <2>2
<1> HIDE DEF s, t
<1>4. s \o t \in Seq(PartSet) /\ Within(s \o t, 0, count)
  <2>1. 0 <= WORD * k /\ WORD * k <= count
    BY <1>1
  <2> QED
    BY <1>1, <1>2, <1>3, <2>1, WithinConcat
<1>5. Chain(s \o t, 0, count)
  BY <1>2, <1>3, ChainConcat
<1>6. Layout(s \o t, 1, 1)
  <2>1. 0 \in Int /\ WORD * k \in Int /\ count \in Int /\ 1 \in 1..3
    BY <1>1
  <2> QED
    BY <1>2, <1>3, <2>1, LayoutPair
<1> QED
  BY <1>4, <1>5, <1>6 DEF s, t, k, m

(* A call whose parts reach all they can: see FillsWhenHealthy.            *)
Covered(c) == c.fn = "get_bytes" => c.count < UINT_RANGE

LEMMA AllReached ==
  ASSUME NEW c \in Calls
  PROVE  Reached(c) \in Int /\ (c.fn # "uint16_array" => Reached(c) = Asked(c))
<1>1. c.fn \in FunctionNames /\ c.count \in Nat
  BY CallsAssumption
<1>2. Unit(c.fn) \in Nat
  BY <1>1, Units
<1>3. Asked(c) \in Nat
  BY <1>1, <1>2, Products DEF Asked
<1>4. Forgotten(c.fn, c.count) \in Nat /\ (c.fn # "uint16_array" => Forgotten(c.fn, c.count) = 0)
  BY <1>1, ForgottenRest
<1>5. Forgotten(c.fn, c.count) * Unit(c.fn) \in Nat
  BY <1>2, <1>4, Products
<1>6. Forgotten(c.fn, c.count) = 0 => Forgotten(c.fn, c.count) * Unit(c.fn) = 0
  BY <1>2
<1> QED
  BY <1>3, <1>4, <1>5, <1>6 DEF Reached

(* The parts of every call are inside the request, and reach its end but   *)
(* for the elements that are forgotten.                                    *)
LEMMA PartsShape ==
  ASSUME NEW c \in Calls
  PROVE  /\ Parts(c) \in Seq(PartSet)
         /\ Within(Parts(c), c.first, c.first + Asked(c))
         /\ Covered(c) => Chain(Parts(c), c.first, c.first + Reached(c))
         /\ \E g \in 1..3 : Layout(Parts(c), 1, g)
<1>1. /\ c.fn \in FunctionNames /\ c.first \in Nat /\ c.count \in Nat
      /\ c.fn \in Singles => c.count = 1
      /\ c.fn = "fwrite" => c.first = 0
  BY CallsAssumption
<1>2. Unit(c.fn) \in Nat /\ Unit(c.fn) \in 0..WORD
  BY <1>1, Units, WordAssumption
<1>8. c.fn # "uint16_array" => Reached(c) = Asked(c)
  BY AllReached
<1>3. CASE c.fn \in Singles
  <2>1. Asked(c) = 1 * Unit(c.fn) /\ 1 \in Nat /\ 1 \in 1..3
    BY <1>1, <1>3 DEF Asked
  <2>2. Parts(c) = Part(c.first, 1, Unit(c.fn), 1)
    BY <1>3 DEF Parts, Arrays, Singles, Reseeds
  <2> QED
    BY <1>1, <1>2, <1>3, <1>8, <2>1, <2>2, PartShape DEF Singles
<1>4. CASE c.fn \in Arrays
  <2>1. Parts(c) = ArrayParts(c.fn, c.first, c.count, 1)
    BY <1>4 DEF Parts, Arrays, Singles, Reseeds
  <2>2. /\ Asked(c) = c.count * Unit(c.fn) /\ 1 \in 1..3
        /\ Reached(c) = c.count * Unit(c.fn) - Forgotten(c.fn, c.count) * Unit(c.fn)
    BY DEF Asked, Reached
  <2> QED
    BY <1>1, <1>4, <2>1, <2>2, ArrayPartsShape
<1>5. CASE c.fn \in Reseeds
  <2>1. Parts(c) = Part(c.first, c.count, WORD, 1)
    BY <1>5 DEF Parts, Arrays, Singles, Reseeds
  <2>2. Asked(c) = c.count * WORD /\ 1 \in 1..3 /\ WORD \in 0..WORD
    BY <1>5, WordAssumption DEF Asked, Unit, Reseeds
  <2> QED
    BY <1>1, <1>5, <1>8, <2>1, <2>2, PartShape DEF Reseeds
<1>6. CASE c.fn = "get_bytes"
  <2>1. Parts(c) = GetBytesParts(c.first, c.count)
    BY <1>6 DEF Parts, Arrays, Singles, Reseeds
  <2>2. Asked(c) = c.count
    BY <1>1, <1>6 DEF Asked, Unit
  <2>3. Layout(Parts(c), 1, 3)
    <3>1. Layout(GetBytesParts(c.first, c.count), 1, 3)
      BY <1>1, GetBytesShape
    <3> QED
      BY <2>1, <3>1
  <2>4. \E g \in 1..3 : Layout(Parts(c), 1, g)
    BY <2>3
  <2> QED
    BY <1>1, <1>6, <1>8, <2>1, <2>2, <2>4, GetBytesShape DEF Covered
<1>7. CASE c.fn = "fwrite"
  <2>1. Parts(c) = Part(0, c.count \div WORD, WORD, 1) \o
                   Part(WORD * (c.count \div WORD), 1, c.count % WORD, 1)
    BY <1>7 DEF Parts, Arrays, Singles, Reseeds
  <2>2. Asked(c) = c.count /\ c.first = 0 /\ 0 + c.count = c.count
    BY <1>1, <1>7 DEF Asked, Unit
  <2>3. /\ Parts(c) \in Seq(PartSet) /\ Within(Parts(c), 0, c.count)
        /\ Chain(Parts(c), 0, c.count) /\ Layout(Parts(c), 1, 1)
    BY <1>1, <2>1, FwriteShape
  <2>4. \E g \in 1..3 : Layout(Parts(c), 1, g)
    BY <2>3
  <2> QED
    BY <1>1, <1>7, <1>8, <2>2, <2>3, <2>4
<1> QED
  BY <1>1, <1>3, <1>4, <1>5, <1>6, <1>7 DEF FunctionNames

-----------------------------------------------------------------------------
(* Types.                                                                  *)

LEMMA LimitType == ASSUME call \in Calls PROVE Limit \in Nat
BY CallsAssumption, LimitsAssumption DEF Limit

(* What is left after the first part. *)
LEMMA TailShape ==
  ASSUME NEW s \in Seq(PartSet), s # << >>, NEW a \in Int, NEW b \in Int, Within(s, a, b)
  PROVE  Tail(s) \in Seq(PartSet) /\ Within(Tail(s), a, b)
<1>1. /\ Tail(s) \in Seq(PartSet)
      /\ \A i \in DOMAIN Tail(s) : Tail(s)[i] = s[i + 1] /\ i + 1 \in DOMAIN s
  OBVIOUS
<1> QED
  BY <1>1 DEF Within

LEMMA TailChain ==
  ASSUME NEW s \in Seq(PartSet), s # << >>, NEW a, NEW b, Chain(s, a, b)
  PROVE  Chain(Tail(s), End(s[1]), b)
<1> DEFINE t == Tail(s)
<1>1. /\ Len(s) \in Nat /\ Len(s) >= 1 /\ t \in Seq(PartSet) /\ Len(t) = Len(s) - 1
      /\ \A i \in 1..Len(t) : t[i] = s[i + 1]
      /\ t = << >> <=> Len(t) = 0
  <2>1. Len(s) \in Nat /\ Len(s) >= 1 /\ t \in Seq(PartSet) /\ Len(t) = Len(s) - 1
    OBVIOUS
  <2>2. \A i \in 1..Len(t) : t[i] = s[i + 1]
    OBVIOUS
  <2> HIDE DEF t
  <2>3. t = << >> <=> Len(t) = 0
    BY <2>1
  <2> QED
    BY <2>1, <2>2, <2>3
<1> HIDE DEF t
<1>2. CASE t = << >>
  <2>1. Len(s) = 1
    BY <1>1, <1>2
  <2> QED
    BY <1>2, <2>1 DEF Chain, t
<1>3. CASE t # << >>
  <2>1. Len(t) >= 1 /\ 1 \in 1..(Len(s) - 1) /\ t[1] = s[2]
    BY <1>1, <1>3
  <2>2. t[1].first = End(s[1])
    BY <2>1 DEF Chain
  <2>3. t[Len(t)] = s[Len(s)]
    BY <1>1, <2>1
  <2>4. ASSUME NEW i \in 1..(Len(t) - 1) PROVE t[i + 1].first = End(t[i])
    <3>1. i + 1 \in 1..(Len(s) - 1) /\ t[i] = s[i + 1] /\ t[i + 1] = s[i + 1 + 1]
      BY <1>1
    <3> QED
      BY <3>1 DEF Chain
  <2> QED
    BY <1>3, <2>2, <2>3, <2>4 DEF Chain, t
<1> QED
  BY <1>2, <1>3

(* A draw stays in its part, and the last one ends it. *)
LEMMA DrawBounds ==
  ASSUME NEW p \in PartSet, NEW d \in 0..(p.draws - 1)
  PROVE  /\ p.size * d \in Nat
         /\ p.size * (d + 1) = p.size * d + p.size
         /\ p.first + p.size * d + p.size <= End(p)
         /\ d + 1 = p.draws => p.first + p.size * d + p.size = End(p)
<1>1. /\ p.first \in Nat /\ p.draws \in Nat /\ p.size \in Nat
      /\ d \in Nat /\ d + 1 <= p.draws
  BY PartTypes
<1>2. p.size * d \in Nat /\ p.size * p.draws = p.draws * p.size /\ p.draws * p.size \in Nat
  BY <1>1, Products
<1>3. p.size * (d + 1) = p.size * d + p.size
  BY <1>1
<1>4. p.size * (d + 1) <= p.size * p.draws
  BY <1>1
<1> QED
  BY <1>1, <1>2, <1>3, <1>4 DEF End

(* The parts that are left, and where the next draw of the first one goes. *)
PartsInv ==
  /\ call \in Calls
  /\ parts \in Seq(PartSet)
  /\ parts # << >> => done \in 0..(Head(parts).draws - 1)
  /\ Within(parts, call.first, call.first + Asked(call))

LEMMA RequestTypes ==
  ASSUME call \in Calls
  PROVE  call.first \in Nat /\ call.count \in Nat /\ Asked(call) \in Nat
         /\ call.first + Asked(call) \in Nat
<1>1. call.fn \in FunctionNames /\ call.first \in Nat /\ call.count \in Nat
  BY CallsAssumption
<1>2. Unit(call.fn) \in Nat
  BY <1>1, Units
<1>3. Asked(call) \in Nat
  BY <1>1, <1>2, Products DEF Asked
<1> QED
  BY <1>1, <1>3

LEMMA CurrentPart ==
  ASSUME PartsInv, parts # << >>
  PROVE  /\ Head(parts) = parts[1] /\ Head(parts) \in PartSet
         /\ call.first <= Head(parts).first
         /\ End(Head(parts)) <= call.first + Asked(call)
<1>1. Head(parts) = parts[1] /\ Head(parts) \in PartSet /\ 1 \in DOMAIN parts
  BY DEF PartsInv
<1> QED
  BY <1>1 DEF PartsInv, Within

(* Storing a value, and what follows for the parts.                        *)
LEMMA PutKeepsParts ==
  ASSUME PartsInv, parts # << >>, NEW value, Put(value), UNCHANGED call
  PROVE  PartsInv'
<1> DEFINE part == Head(parts)
<1>1. \/ parts' = Tail(parts) /\ done' = 0
      \/ done' = done + 1 /\ done + 1 # part.draws /\ parts' = parts
  BY DEF Put
<1>2. part \in PartSet /\ part.draws \in Nat /\ part.draws >= 1
  BY CurrentPart, PartTypes
<1>3. call.first \in Int /\ call.first + Asked(call) \in Int
  BY RequestTypes DEF PartsInv
<1>4. CASE parts' = Tail(parts) /\ done' = 0
  <2>1. Tail(parts) \in Seq(PartSet)
        /\ Within(Tail(parts), call.first, call.first + Asked(call))
    BY <1>3, TailShape DEF PartsInv
  <2>2. parts' # << >> => Head(parts') \in PartSet
    BY <1>4, <2>1
  <2>3. parts' # << >> => done' \in 0..(Head(parts').draws - 1)
    <3> SUFFICES ASSUME parts' # << >> PROVE done' \in 0..(Head(parts').draws - 1)
      OBVIOUS
    <3>1. Head(parts').draws \in Nat /\ Head(parts').draws >= 1
      BY <2>2, PartTypes
    <3> QED
      BY <1>4, <3>1
  <2> QED
    BY <1>4, <2>1, <2>3 DEF PartsInv, Asked
<1>5. CASE done' = done + 1 /\ done + 1 # part.draws /\ parts' = parts
  <2>1. done' \in 0..(Head(parts').draws - 1)
    BY <1>2, <1>5 DEF PartsInv
  <2> QED
    BY <1>5, <2>1 DEF PartsInv, Asked
<1> QED
  BY <1>1, <1>4, <1>5

(* Giving up a function, and what follows for the parts.                   *)
LEMMA GiveUpKeepsParts ==
  ASSUME PartsInv, parts # << >>, parts' = NextGroup, done' = 0, UNCHANGED call
  PROVE  PartsInv'
<1>1. call.first \in Int /\ call.first + Asked(call) \in Int
  BY RequestTypes DEF PartsInv
<1>2. Tail(parts) \in Seq(PartSet)
      /\ Within(Tail(parts), call.first, call.first + Asked(call))
  BY <1>1, TailShape DEF PartsInv
<1>3. parts' \in Seq(PartSet)
      /\ Within(parts', call.first, call.first + Asked(call))
  <2>1. CASE parts' = Tail(parts)
    BY <1>2, <2>1
  <2>2. CASE Len(parts) > 1 /\ parts' = Tail(Tail(parts))
    <3>1. Tail(parts) # << >>
      BY <2>2 DEF PartsInv
    <3> QED
      BY <1>1, <1>2, <2>2, <3>1, TailShape
  <2> QED
    BY <2>1, <2>2 DEF NextGroup
<1>4. parts' # << >> => done' \in 0..(Head(parts').draws - 1)
  <2> SUFFICES ASSUME parts' # << >> PROVE done' \in 0..(Head(parts').draws - 1)
    OBVIOUS
  <2>1. Head(parts') \in PartSet
    BY <1>3
  <2>2. Head(parts').draws \in Nat /\ Head(parts').draws >= 1
    BY <2>1, PartTypes
  <2> QED
    BY <2>2
<1> QED
  BY <1>3, <1>4 DEF PartsInv, Asked

(* What the loops count. *)
CountInv ==
  /\ build \in Builds
  /\ tries \in 0..(IF Limit = 0 THEN 0 ELSE Limit - 1)
  /\ thrown \in 0..RESEED_STEPS
  /\ underflow \in Nat
  /\ generated \in Nat
  /\ result \in Nat \union {RDRAND_FAILURE, Running}

(* Which draws the memory comes from. *)
MemoryInv ==
  /\ drawn \in Nat
  /\ tmprand \in 0..drawn
  /\ \A a \in DOMAIN mem : a \in Nat /\ mem[a] \in 0..drawn
  /\ DOMAIN mem \subseteq Span(call.first, Asked(call))

(* Storing a value sets the bytes of one draw, inside the request. *)
LEMMA PutStores ==
  ASSUME PartsInv, parts # << >>, NEW value, Put(value)
  PROVE  \E where \in SUBSET Span(call.first, Asked(call)) :
           /\ IsFiniteSet(where) /\ Cardinality(where) <= WORD
           /\ DOMAIN mem' = where \union DOMAIN mem
           /\ \A a \in DOMAIN mem' : mem'[a] = IF a \in where THEN value ELSE mem[a]
<1> DEFINE part  == Head(parts)
           start == part.first + part.size * done
           where == Span(start, part.size)
<1>1. part \in PartSet /\ done \in 0..(part.draws - 1)
      /\ call.first <= part.first /\ End(part) <= call.first + Asked(call)
  BY CurrentPart DEF PartsInv
<1>2. /\ part.first \in Nat /\ part.size \in Nat /\ part.size >= 1 /\ part.size <= WORD
      /\ End(part) \in Nat
  BY <1>1, PartTypes
<1>3. part.size * done \in Nat /\ start + part.size <= End(part)
  BY <1>1, DrawBounds
<1>4. call.first \in Nat /\ Asked(call) \in Nat
  BY RequestTypes DEF PartsInv
<1>5. start \in Nat /\ call.first <= start /\ start + part.size <= call.first + Asked(call)
  BY <1>1, <1>2, <1>3, <1>4
<1>6. mem' = [a \in where \union DOMAIN mem |-> IF a \in where THEN value ELSE mem[a]]
  BY DEF Put
<1> HIDE DEF part, start
<1>7. where \in SUBSET Span(call.first, Asked(call))
  BY <1>2, <1>4, <1>5 DEF Span
<1>8. IsFiniteSet(where) /\ Cardinality(where) = part.size
  <2>1. start \in Int /\ start + part.size - 1 \in Int /\ ~(start > start + part.size - 1)
    BY <1>2, <1>5
  <2>2. /\ IsFiniteSet(start..(start + part.size - 1))
        /\ Cardinality(start..(start + part.size - 1)) = (start + part.size - 1) - start + 1
    BY <2>1, FS_Interval
  <2> QED
    BY <1>2, <1>5, <2>2 DEF Span
<1> HIDE DEF where
<1> QED
  BY <1>2, <1>6, <1>7, <1>8

BaseInv == PartsInv /\ CountInv /\ MemoryInv

LEMMA PutKeepsMemory ==
  ASSUME PartsInv, MemoryInv, parts # << >>, drawn' \in Nat, drawn <= drawn',
         tmprand' \in 0..drawn', NEW value \in 0..drawn', Put(value), UNCHANGED call
  PROVE  MemoryInv'
<1>1. PICK where \in SUBSET Span(call.first, Asked(call)) :
        /\ DOMAIN mem' = where \union DOMAIN mem
        /\ \A a \in DOMAIN mem' : mem'[a] = IF a \in where THEN value ELSE mem[a]
  BY PutStores
<1>2. call.first \in Nat /\ Asked(call) \in Nat
  BY RequestTypes DEF PartsInv
<1>3. \A a \in where : a \in Nat
  BY <1>2 DEF Span
<1>4. DOMAIN mem' \subseteq Span(call.first, Asked(call))
  BY <1>1 DEF MemoryInv
<1>5. ASSUME NEW a \in DOMAIN mem' PROVE a \in Nat /\ mem'[a] \in 0..drawn'
  <2>1. CASE a \in where
    BY <1>1, <1>3, <2>1
  <2>2. CASE a \notin where
    <3>1. a \in DOMAIN mem /\ mem'[a] = mem[a]
      BY <1>1, <2>2
    <3>2. a \in Nat /\ mem[a] \in 0..drawn /\ drawn \in Nat
      BY <3>1 DEF MemoryInv
    <3> QED
      BY <3>1, <3>2
  <2> QED
    BY <2>1, <2>2
<1> QED
  BY <1>4, <1>5 DEF MemoryInv, Asked

LEMMA PutCounts ==
  ASSUME PartsInv, CountInv, parts # << >>, NEW value, Put(value)
  PROVE  /\ generated' = generated + Head(parts).size /\ generated' \in Nat
         /\ tries' = 0 /\ thrown' = 0
<1>1. Head(parts).size \in Nat
  BY CurrentPart, PartTypes
<1> QED
  BY <1>1 DEF Put, CountInv

LEMMA DeliverKeeps ==
  ASSUME BaseInv, Deliver
  PROVE  BaseInv'
<1>1. /\ parts # << >> /\ Put(drawn + 1) /\ drawn' = drawn + 1
      /\ UNCHANGED <<call, build, result, underflow>>
      /\ PartsInv /\ CountInv /\ MemoryInv
  BY DEF Deliver, Drawing, BaseInv
<1>2. drawn' \in Nat /\ drawn <= drawn' /\ drawn + 1 \in 0..drawn'
  BY <1>1 DEF MemoryInv
<1>3. tmprand' \in 0..drawn'
  <2>1. tmprand' \in {tmprand, drawn + 1}
    BY DEF Deliver
  <2> QED
    BY <1>1, <1>2, <2>1 DEF MemoryInv
<1>4. PartsInv'
  BY <1>1, PutKeepsParts
<1>5. MemoryInv'
  BY <1>1, <1>2, <1>3, PutKeepsMemory
<1>6. CountInv'
  <2>1. generated' \in Nat /\ tries' = 0 /\ thrown' = 0
    BY <1>1, PutCounts
  <2>2. Limit' = Limit /\ Limit \in Nat
    BY <1>1, LimitType DEF Limit, PartsInv
  <2> QED
    BY <1>1, <2>1, <2>2, LimitsAssumption DEF CountInv
<1> QED
  BY <1>4, <1>5, <1>6 DEF BaseInv

LEMMA GiveUpKeeps ==
  ASSUME BaseInv, FailAndGiveUp
  PROVE  BaseInv'
<1>1. /\ parts # << >> /\ underflow' = tries + 1
      /\ UNCHANGED <<call, build, tmprand, drawn, result>>
      /\ PartsInv /\ CountInv /\ MemoryInv
  BY DEF FailAndGiveUp, Drawing, BaseInv
<1>2. Limit' = Limit /\ Limit \in Nat
  BY <1>1, LimitType DEF Limit, PartsInv
<1>3. underflow' \in Nat
  BY <1>1, <1>2 DEF CountInv
<1>4. CASE Detects(call.fn)
  <2>1. /\ parts' = NextGroup /\ done' = 0 /\ tries' = 0 /\ thrown' = 0
        /\ UNCHANGED <<mem, generated>>
    BY <1>4 DEF FailAndGiveUp
  <2>2. PartsInv'
    BY <1>1, <2>1, GiveUpKeepsParts
  <2>3. CountInv'
    BY <1>1, <1>2, <1>3, <2>1, LimitsAssumption DEF CountInv
  <2>4. MemoryInv'
    BY <1>1, <2>1 DEF MemoryInv, Asked
  <2> QED
    BY <2>2, <2>3, <2>4 DEF BaseInv
<1>5. CASE ~Detects(call.fn)
  <2>1. Put(tmprand)
    BY <1>5 DEF FailAndGiveUp
  <2>2. PartsInv'
    BY <1>1, <2>1, PutKeepsParts
  <2>3. CountInv'
    <3>1. generated' \in Nat /\ tries' = 0 /\ thrown' = 0
      BY <1>1, <2>1, PutCounts
    <3> QED
      BY <1>1, <1>2, <1>3, <3>1, LimitsAssumption DEF CountInv
  <2>4. MemoryInv'
    <3>1. drawn' \in Nat /\ drawn <= drawn' /\ tmprand' \in 0..drawn' /\ tmprand \in 0..drawn'
      BY <1>1 DEF MemoryInv
    <3> QED
      BY <1>1, <2>1, <3>1, PutKeepsMemory
  <2> QED
    BY <2>2, <2>3, <2>4 DEF BaseInv
<1> QED
  BY <1>4, <1>5

LEMMA OthersKeep ==
  ASSUME BaseInv, ThrowAway \/ FailAndRetry \/ Return \/ UNCHANGED vars
  PROVE  BaseInv'
<1>1. /\ UNCHANGED <<call, build, parts, done, tmprand, mem, drawn, generated, underflow>>
      /\ PartsInv /\ CountInv /\ MemoryInv
  BY DEF ThrowAway, FailAndRetry, Return, vars, BaseInv
<1>2. PartsInv'
  BY <1>1 DEF PartsInv, Asked
<1>3. MemoryInv'
  BY <1>1 DEF MemoryInv, Asked
<1>4. Limit' = Limit /\ Limit \in Nat
  BY <1>1, LimitType DEF Limit, PartsInv
<1>5. tries' \in 0..(IF Limit = 0 THEN 0 ELSE Limit - 1)
  <2>1. CASE FailAndRetry
    <3>1. tries' = tries + 1 /\ tries + 1 < Limit
      BY <2>1 DEF FailAndRetry, Loops
    <3> QED
      BY <1>1, <1>4, <3>1 DEF CountInv
  <2>2. CASE tries' = tries
    BY <1>1, <2>2 DEF CountInv
  <2> QED
    BY <2>1, <2>2 DEF ThrowAway, Return, vars
<1>6. thrown' \in 0..RESEED_STEPS
  <2>1. CASE ThrowAway
    <3>1. thrown' = thrown + 1 /\ thrown < Discards
      BY <2>1 DEF ThrowAway
    <3>2. Discards \in {0, RESEED_STEPS}
      BY DEF Discards
    <3> QED
      BY <1>1, <3>1, <3>2, LimitsAssumption DEF CountInv
  <2>2. CASE thrown' = thrown
    BY <1>1, <2>2 DEF CountInv
  <2> QED
    BY <2>1, <2>2 DEF FailAndRetry, Return, vars
<1>7. result' \in Nat \union {RDRAND_FAILURE, Running}
  <2>1. CASE Return
    <3>1. result' \in {generated \div Unit(call.fn), RDRAND_SUCCESS, RDRAND_FAILURE}
      BY <2>1 DEF Return
    <3>2. call.fn \in FunctionNames
      BY <1>1, CallsAssumption DEF PartsInv
    <3>3. generated \div Unit(call.fn) \in Nat
      BY <1>1, <3>2, Units, DivisionWithRest DEF CountInv
    <3> QED
      BY <3>1, <3>3 DEF RDRAND_SUCCESS
  <2>2. CASE result' = result
    BY <1>1, <2>2 DEF CountInv
  <2> QED
    BY <2>1, <2>2 DEF FailAndRetry, ThrowAway, vars
<1>8. CountInv'
  BY <1>1, <1>4, <1>5, <1>6, <1>7 DEF CountInv
<1> QED
  BY <1>2, <1>3, <1>8 DEF BaseInv

LEMMA BaseInvariant == Spec => []BaseInv
<1>1. Init => BaseInv
  <2> SUFFICES ASSUME Init PROVE BaseInv
    OBVIOUS
  <2>1. /\ call \in Calls /\ build \in Builds /\ parts = Parts(call) /\ done = 0
        /\ tries = 0 /\ thrown = 0 /\ tmprand = 0 /\ mem = << >>
        /\ drawn = 0 /\ generated = 0 /\ result = Running /\ underflow = 0
    BY DEF Init
  <2>2. parts \in Seq(PartSet) /\ Within(parts, call.first, call.first + Asked(call))
    BY <2>1, PartsShape
  <2>3. parts # << >> => done \in 0..(Head(parts).draws - 1)
    <3> SUFFICES ASSUME parts # << >> PROVE done \in 0..(Head(parts).draws - 1)
      OBVIOUS
    <3>1. Head(parts) \in PartSet
      BY <2>2
    <3>2. Head(parts).draws \in Nat /\ Head(parts).draws >= 1
      BY <3>1, PartTypes
    <3> QED
      BY <2>1, <3>2
  <2>4. PartsInv
    BY <2>1, <2>2, <2>3 DEF PartsInv
  <2>5. Limit \in Nat
    BY <2>1, LimitType
  <2>6. CountInv
    BY <2>1, <2>5, LimitsAssumption DEF CountInv
  <2>7. DOMAIN mem = {}
    BY <2>1
  <2>8. MemoryInv
    BY <2>1, <2>7 DEF MemoryInv
  <2> QED
    BY <2>4, <2>6, <2>8 DEF BaseInv
<1>2. BaseInv /\ [Next]_vars => BaseInv'
  BY DeliverKeeps, GiveUpKeeps, OthersKeep DEF Next, Returned
<1> QED
  BY <1>1, <1>2, PTL DEF Spec

(* The counters of a call keep their types, the loops their bounds.        *)
THEOREM CallTyped == Spec => []TypeOK
<1>1. BaseInv => TypeOK
  BY DEF BaseInv, PartsInv, CountInv, MemoryInv, TypeOK, PartSet
<1> QED
  BY <1>1, BaseInvariant, PTL

(* However the buffer is aligned and whichever draws fail, no byte outside *)
(* the request is set.                                                     *)
THEOREM StaysWithinRequest == Spec => []WithinRequest
<1>1. BaseInv => WithinRequest
  BY DEF BaseInv, MemoryInv, WithinRequest
<1> QED
  BY <1>1, BaseInvariant, PTL

-----------------------------------------------------------------------------
(* The retry limit.                                                        *)

(* In the assembler build a draw is given up only after retry_limit steps: *)
(* the loops count up to the limit, and leave off nowhere before it, but   *)
(* for rdrand_get_uint16_retry().                                          *)
THEOREM LimitReached == Spec => []GivesUpAfterLimit
<1>1. Init => GivesUpAfterLimit
  BY DEF Init, GivesUpAfterLimit
<1>2. BaseInv /\ GivesUpAfterLimit /\ [Next]_vars => GivesUpAfterLimit'
  <2> SUFFICES ASSUME BaseInv, GivesUpAfterLimit, [Next]_vars
               PROVE  GivesUpAfterLimit'
    OBVIOUS
  <2>1. CASE FailAndGiveUp
    <3>1. /\ underflow' = tries + 1 /\ ~Loops(FailedStep)
          /\ UNCHANGED <<call, build>>
      BY <2>1 DEF FailAndGiveUp
    <3>2. Limit \in Nat /\ tries \in 0..(IF Limit = 0 THEN 0 ELSE Limit - 1)
      BY LimitType DEF BaseInv, PartsInv, CountInv
    <3>3. ASSUME build = "asm", call.fn # "uint16" PROVE ~(tries + 1 < Limit)
      BY <3>1, <3>3 DEF Loops, Retries, FailedStep
    <3>4. ASSUME build = "asm", call.fn # "uint16"
          PROVE  tries + 1 = IF Limit = 0 THEN 1 ELSE Limit
      BY <3>2, <3>3, <3>4
    <3>5. Limit' = Limit
      BY <3>1 DEF Limit
    <3> QED
      BY <3>1, <3>4, <3>5 DEF GivesUpAfterLimit
  <2>2. CASE UNCHANGED <<call, build, underflow>>
    BY <2>2 DEF GivesUpAfterLimit, Limit
  <2> QED
    BY <2>1, <2>2 DEF Next, ThrowAway, FailAndRetry, Deliver, Return, Returned, vars
<1> QED
  BY <1>1, <1>2, BaseInvariant, PTL DEF Spec

-----------------------------------------------------------------------------
(* The values.                                                             *)

(* The values in memory are of draws, and each fills one draw's bytes. *)
EachOnce ==
  /\ \A a \in DOMAIN mem : mem[a] # 0
  /\ \A v \in 1..drawn : Cardinality({a \in DOMAIN mem : mem[a] = v}) <= WORD

LEMMA DeliverOnce ==
  ASSUME BaseInv, BaseInv', EachOnce, Deliver
  PROVE  EachOnce'
<1>1. /\ parts # << >> /\ Put(drawn + 1) /\ drawn' = drawn + 1 /\ UNCHANGED call
      /\ PartsInv /\ MemoryInv
  BY DEF Deliver, Drawing, BaseInv
<1>2. PICK where \in SUBSET Span(call.first, Asked(call)) :
        /\ IsFiniteSet(where) /\ Cardinality(where) <= WORD
        /\ DOMAIN mem' = where \union DOMAIN mem
        /\ \A a \in DOMAIN mem' : mem'[a] = IF a \in where THEN drawn + 1 ELSE mem[a]
  BY <1>1, PutStores
<1>3. drawn \in Nat /\ \A a \in DOMAIN mem : mem[a] \in 0..drawn
  BY <1>1 DEF MemoryInv
<1>4. ASSUME NEW a \in DOMAIN mem' PROVE mem'[a] # 0
  <2>1. CASE a \in where
    BY <1>2, <1>3, <2>1
  <2>2. CASE a \notin where
    <3>1. a \in DOMAIN mem /\ mem'[a] = mem[a]
      BY <1>2, <2>2
    <3> QED
      BY <3>1 DEF EachOnce
  <2> QED
    BY <2>1, <2>2
<1>5. ASSUME NEW v \in 1..drawn'
      PROVE  Cardinality({a \in DOMAIN mem' : mem'[a] = v}) <= WORD
  <2> DEFINE new == {a \in DOMAIN mem' : mem'[a] = v}
             old == {a \in DOMAIN mem : mem[a] = v}
  <2>1. CASE v = drawn + 1
    <3>1. ASSUME NEW a \in new PROVE a \in where
      <4>1. a \in DOMAIN mem' /\ mem'[a] = drawn + 1
        BY <2>1
      <4>2. CASE a \notin where
        <5>1. a \in DOMAIN mem /\ mem'[a] = mem[a]
          BY <1>2, <4>1, <4>2
        <5> QED
          BY <1>3, <4>1, <5>1
      <4> QED
        BY <4>2
    <3>2. new \subseteq where
      BY <3>1
    <3> HIDE DEF new
    <3>3. IsFiniteSet(new) /\ Cardinality(new) <= Cardinality(where)
          /\ Cardinality(new) \in Nat /\ Cardinality(where) \in Nat
      BY <1>2, <3>2, FS_Subset, FS_CardinalityType
    <3> QED
      BY <1>2, <3>3, WordAssumption DEF new
  <2>2. CASE v # drawn + 1
    <3>1. v \in 1..drawn
      BY <1>1, <1>3, <2>2
    <3>2. ASSUME NEW a \in new PROVE a \in old
      BY <1>2, <2>2
    <3>3. IsFiniteSet(old)
      <4>1. call.first \in Nat /\ Asked(call) \in Nat
        BY <1>1, RequestTypes DEF PartsInv
      <4>2. IsFiniteSet(Span(call.first, Asked(call)))
        <5>1. call.first \in Int /\ call.first + Asked(call) - 1 \in Int
          BY <4>1
        <5>2. IsFiniteSet(call.first..(call.first + Asked(call) - 1))
          BY <5>1, FS_Interval
        <5> QED
          BY <5>2 DEF Span
      <4>3. old \subseteq Span(call.first, Asked(call))
        BY <1>1 DEF MemoryInv
      <4> HIDE DEF old
      <4> QED
        BY <4>2, <4>3, FS_Subset
    <3>4. Cardinality(old) <= WORD
      BY <3>1 DEF EachOnce
    <3>5. new \subseteq old
      BY <3>2
    <3> HIDE DEF new, old
    <3>6. IsFiniteSet(new) /\ Cardinality(new) <= Cardinality(old)
          /\ Cardinality(new) \in Nat /\ Cardinality(old) \in Nat
      BY <3>3, <3>5, FS_Subset, FS_CardinalityType
    <3> QED
      BY <3>4, <3>6, WordAssumption DEF new
  <2> QED
    BY <2>1, <2>2
<1> QED
  BY <1>4, <1>5 DEF EachOnce

(* Every value handed out was drawn, and none is handed out twice: each    *)
(* draw has a number of its own, and its value goes to the bytes of one    *)
(* draw; only the undetected failure of rdrand_fwrite() repeats one.       *)
THEOREM ValuesAreFresh == Spec => []NoValueTwice
<1>1. Init => NoValueTwice
  <2> SUFFICES ASSUME Init PROVE NoValueTwice
    OBVIOUS
  <2>1. DOMAIN mem = {} /\ drawn = 0
    BY DEF Init
  <2> QED
    BY <2>1 DEF NoValueTwice
<1>2. BaseInv /\ BaseInv' /\ NoValueTwice /\ [Next]_vars => NoValueTwice'
  <2> SUFFICES ASSUME BaseInv, BaseInv', NoValueTwice, [Next]_vars,
                      (call.fn = "fwrite" => underflow = 0)'
               PROVE  EachOnce'
    BY DEF NoValueTwice, EachOnce
  <2>1. CASE Deliver
    <3>1. call.fn = "fwrite" => underflow = 0
      BY <2>1 DEF Deliver
    <3> QED
      BY <2>1, <3>1, DeliverOnce DEF NoValueTwice, EachOnce
  <2>2. CASE FailAndGiveUp
    <3>1. underflow' = tries + 1 /\ tries \in Nat /\ UNCHANGED <<call, drawn>>
      <4>1. Limit \in Nat /\ tries \in 0..(IF Limit = 0 THEN 0 ELSE Limit - 1)
        BY LimitType DEF BaseInv, PartsInv, CountInv
      <4> QED
        BY <2>2, <4>1 DEF FailAndGiveUp
    <3>2. call.fn # "fwrite"
      BY <3>1
    <3>3. UNCHANGED mem
      BY <2>2, <3>2 DEF FailAndGiveUp, Detects
    <3> QED
      BY <3>1, <3>2, <3>3 DEF NoValueTwice, EachOnce
  <2>3. CASE UNCHANGED <<call, mem, drawn, underflow>>
    BY <2>3 DEF NoValueTwice, EachOnce
  <2> QED
    BY <2>1, <2>2, <2>3 DEF Next, ThrowAway, FailAndRetry, Return, Returned, vars
<1> QED
  BY <1>1, <1>2, BaseInvariant, PTL DEF Spec

-----------------------------------------------------------------------------
(* A call none of whose draws failed.                                      *)

(* What is set is what was counted, from the start of the request, and the *)
(* next draw goes right behind it.                                         *)
Tiled ==
  /\ DOMAIN mem = Span(call.first, generated)
  /\ parts = << >> => generated = Reached(call)
  /\ parts # << >> =>
       /\ parts[1].first + parts[1].size * done = call.first + generated
       /\ Chain(parts, parts[1].first, call.first + Reached(call))

TileInv == ((underflow = 0 \/ call.fn = "fwrite") /\ Covered(call)) => Tiled

(* What a call returns for the bytes it has counted. *)
Reported ==
  IF call.fn \notin Singles THEN generated \div Unit(call.fn)
  ELSE IF generated > 0 THEN RDRAND_SUCCESS ELSE RDRAND_FAILURE

ReportInv == result # Running => parts = << >> /\ result = Reported

LEMMA InitTiles ==
  ASSUME Init, Covered(call)
  PROVE  Tiled
<1>1. /\ call \in Calls /\ parts = Parts(call) /\ done = 0 /\ DOMAIN mem = {}
      /\ generated = 0
  BY DEF Init
<1>2. call.first \in Nat /\ Reached(call) \in Int
  BY <1>1, RequestTypes, AllReached
<1>3. parts \in Seq(PartSet) /\ Chain(parts, call.first, call.first + Reached(call))
  BY <1>1, PartsShape
<1>4. DOMAIN mem = Span(call.first, generated)
  BY <1>1, <1>2 DEF Span
<1>5. parts = << >> => generated = Reached(call)
  BY <1>1, <1>2, <1>3 DEF Chain
<1>6. ASSUME parts # << >>
      PROVE  /\ parts[1].first + parts[1].size * done = call.first + generated
             /\ Chain(parts, parts[1].first, call.first + Reached(call))
  <2>1. parts[1].first = call.first
    BY <1>3, <1>6 DEF Chain
  <2>2. parts[1] \in PartSet
    BY <1>3, <1>6
  <2>3. parts[1].size \in Nat
    BY <2>2, PartTypes
  <2>4. parts[1].size * done = 0
    BY <1>1, <2>3
  <2> QED
    BY <1>1, <1>2, <1>3, <2>1, <2>4
<1> QED
  BY <1>4, <1>5, <1>6 DEF Tiled

(* A value that is stored extends what is set by one draw. *)
Stores(value) == parts # << >> /\ Put(value) /\ UNCHANGED call

LEMMA PutTiles ==
  ASSUME BaseInv, Tiled, NEW value, Stores(value)
  PROVE  Tiled'
<1> DEFINE part  == parts[1]
           start == call.first + generated
           stop  == call.first + Reached(call)
<1>1. /\ parts # << >> /\ Put(value) /\ call' = call
      /\ PartsInv /\ CountInv /\ parts \in Seq(PartSet)
  BY DEF BaseInv, PartsInv, Stores
<1>2. /\ Head(parts) = part /\ part \in PartSet /\ done \in 0..(part.draws - 1)
  BY <1>1, CurrentPart DEF PartsInv
<1>3. part.first + part.size * done = start /\ Chain(parts, part.first, stop)
  BY <1>1 DEF Tiled
<1>4. /\ part.size * done \in Nat
      /\ part.size * (done + 1) = part.size * done + part.size
      /\ done + 1 = part.draws => part.first + part.size * done + part.size = End(part)
  BY <1>2, DrawBounds
<1>5. /\ part.first \in Nat /\ part.size \in Nat /\ part.size >= 1
      /\ generated \in Nat /\ call.first \in Nat /\ done \in Nat
  BY <1>1, <1>2, PartTypes, RequestTypes DEF CountInv, PartsInv
<1>6. generated' = generated + part.size
  BY <1>1, <1>2, PutCounts
<1>7. DOMAIN mem' = Span(call.first, generated')
  <2>1. DOMAIN mem' = Span(start, part.size) \union DOMAIN mem
    <3>1. DOMAIN mem' = Span(part.first + part.size * done, part.size) \union DOMAIN mem
      BY <1>1, <1>2 DEF Put
    <3> QED
      BY <1>3, <3>1
  <2>2. Span(start, part.size) \union Span(call.first, generated)
        = Span(call.first, generated + part.size)
    BY <1>5 DEF Span
  <2> QED
    BY <1>6, <2>1, <2>2 DEF Tiled
<1>8. \/ done + 1 = part.draws /\ parts' = Tail(parts) /\ done' = 0
      \/ done + 1 # part.draws /\ parts' = parts /\ done' = done + 1
  BY <1>1, <1>2 DEF Put
<1>9. CASE done + 1 = part.draws /\ parts' = Tail(parts) /\ done' = 0
  <2>1. Chain(Tail(parts), End(part), stop)
    BY <1>1, <1>3, TailChain
  <2>2. End(part) = call.first + generated'
    BY <1>3, <1>4, <1>5, <1>6, <1>9
  <2>3. Tail(parts) \in Seq(PartSet)
    BY <1>1
  <2>4. parts' = << >> => generated' = Reached(call)
    <3>1. parts' = << >> => call.first + generated' = call.first + Reached(call)
      BY <1>9, <2>1, <2>2 DEF Chain
    <3>2. Reached(call) \in Int /\ generated' \in Nat
      BY <1>1, <1>5, <1>6, AllReached DEF PartsInv
    <3> QED
      BY <1>5, <3>1, <3>2
  <2>5. ASSUME parts' # << >>
        PROVE  /\ parts'[1].first + parts'[1].size * done' = call.first + generated'
               /\ Chain(parts', parts'[1].first, stop)
    <3>1. parts'[1].first = End(part)
      BY <1>9, <2>1, <2>5 DEF Chain
    <3>2. parts'[1] \in PartSet
      BY <1>9, <2>3, <2>5
    <3>3. parts'[1].first \in Nat /\ parts'[1].size \in Nat
      BY <3>2, PartTypes
    <3>4. parts'[1].size * done' = 0
      <4>1. done' = 0
        BY <1>9
      <4>2. \A n \in Nat : n * 0 = 0
        OBVIOUS
      <4> QED
        BY <3>3, <4>1, <4>2
    <3>5. Chain(parts', End(part), stop)
      BY <1>9, <2>1
    <3> QED
      BY <2>2, <3>1, <3>3, <3>4, <3>5
  <2> QED
    BY <1>1, <1>7, <2>4, <2>5 DEF Tiled, Reached, Asked
<1>10. CASE done + 1 # part.draws /\ parts' = parts /\ done' = done + 1
  <2>1. parts[1].first + parts[1].size * (done + 1) = call.first + generated'
    <3> DEFINE x == part.size * done
               y == part.size * (done + 1)
    <3>1. x \in Nat /\ y = x + part.size /\ part.first + x = call.first + generated
      BY <1>3, <1>4
    <3> HIDE DEF x, y
    <3>2. part.first + y = call.first + (generated + part.size)
      BY <1>5, <3>1
    <3> QED
      BY <1>6, <3>2 DEF y
  <2> QED
    BY <1>1, <1>3, <1>7, <1>10, <2>1 DEF Tiled, Reached, Asked
<1> QED
  BY <1>8, <1>9, <1>10

LEMMA TileInvariant == Spec => []TileInv
<1>1. Init => TileInv
  BY InitTiles DEF TileInv
<1>2. BaseInv /\ TileInv /\ [Next]_vars => TileInv'
  <2> SUFFICES ASSUME BaseInv, TileInv, [Next]_vars, Covered(call)',
                      (underflow = 0 \/ call.fn = "fwrite")'
               PROVE  Tiled'
    BY DEF TileInv
  <2>1. CASE Deliver
    <3>1. Tiled /\ Stores(drawn + 1)
      BY <2>1 DEF Deliver, Drawing, Covered, TileInv, Stores
    <3> QED
      BY <3>1, PutTiles
  <2>2. CASE FailAndGiveUp
    <3>1. underflow' = tries + 1 /\ tries \in Nat /\ UNCHANGED call
      <4>1. Limit \in Nat /\ tries \in 0..(IF Limit = 0 THEN 0 ELSE Limit - 1)
        BY LimitType DEF BaseInv, PartsInv, CountInv
      <4> QED
        BY <2>2, <4>1 DEF FailAndGiveUp
    <3>2. call.fn = "fwrite"
      BY <3>1
    <3>3. Tiled /\ Stores(tmprand)
      BY <2>2, <3>1, <3>2 DEF FailAndGiveUp, Drawing, Detects, Covered, TileInv, Stores
    <3> QED
      BY <3>3, PutTiles
  <2>3. CASE UNCHANGED <<call, parts, done, mem, generated, underflow>>
    BY <2>3 DEF TileInv, Tiled, Covered, Reached, Asked
  <2> QED
    BY <2>1, <2>2, <2>3 DEF Next, ThrowAway, FailAndRetry, Return, Returned, vars
<1> QED
  BY <1>1, <1>2, BaseInvariant, PTL DEF Spec

LEMMA ReportInvariant == Spec => []ReportInv
<1>1. Init => ReportInv
  BY DEF Init, ReportInv
<1>2. ReportInv /\ [Next]_vars => ReportInv'
  <2> SUFFICES ASSUME ReportInv, [Next]_vars PROVE ReportInv'
    OBVIOUS
  <2>1. CASE Return
    <3>1. parts' = << >> /\ result' = Reported /\ Reported' = Reported
      BY <2>1 DEF Return, Reported
    <3> QED
      BY <3>1 DEF ReportInv
  <2>2. CASE result = Running /\ result' = Running
    BY <2>2 DEF ReportInv
  <2>3. CASE UNCHANGED vars
    BY <2>3 DEF ReportInv, Reported, vars
  <2> QED
    BY <2>1, <2>2, <2>3
       DEF Next, ThrowAway, FailAndRetry, Deliver, FailAndGiveUp, Drawing, Returned
<1> QED
  BY <1>1, <1>2, PTL DEF Spec

(* A call none of whose draws failed has set, when it returns, what it was *)
(* asked for, but for the elements of 16 bits that are forgotten: the      *)
(* parts follow each other without a gap, and the draws within the parts.  *)
THEOREM HealthyCallsFill == Spec => []FillsWhenHealthy
<1>1. TileInv /\ ReportInv => FillsWhenHealthy
  <2> SUFFICES ASSUME TileInv, ReportInv, result # Running, underflow = 0, Covered(call)
               PROVE  DOMAIN mem = Span(call.first, Reached(call))
    BY DEF FillsWhenHealthy, Covered
  <2>1. Tiled /\ parts = << >>
    BY DEF TileInv, ReportInv
  <2> QED
    BY <2>1 DEF Tiled
<1> QED
  BY <1>1, TileInvariant, ReportInvariant, PTL

-----------------------------------------------------------------------------
(* The call that the callers see.                                          *)

(* The bytes of a part. *)
Area(p) == Span(p.first, p.draws * p.size)

(* The set x is what the parts s may leave behind: a number of draws of    *)
(* each part, and none of a part before which its group was given up.      *)
FilledBy(s, x) ==
  /\ \A a \in x : \E i \in DOMAIN s : a \in Area(s[i])
  /\ \A i \in DOMAIN s : \E k \in 0..s[i].draws :
       x \intersect Area(s[i]) = Span(s[i].first, s[i].size * k)
  /\ \A i, j \in DOMAIN s :
       (j = i + 1 /\ s[i].group = s[j].group /\ x \intersect Area(s[j]) # {})
       => Area(s[i]) \subseteq x

(* Of the parts of the call, the first n are done with or given up, and    *)
(* the others are still to do.                                             *)
At(n) ==
  /\ Len(parts) = Len(Parts(call)) - n
  /\ \A i \in DOMAIN parts : parts[i] = Parts(call)[n + i]
  /\ parts # << >> =>
       DOMAIN mem \intersect Area(parts[1]) = Span(parts[1].first, parts[1].size * done)
  /\ \A i \in DOMAIN Parts(call) :
       i > n + 1 => DOMAIN mem \intersect Area(Parts(call)[i]) = {}
  /\ \A i, j \in DOMAIN Parts(call) :
       (i = n /\ j = n + 1 /\ Parts(call)[i].group = Parts(call)[j].group)
       => Area(Parts(call)[i]) \subseteq DOMAIN mem

FillInv ==
  /\ FilledBy(Parts(call), DOMAIN mem)
  /\ \E n \in 0..Len(Parts(call)) : At(n)
  /\ generated = Cardinality(DOMAIN mem)

LEMMA AreaBytes ==
  ASSUME NEW p \in PartSet, NEW a
  PROVE  a \in Area(p) <=> a \in Nat /\ p.first <= a /\ a < End(p)
<1>1. p.first \in Nat /\ End(p) \in Nat /\ End(p) = p.first + p.draws * p.size
  BY PartTypes DEF End
<1>2. p.draws * p.size \in Nat
  BY PartTypes, Products
<1> DEFINE m == p.draws * p.size
<1> HIDE DEF m
<1>3. a \in Span(p.first, m) <=> a \in Nat /\ p.first <= a /\ a < p.first + m
  BY <1>1, <1>2 DEF Span, m
<1> QED
  BY <1>1, <1>3 DEF Area, m

LEMMA SpanBytes ==
  ASSUME NEW first \in Nat, NEW m \in Nat, NEW a
  PROVE  a \in Span(first, m) <=> a \in Nat /\ first <= a /\ a < first + m
BY DEF Span

LEMMA NoBytes ==
  ASSUME NEW p \in PartSet
  PROVE  Span(p.first, p.size * 0) = {}
<1>1. p.size * 0 = 0 /\ p.first \in Nat
  BY PartTypes
<1> QED
  BY <1>1 DEF Span

(* The parts of the call do not share a byte. *)
LEMMA AreasApart ==
  ASSUME NEW s \in Seq(PartSet), NEW k, NEW l, Layout(s, k, l),
         NEW i \in DOMAIN s, NEW j \in DOMAIN s, i # j
  PROVE  Area(s[i]) \intersect Area(s[j]) = {}
<1>1. s[i] \in PartSet /\ s[j] \in PartSet /\ i \in Nat /\ j \in Nat
  OBVIOUS
<1>2. \/ End(s[i]) <= s[j].first
      \/ End(s[j]) <= s[i].first
  BY <1>1 DEF Layout
<1>3. /\ End(s[i]) \in Nat /\ s[j].first \in Nat
      /\ End(s[j]) \in Nat /\ s[i].first \in Nat
  BY <1>1, PartTypes
<1>4. ASSUME NEW a \in Area(s[i]), a \in Area(s[j])
      PROVE  FALSE
  <2>1. a \in Nat /\ s[i].first <= a /\ a < End(s[i]) /\ s[j].first <= a /\ a < End(s[j])
    BY <1>1, <1>4, AreaBytes
  <2> QED
    BY <1>2, <1>3, <2>1
<1> QED
  BY <1>4

LEMMA NextSpan ==
  \A f, m, n \in Nat :
    /\ \A a \in Span(f + m, n) : a \in Nat /\ f <= a /\ a < f + m + n
    /\ Span(f + m, n) \intersect Span(f, m) = {}
    /\ Span(f + m, n) \union Span(f, m) = Span(f, m + n)
BY DEF Span

(* The bytes of a draw of a part, after d others. *)
Draw(p, d) == Span(p.first + p.size * d, p.size)

LEMMA DrawFacts ==
  ASSUME NEW p \in PartSet, NEW d \in 0..(p.draws - 1)
  PROVE  /\ Draw(p, d) \subseteq Area(p)
         /\ Draw(p, d) \intersect Span(p.first, p.size * d) = {}
         /\ Draw(p, d) \union Span(p.first, p.size * d) = Span(p.first, p.size * (d + 1))
<1> DEFINE f == p.first
           n == p.size
           m == n * d
           e == End(p)
           area == Area(p)
<1>1. f \in Nat /\ n \in Nat /\ e \in Nat
  BY PartTypes
<1>2. m \in Nat /\ f + m + n <= e /\ n * (d + 1) = m + n
  BY DrawBounds
<1>3. \A a : a \in area <=> a \in Nat /\ f <= a /\ a < e
  BY AreaBytes
<1> HIDE DEF m, f, n, e, area
<1>4. /\ \A a \in Span(f + m, n) : a \in Nat /\ f <= a /\ a < f + m + n
      /\ Span(f + m, n) \intersect Span(f, m) = {}
      /\ Span(f + m, n) \union Span(f, m) = Span(f, m + n)
  BY <1>1, <1>2, NextSpan
<1>5. Span(f + m, n) \subseteq area
  BY <1>1, <1>2, <1>3, <1>4
<1> QED
  BY <1>2, <1>4, <1>5 DEF Draw, f, m, n, area

(* One more draw of the part i, of which d were done. *)
LEMMA DrawMore ==
  ASSUME NEW s \in Seq(PartSet), NEW k, NEW l, Layout(s, k, l),
         NEW i \in DOMAIN s, NEW d \in 0..(s[i].draws - 1),
         NEW x, x \intersect Area(s[i]) = Span(s[i].first, s[i].size * d)
  PROVE  /\ Draw(s[i], d) \subseteq Area(s[i]) /\ Draw(s[i], d) \intersect x = {}
         /\ (Draw(s[i], d) \union x) \intersect Area(s[i])
            = Span(s[i].first, s[i].size * (d + 1))
         /\ \A j \in DOMAIN s :
              j # i => (Draw(s[i], d) \union x) \intersect Area(s[j]) = x \intersect Area(s[j])
<1> DEFINE w == Draw(s[i], d)
<1>1. s[i] \in PartSet
  OBVIOUS
<1>2. /\ w \subseteq Area(s[i])
      /\ w \intersect Span(s[i].first, s[i].size * d) = {}
      /\ w \union Span(s[i].first, s[i].size * d) = Span(s[i].first, s[i].size * (d + 1))
  BY <1>1, DrawFacts
<1> HIDE DEF w
<1>3. w \intersect x = {}
  BY <1>2
<1>4. (w \union x) \intersect Area(s[i]) = Span(s[i].first, s[i].size * (d + 1))
  BY <1>2
<1>5. ASSUME NEW j \in DOMAIN s, j # i
      PROVE  (w \union x) \intersect Area(s[j]) = x \intersect Area(s[j])
  <2>1. Area(s[i]) \intersect Area(s[j]) = {}
    BY <1>5, AreasApart
  <2> QED
    BY <1>2, <2>1
<1> QED
  BY <1>2, <1>3, <1>4, <1>5 DEF w

(* It fills what the parts may leave behind, if the part before it in its  *)
(* group is complete.                                                      *)
LEMMA FillMore ==
  ASSUME NEW s \in Seq(PartSet), NEW k, NEW l, Layout(s, k, l),
         NEW i \in DOMAIN s, NEW d \in 0..(s[i].draws - 1),
         NEW x, x \intersect Area(s[i]) = Span(s[i].first, s[i].size * d),
         FilledBy(s, x),
         \A j \in DOMAIN s : i = j + 1 /\ s[j].group = s[i].group => Area(s[j]) \subseteq x
  PROVE  FilledBy(s, Draw(s[i], d) \union x)
<1> DEFINE w == Draw(s[i], d)
           y == w \union x
<1>1. /\ w \subseteq Area(s[i])
      /\ y \intersect Area(s[i]) = Span(s[i].first, s[i].size * (d + 1))
      /\ \A j \in DOMAIN s : j # i => y \intersect Area(s[j]) = x \intersect Area(s[j])
      /\ x \subseteq y
  <2>1. /\ w \subseteq Area(s[i])
        /\ (w \union x) \intersect Area(s[i]) = Span(s[i].first, s[i].size * (d + 1))
        /\ \A j \in DOMAIN s :
             j # i => (w \union x) \intersect Area(s[j]) = x \intersect Area(s[j])
    <3>1. s \in Seq(PartSet) /\ i \in DOMAIN s /\ d \in 0..(s[i].draws - 1)
      OBVIOUS
    <3> QED
      BY <3>1, DrawMore
  <2> QED
    BY <2>1
<1> HIDE DEF w, y
<1>2. ASSUME NEW a \in y PROVE \E j \in DOMAIN s : a \in Area(s[j])
  BY <1>1 DEF FilledBy, y
<1>3. ASSUME NEW j \in DOMAIN s
      PROVE  \E c \in 0..s[j].draws :
               y \intersect Area(s[j]) = Span(s[j].first, s[j].size * c)
  <2>1. CASE j = i
    <3>1. s[i] \in PartSet
      OBVIOUS
    <3>2. d + 1 \in 0..s[j].draws
      BY <2>1, <3>1, PartTypes
    <3> QED
      BY <1>1, <2>1, <3>2
  <2>2. CASE j # i
    BY <1>1, <2>2 DEF FilledBy
  <2> QED
    BY <2>1, <2>2
<1>4. ASSUME NEW h \in DOMAIN s, NEW j \in DOMAIN s, j = h + 1, s[h].group = s[j].group,
             y \intersect Area(s[j]) # {}
      PROVE  Area(s[h]) \subseteq y
  <2>1. CASE j = i
    BY <1>1, <1>4, <2>1
  <2>2. CASE j # i
    <3>1. x \intersect Area(s[j]) # {}
      BY <1>1, <1>4, <2>2
    <3>2. Area(s[h]) \subseteq x
      BY <1>4, <3>1 DEF FilledBy
    <3> QED
      BY <1>1, <3>2
  <2> QED
    BY <2>1, <2>2
<1> QED
  BY <1>2, <1>3, <1>4 DEF FilledBy, y, w

LEMMA PartsLaidOut ==
  ASSUME call \in Calls
  PROVE  /\ Parts(call) \in Seq(PartSet) /\ Len(Parts(call)) \in Nat
         /\ DOMAIN Parts(call) = 1..Len(Parts(call))
         /\ \E g \in 1..3 : Layout(Parts(call), 1, g)
<1>1. Parts(call) \in Seq(PartSet) /\ \E g \in 1..3 : Layout(Parts(call), 1, g)
  BY PartsShape
<1> QED
  BY <1>1

(* Where the call is among its parts. *)
LEMMA AtFirst ==
  ASSUME BaseInv, parts # << >>, NEW n \in 0..Len(Parts(call)), At(n)
  PROVE  /\ n + 1 \in DOMAIN Parts(call) /\ parts[1] = Parts(call)[n + 1]
         /\ parts \in Seq(PartSet) /\ Len(parts) \in Nat /\ 1 \in DOMAIN parts
         /\ Len(parts) = Len(Parts(call)) - n
         /\ done \in 0..(parts[1].draws - 1)
<1>1. call \in Calls /\ parts \in Seq(PartSet) /\ done \in 0..(Head(parts).draws - 1)
  BY DEF BaseInv, PartsInv
<1>2. Len(parts) \in Nat /\ Len(parts) >= 1 /\ 1 \in DOMAIN parts /\ Head(parts) = parts[1]
  BY <1>1
<1>3. Len(parts) = Len(Parts(call)) - n /\ parts[1] = Parts(call)[n + 1]
  BY <1>2 DEF At
<1>4. Len(Parts(call)) \in Nat /\ DOMAIN Parts(call) = 1..Len(Parts(call))
  BY <1>1, PartsLaidOut
<1> QED
  BY <1>1, <1>2, <1>3, <1>4

LEMMA DrawSize ==
  ASSUME NEW p \in PartSet, NEW d \in 0..(p.draws - 1)
  PROVE  IsFiniteSet(Draw(p, d)) /\ Cardinality(Draw(p, d)) = p.size
<1> DEFINE a == p.first + p.size * d
           n == p.size
<1>1. a \in Nat /\ n \in Nat /\ n >= 1
  BY PartTypes, DrawBounds
<1> HIDE DEF a, n
<1>2. a \in Int /\ a + n - 1 \in Int /\ ~(a > a + n - 1)
  BY <1>1
<1>3. /\ IsFiniteSet(a..(a + n - 1))
      /\ Cardinality(a..(a + n - 1)) = (a + n - 1) - a + 1
  BY <1>2, FS_Interval
<1> QED
  BY <1>1, <1>3 DEF Draw, Span, a, n

LEMMA SetBytesFinite ==
  ASSUME BaseInv
  PROVE  IsFiniteSet(DOMAIN mem)
<1>1. call.first \in Nat /\ Asked(call) \in Nat
  BY RequestTypes DEF BaseInv, PartsInv
<1>2. call.first \in Int /\ call.first + Asked(call) - 1 \in Int
  BY <1>1
<1>3. IsFiniteSet(call.first..(call.first + Asked(call) - 1))
  BY <1>2, FS_Interval
<1>4. DOMAIN mem \subseteq call.first..(call.first + Asked(call) - 1)
  BY DEF BaseInv, MemoryInv, Span
<1> QED
  BY <1>3, <1>4, FS_Subset

LEMMA PutFills ==
  ASSUME BaseInv, FillInv, NEW value, Stores(value)
  PROVE  FillInv'
<1> DEFINE P == Parts(call)
           D == DOMAIN mem
           w == Draw(parts[1], done)
<1>1. parts # << >> /\ call' = call /\ Put(value) /\ call \in Calls
      /\ Parts(call') = P
  BY DEF Stores, BaseInv, PartsInv
<1>2. P \in Seq(PartSet) /\ Len(P) \in Nat /\ DOMAIN P = 1..Len(P)
  BY <1>1, PartsLaidOut
<1>3. PICK g \in 1..3 : Layout(P, 1, g)
  BY <1>1, PartsLaidOut
<1>4. PICK n \in 0..Len(P) : At(n)
  BY DEF FillInv
<1>5. /\ n + 1 \in DOMAIN P /\ parts[1] = P[n + 1]
      /\ parts \in Seq(PartSet) /\ Len(parts) \in Nat /\ 1 \in DOMAIN parts
      /\ Len(parts) = Len(P) - n
      /\ done \in 0..(parts[1].draws - 1)
  BY <1>1, <1>4, AtFirst
<1>6. /\ D \intersect Area(parts[1]) = Span(parts[1].first, parts[1].size * done)
      /\ \A i \in DOMAIN P : i > n + 1 => D \intersect Area(P[i]) = {}
      /\ \A i, j \in DOMAIN P :
           (i = n /\ j = n + 1 /\ P[i].group = P[j].group) => Area(P[i]) \subseteq D
      /\ \A i \in DOMAIN parts : parts[i] = P[n + i]
  BY <1>1, <1>4 DEF At
<1>7. /\ w \subseteq Area(parts[1]) /\ w \intersect D = {}
      /\ (w \union D) \intersect Area(parts[1])
         = Span(parts[1].first, parts[1].size * (done + 1))
      /\ \A j \in DOMAIN P :
           j # n + 1 => (w \union D) \intersect Area(P[j]) = D \intersect Area(P[j])
  <2> DEFINE i == n + 1
  <2>1. /\ i \in DOMAIN P /\ done \in 0..(P[i].draws - 1)
        /\ D \intersect Area(P[i]) = Span(P[i].first, P[i].size * done)
    BY <1>5, <1>6
  <2> HIDE DEF i, P, D
  <2>2. /\ Draw(P[i], done) \subseteq Area(P[i]) /\ Draw(P[i], done) \intersect D = {}
        /\ (Draw(P[i], done) \union D) \intersect Area(P[i])
           = Span(P[i].first, P[i].size * (done + 1))
        /\ \A j \in DOMAIN P :
             j # i => (Draw(P[i], done) \union D) \intersect Area(P[j]) = D \intersect Area(P[j])
    BY <1>2, <1>3, <2>1, DrawMore
  <2>3. parts[1] = P[i]
    BY <1>5 DEF i
  <2> QED
    BY <2>2, <2>3 DEF i
<1>8. FilledBy(P, w \union D)
  <2>1. \A j \in DOMAIN P :
          n + 1 = j + 1 /\ P[j].group = P[n + 1].group => Area(P[j]) \subseteq D
    BY <1>2, <1>5, <1>6
  <2>2. FilledBy(P, D)
    BY DEF FillInv
  <2> QED
    BY <1>2, <1>3, <1>5, <1>6, <2>1, <2>2, FillMore
<1>9. DOMAIN mem' = w \union D
  <2>1. Head(parts) = parts[1]
    BY <1>5
  <2> QED
    BY <1>1, <2>1 DEF Put, Draw
<1>10. generated' = Cardinality(w \union D)
  <2>1. generated' = generated + parts[1].size
    <3>1. Head(parts) = parts[1]
      BY <1>5
    <3> QED
      BY <1>1, <3>1 DEF Put
  <2>2. IsFiniteSet(w) /\ Cardinality(w) = parts[1].size
    BY <1>5, DrawSize
  <2>3. IsFiniteSet(D)
    BY SetBytesFinite
  <2>4. Cardinality(w \union D) = Cardinality(w) + Cardinality(D)
    <3>1. Cardinality(w \union D)
          = Cardinality(w) + Cardinality(D) - Cardinality(w \intersect D)
      BY <2>2, <2>3, FS_Union
    <3>2. Cardinality(w \intersect D) = 0
      BY <1>7, FS_EmptySet
    <3>3. Cardinality(w) \in Nat /\ Cardinality(D) \in Nat
      BY <2>2, <2>3, FS_CardinalityType
    <3> QED
      BY <3>1, <3>2, <3>3
  <2>5. generated = Cardinality(D) /\ generated \in Nat
    BY DEF FillInv, BaseInv, CountInv
  <2>6. parts[1].size \in Nat
    BY <1>5, PartTypes
  <2> QED
    BY <2>1, <2>2, <2>4, <2>5, <2>6
<1>11. \/ done + 1 = parts[1].draws /\ parts' = Tail(parts) /\ done' = 0
       \/ done + 1 # parts[1].draws /\ parts' = parts /\ done' = done + 1
  <2>1. Head(parts) = parts[1]
    BY <1>5
  <2> QED
    BY <1>1, <2>1 DEF Put
<1>12. D \subseteq DOMAIN mem'
  BY <1>9
<1>13. CASE done + 1 = parts[1].draws /\ parts' = Tail(parts) /\ done' = 0
  <2>1. /\ n + 1 \in 0..Len(P) /\ Len(parts') = Len(P) - (n + 1)
        /\ \A i \in DOMAIN parts' : parts'[i] = P[n + 1 + i] /\ n + 1 + i \in DOMAIN P
    <3>1. /\ Len(Tail(parts)) = Len(parts) - 1
          /\ \A i \in DOMAIN Tail(parts) :
               Tail(parts)[i] = parts[i + 1] /\ i + 1 \in DOMAIN parts /\ i \in Nat
      BY <1>5
    <3>2. \A i \in DOMAIN parts : i \in 1..Len(parts)
      BY <1>5
    <3>3. ASSUME NEW i \in DOMAIN Tail(parts)
          PROVE  Tail(parts)[i] = P[n + 1 + i] /\ n + 1 + i \in DOMAIN P
      <4>1. i \in Nat /\ i + 1 \in 1..Len(parts) /\ Tail(parts)[i] = parts[i + 1]
        BY <3>1, <3>2
      <4>2. parts[i + 1] = P[n + (i + 1)] /\ n + (i + 1) = n + 1 + i
        BY <1>6, <3>1, <4>1
      <4> QED
        BY <1>2, <1>5, <4>1, <4>2
    <3>4. n + 1 \in 0..Len(P) /\ Len(Tail(parts)) = Len(P) - (n + 1)
      <4>1. n \in Nat /\ Len(P) \in Nat /\ n + 1 \in 1..Len(P)
        BY <1>2, <1>5
      <4>2. Len(Tail(parts)) = Len(P) - n - 1
        BY <1>5, <3>1
      <4>3. \A l, m \in Nat : l - m - 1 = l - (m + 1)
        OBVIOUS
      <4>4. n + 1 \in 0..Len(P)
        BY <4>1
      <4> QED
        BY <4>1, <4>2, <4>3, <4>4
    <3> QED
      BY <1>13, <3>3, <3>4
  <2>2. ASSUME parts' # << >>
        PROVE  DOMAIN mem' \intersect Area(parts'[1])
               = Span(parts'[1].first, parts'[1].size * done')
    <3>1. Tail(parts) \in Seq(PartSet)
      BY <1>5
    <3>2. 1 \in DOMAIN parts' /\ parts'[1] \in PartSet
      BY <1>13, <2>2, <3>1
    <3>3. parts'[1] = P[n + 2] /\ n + 2 \in DOMAIN P /\ n + 2 > n + 1 /\ n + 2 # n + 1
      BY <2>1, <3>2
    <3>4. DOMAIN mem' \intersect Area(parts'[1]) = {}
      BY <1>6, <1>7, <1>9, <3>3
    <3> QED
      BY <1>13, <3>2, <3>4, NoBytes
  <2>3. \A i \in DOMAIN P : i > n + 2 => DOMAIN mem' \intersect Area(P[i]) = {}
    BY <1>2, <1>6, <1>7, <1>9
  <2>4. Area(P[n + 1]) \subseteq DOMAIN mem'
    <3>1. Area(parts[1]) = Span(parts[1].first, parts[1].size * (done + 1))
      <4>1. parts[1] \in PartSet
        BY <1>5
      <4>2. parts[1].size * parts[1].draws = parts[1].draws * parts[1].size
        BY <4>1, PartTypes, Products
      <4> QED
        BY <1>13, <4>2 DEF Area
    <3> QED
      BY <1>5, <1>7, <1>9, <3>1
  <2>5. At(n + 1)'
    <3>1. n + 1 + 1 = n + 2
      OBVIOUS
    <3> QED
      BY <1>1, <2>1, <2>2, <2>3, <2>4, <3>1 DEF At
  <2> QED
    BY <1>1, <1>8, <1>9, <1>10, <2>1, <2>5 DEF FillInv
<1>14. CASE done + 1 # parts[1].draws /\ parts' = parts /\ done' = done + 1
  <2>1. \A i \in DOMAIN P : i > n + 1 => DOMAIN mem' \intersect Area(P[i]) = {}
    BY <1>2, <1>6, <1>7, <1>9
  <2>2. \A i, j \in DOMAIN P :
          (i = n /\ j = n + 1 /\ P[i].group = P[j].group) => Area(P[i]) \subseteq DOMAIN mem'
    BY <1>6, <1>12
  <2>3. At(n)'
    BY <1>1, <1>5, <1>6, <1>7, <1>9, <1>14, <2>1, <2>2 DEF At
  <2> QED
    BY <1>1, <1>8, <1>9, <1>10, <2>3 DEF FillInv
<1> QED
  BY <1>11, <1>13, <1>14

(* A function that is given up has one more part at most, which nobody     *)
(* draws for; the next part is of another group.                           *)
GivesUp ==
  parts # << >> /\ parts' = NextGroup /\ done' = 0 /\ UNCHANGED <<call, mem, generated>>

LEMMA SkipFills ==
  ASSUME BaseInv, NEW n \in 0..Len(Parts(call)), At(n), parts # << >>,
         NEW m \in {1, 2}, m <= Len(parts),
         Len(parts') = Len(parts) - m,
         \A i \in DOMAIN parts' : parts'[i] = parts[m + i] /\ m + i \in DOMAIN parts,
         parts' \in Seq(PartSet), done' = 0, UNCHANGED <<call, mem>>,
         m + 1 \in DOMAIN parts => parts[m].group # parts[m + 1].group
  PROVE  n + m \in 0..Len(Parts(call)) /\ At(n + m)'
<1> DEFINE P == Parts(call)
           D == DOMAIN mem
<1>1. /\ call' = call /\ mem' = mem /\ Parts(call') = P
      /\ Len(parts') = Len(parts) - m /\ done' = 0
  OBVIOUS
<1>2. call \in Calls
  BY DEF BaseInv, PartsInv
<1>3. P \in Seq(PartSet) /\ Len(P) \in Nat /\ DOMAIN P = 1..Len(P)
  BY <1>2, PartsLaidOut
<1>4. /\ parts \in Seq(PartSet) /\ Len(parts) \in Nat /\ Len(parts) = Len(P) - n /\ n \in Nat
  BY AtFirst
<1>5. DOMAIN parts = 1..Len(parts)
  BY <1>4
<1>6. /\ \A i \in DOMAIN parts : parts[i] = P[n + i]
      /\ \A i \in DOMAIN P : i > n + 1 => D \intersect Area(P[i]) = {}
  BY DEF At
<1>7. n + m \in 0..Len(P) /\ Len(parts') = Len(P) - (n + m)
  <2>1. \A l, j, k \in Nat : l - j - k = l - (j + k)
    OBVIOUS
  <2>2. n + m \in 0..Len(P)
    BY <1>3, <1>4
  <2> QED
    BY <1>1, <1>3, <1>4, <2>1, <2>2
<1>8. ASSUME NEW i \in DOMAIN parts'
      PROVE  parts'[i] = P[n + m + i] /\ n + m + i \in DOMAIN P /\ i \in Nat /\ i >= 1
  <2>1. parts'[i] = parts[m + i] /\ m + i \in DOMAIN parts
    OBVIOUS
  <2>2. parts[m + i] = P[n + (m + i)]
    BY <1>6, <2>1
  <2>3. i \in Nat /\ i >= 1
    OBVIOUS
  <2>4. n + (m + i) = n + m + i
    BY <1>4, <2>3
  <2>5. n + m + i \in DOMAIN P
    BY <1>3, <1>4, <1>5, <2>1, <2>3
  <2> QED
    BY <2>1, <2>2, <2>3, <2>4, <2>5
<1>9. ASSUME parts' # << >>
      PROVE  DOMAIN mem' \intersect Area(parts'[1])
             = Span(parts'[1].first, parts'[1].size * done')
  <2>1. 1 \in DOMAIN parts' /\ parts'[1] \in PartSet
    BY <1>9
  <2>2. /\ parts'[1] = P[n + m + 1] /\ n + m + 1 \in DOMAIN P
        /\ n + m + 1 > n + 1
    BY <1>4, <1>8, <2>1
  <2>3. D \intersect Area(parts'[1]) = {}
    BY <1>6, <2>2
  <2> QED
    BY <1>1, <2>1, <2>3, NoBytes
<1>10. \A i \in DOMAIN P : i > n + m + 1 => DOMAIN mem' \intersect Area(P[i]) = {}
  BY <1>1, <1>3, <1>4, <1>6
<1>11. ASSUME NEW i \in DOMAIN P, NEW j \in DOMAIN P, i = n + m, j = n + m + 1,
              P[i].group = P[j].group
       PROVE  FALSE
  <2>1. m \in DOMAIN parts /\ m + 1 \in DOMAIN parts
    BY <1>3, <1>4, <1>5, <1>11
  <2>2. parts[m] = P[n + m] /\ parts[m + 1] = P[n + (m + 1)]
    BY <1>6, <2>1
  <2>3. \A k, l \in Nat : k + (l + 1) = k + l + 1
    OBVIOUS
  <2>4. n + (m + 1) = n + m + 1
    BY <1>4, <2>3
  <2> QED
    BY <1>11, <2>1, <2>2, <2>4
<1>12. At(n + m)'
  BY <1>1, <1>7, <1>8, <1>9, <1>10, <1>11 DEF At
<1> QED
  BY <1>7, <1>12

LEMMA GiveUpFills ==
  ASSUME BaseInv, BaseInv', FillInv, GivesUp
  PROVE  FillInv'
<1> DEFINE P == Parts(call)
<1>1. /\ parts # << >> /\ parts' = NextGroup /\ done' = 0
      /\ call' = call /\ mem' = mem /\ generated' = generated /\ Parts(call') = P
  BY DEF GivesUp
<1>2. call \in Calls /\ parts' \in Seq(PartSet)
  BY DEF BaseInv, PartsInv
<1>3. P \in Seq(PartSet) /\ Len(P) \in Nat /\ DOMAIN P = 1..Len(P)
  BY <1>2, PartsLaidOut
<1>4. PICK g \in 1..3 : Layout(P, 1, g)
  BY <1>2, PartsLaidOut
<1>5. PICK n \in 0..Len(P) : At(n)
  BY DEF FillInv
<1>6. /\ parts \in Seq(PartSet) /\ Len(parts) \in Nat /\ Len(parts) >= 1
      /\ DOMAIN parts = 1..Len(parts) /\ Len(parts) = Len(P) - n
      /\ \A i \in DOMAIN parts : parts[i] = P[n + i]
  <2>1. /\ parts \in Seq(PartSet) /\ Len(parts) \in Nat /\ 1 \in DOMAIN parts
        /\ Len(parts) = Len(P) - n
    BY <1>1, <1>5, AtFirst
  <2>2. DOMAIN parts = 1..Len(parts)
    BY <2>1
  <2> QED
    BY <1>5, <2>1, <2>2 DEF At
<1>7. \E m \in {1, 2} : n + m \in 0..Len(P) /\ At(n + m)'
  <2>1. CASE Len(parts) > 1 /\ parts[2].group = parts[1].group
    <3>1. parts' = Tail(Tail(parts))
      BY <1>1, <2>1 DEF NextGroup
    <3>2. /\ Len(parts') = Len(parts) - 2
          /\ \A i \in DOMAIN parts' : parts'[i] = parts[2 + i] /\ 2 + i \in DOMAIN parts
      BY <1>6, <2>1, <3>1
    <3>3. ASSUME 3 \in DOMAIN parts PROVE parts[2].group # parts[3].group
      <4>1. /\ parts[1] = P[n + 1] /\ parts[2] = P[n + 2] /\ parts[3] = P[n + 3]
        BY <1>6, <3>3
      <4>2. n + 1 \in DOMAIN P /\ n + 3 \in DOMAIN P /\ n + 3 = (n + 1) + 2
        BY <1>3, <1>6, <3>3
      <4>3. P[n + 1].group # P[n + 3].group
        BY <1>4, <4>2 DEF Layout
      <4> QED
        BY <2>1, <4>1, <4>3
    <3>4. n + 2 \in 0..Len(P) /\ At(n + 2)'
      BY <1>1, <1>2, <1>5, <1>6, <2>1, <3>2, <3>3, SkipFills
    <3> QED
      BY <3>4
  <2>2. CASE ~(Len(parts) > 1 /\ parts[2].group = parts[1].group)
    <3>1. parts' = Tail(parts)
      BY <1>1, <2>2 DEF NextGroup
    <3>2. /\ Len(parts') = Len(parts) - 1
          /\ \A i \in DOMAIN parts' : parts'[i] = parts[1 + i] /\ 1 + i \in DOMAIN parts
      BY <1>6, <3>1
    <3>3. 2 \in DOMAIN parts => parts[1].group # parts[2].group
      BY <1>6, <2>2
    <3>4. n + 1 \in 0..Len(P) /\ At(n + 1)'
      BY <1>1, <1>2, <1>5, <1>6, <3>2, <3>3, SkipFills
    <3> QED
      BY <3>4
  <2> QED
    BY <2>1, <2>2
<1> QED
  BY <1>1, <1>7 DEF FillInv

LEMMA NothingFilled ==
  ASSUME NEW s \in Seq(PartSet)
  PROVE  FilledBy(s, {})
<1>1. ASSUME NEW i \in DOMAIN s
      PROVE  \E k \in 0..s[i].draws : {} \intersect Area(s[i]) = Span(s[i].first, s[i].size * k)
  <2>1. s[i] \in PartSet
    OBVIOUS
  <2>2. 0 \in 0..s[i].draws
    BY <2>1, PartTypes
  <2>3. {} \intersect Area(s[i]) = Span(s[i].first, s[i].size * 0)
    BY <2>1, NoBytes
  <2> QED
    BY <2>2, <2>3
<1> QED
  BY <1>1 DEF FilledBy

LEMMA FillInvariant == Spec => []FillInv
<1>1. Init => FillInv
  <2> SUFFICES ASSUME Init PROVE FillInv
    OBVIOUS
  <2> DEFINE P == Parts(call)
  <2>1. /\ call \in Calls /\ parts = P /\ done = 0 /\ mem = << >> /\ generated = 0
    BY DEF Init
  <2>2. P \in Seq(PartSet) /\ Len(P) \in Nat /\ DOMAIN P = 1..Len(P)
    BY <2>1, PartsLaidOut
  <2>3. DOMAIN mem = {} /\ generated = Cardinality(DOMAIN mem)
    BY <2>1, FS_EmptySet
  <2>4. FilledBy(P, DOMAIN mem)
    BY <2>2, <2>3, NothingFilled
  <2>5. ASSUME parts # << >>
        PROVE  DOMAIN mem \intersect Area(parts[1])
               = Span(parts[1].first, parts[1].size * done)
    <3>1. parts[1] \in PartSet
      BY <2>1, <2>2, <2>5
    <3> QED
      BY <2>1, <2>3, <3>1, NoBytes
  <2>6. 0 \in 0..Len(P) /\ Len(parts) = Len(P) - 0 /\ 0 \notin DOMAIN P
    BY <2>1, <2>2
  <2>7. \A i \in DOMAIN parts : parts[i] = P[0 + i]
    BY <2>1, <2>2
  <2>8. At(0)
    BY <2>3, <2>5, <2>6, <2>7 DEF At
  <2> QED
    BY <2>3, <2>4, <2>6, <2>8 DEF FillInv
<1>2. BaseInv /\ BaseInv' /\ FillInv /\ [Next]_vars => FillInv'
  <2> SUFFICES ASSUME BaseInv, BaseInv', FillInv, [Next]_vars PROVE FillInv'
    OBVIOUS
  <2>1. CASE Deliver
    <3>1. Stores(drawn + 1)
      BY <2>1 DEF Deliver, Drawing, Stores
    <3> QED
      BY <3>1, PutFills
  <2>2. CASE FailAndGiveUp
    <3>1. CASE Detects(call.fn)
      <4>1. GivesUp
        BY <2>2, <3>1 DEF FailAndGiveUp, Drawing, GivesUp
      <4> QED
        BY <4>1, GiveUpFills
    <3>2. CASE ~Detects(call.fn)
      <4>1. Stores(tmprand)
        BY <2>2, <3>2 DEF FailAndGiveUp, Drawing, Stores
      <4> QED
        BY <4>1, PutFills
    <3> QED
      BY <3>1, <3>2
  <2>3. CASE UNCHANGED <<call, parts, done, mem, generated>>
    BY <2>3 DEF FillInv, At
  <2> QED
    BY <2>1, <2>2, <2>3 DEF Next, ThrowAway, FailAndRetry, Return, Returned, vars
<1> QED
  BY <1>1, <1>2, BaseInvariant, PTL DEF Spec

-----------------------------------------------------------------------------
(* What the parts of the functions leave behind is what RdRandFill says.   *)

(* The bytes of x that are in a part of s. *)
Bytes(s, x) == {a \in x : \E i \in DOMAIN s : a \in Area(s[i])}

(* What a number of draws of a part leaves behind. *)
Prefixes(first, draws, size) == {Span(first, size * k) : k \in 0..draws}

LEMMA FillOfPart ==
  ASSUME NEW first \in Nat, NEW draws \in Nat, NEW size \in 0..WORD, NEW group \in 1..3,
         NEW x, FilledBy(Part(first, draws, size, group), x)
  PROVE  x \in Prefixes(first, draws, size)
<1> USE DEF Prefixes
<1> DEFINE s == Part(first, draws, size, group)
<1>1. CASE draws * size = 0
  <2>1. s = << >>
    BY <1>1 DEF Part
  <2>2. x = {}
    BY <2>1 DEF FilledBy
  <2>3. size * 0 = 0 /\ 0 \in 0..draws
    BY WordAssumption
  <2>4. Span(first, 0) = {}
    BY DEF Span
  <2> QED
    BY <2>2, <2>3, <2>4
<1>2. CASE draws * size # 0
  <2> DEFINE p == [first |-> first, draws |-> draws, size |-> size, group |-> group]
  <2>1. s = << p >>
    BY <1>2 DEF Part
  <2>2. p.first = first /\ p.draws = draws /\ p.size = size
    OBVIOUS
  <2> HIDE DEF p
  <2>3. DOMAIN << p >> = {1} /\ << p >>[1] = p
    OBVIOUS
  <2>4. FilledBy(<< p >>, x)
    BY <2>1
  <2>5. \A a \in x : a \in Area(p)
    BY <2>3, <2>4 DEF FilledBy
  <2>6. \E k \in 0..p.draws : x \intersect Area(p) = Span(p.first, p.size * k)
    BY <2>3, <2>4 DEF FilledBy
  <2>7. x \intersect Area(p) = x
    BY <2>5
  <2> QED
    BY <2>2, <2>6, <2>7
<1> QED
  BY <1>1, <1>2

LEMMA FillOfConcat ==
  ASSUME NEW s \in Seq(PartSet), NEW t \in Seq(PartSet), NEW x, FilledBy(s \o t, x)
  PROVE  /\ x = Bytes(s, x) \union Bytes(t, x)
         /\ FilledBy(s, Bytes(s, x)) /\ FilledBy(t, Bytes(t, x))
<1> DEFINE r == s \o t
<1>1. /\ Len(s) \in Nat /\ Len(t) \in Nat
      /\ DOMAIN s = 1..Len(s) /\ DOMAIN t = 1..Len(t)
  OBVIOUS
<1>2. \A i \in DOMAIN s : r[i] = s[i] /\ i \in DOMAIN r
  OBVIOUS
<1>3. \A i \in DOMAIN t : r[Len(s) + i] = t[i] /\ Len(s) + i \in DOMAIN r
  OBVIOUS
<1>4. \A i \in DOMAIN r : i \in DOMAIN s \/ \E j \in DOMAIN t : i = Len(s) + j
  <2>1. DOMAIN r = 1..(Len(s) + Len(t))
    OBVIOUS
  <2>2. ASSUME NEW i \in DOMAIN r, i \notin DOMAIN s PROVE i - Len(s) \in DOMAIN t /\ i = Len(s) + (i - Len(s))
    BY <1>1, <2>1, <2>2
  <2> QED
    BY <2>2
<1> HIDE DEF r
<1>5. FilledBy(r, x)
  BY DEF r
<1>6. x = Bytes(s, x) \union Bytes(t, x)
  BY <1>2, <1>3, <1>4, <1>5 DEF FilledBy, Bytes
<1>7. FilledBy(s, Bytes(s, x))
  <2>1. \A i \in DOMAIN s : Bytes(s, x) \intersect Area(s[i]) = x \intersect Area(r[i])
    BY <1>2 DEF Bytes
  <2>2. \A i \in DOMAIN s : \E k \in 0..s[i].draws :
          Bytes(s, x) \intersect Area(s[i]) = Span(s[i].first, s[i].size * k)
    BY <1>2, <1>5, <2>1 DEF FilledBy
  <2>3. ASSUME NEW i \in DOMAIN s, NEW j \in DOMAIN s, j = i + 1, s[i].group = s[j].group,
               Bytes(s, x) \intersect Area(s[j]) # {}
        PROVE  Area(s[i]) \subseteq Bytes(s, x)
    <3>1. Area(r[i]) \subseteq x
      BY <1>2, <1>5, <2>1, <2>3 DEF FilledBy
    <3> QED
      BY <1>2, <3>1 DEF Bytes
  <2> QED
    BY <2>2, <2>3 DEF FilledBy, Bytes
<1>8. FilledBy(t, Bytes(t, x))
  <2>1. \A i \in DOMAIN t : Bytes(t, x) \intersect Area(t[i]) = x \intersect Area(r[Len(s) + i])
    BY <1>3 DEF Bytes
  <2>2. \A i \in DOMAIN t : \E k \in 0..t[i].draws :
          Bytes(t, x) \intersect Area(t[i]) = Span(t[i].first, t[i].size * k)
    BY <1>3, <1>5, <2>1 DEF FilledBy
  <2>3. ASSUME NEW i \in DOMAIN t, NEW j \in DOMAIN t, j = i + 1, t[i].group = t[j].group,
               Bytes(t, x) \intersect Area(t[j]) # {}
        PROVE  Area(t[i]) \subseteq Bytes(t, x)
    <3>1. Len(s) + j = (Len(s) + i) + 1
      BY <1>1, <2>3
    <3>2. Area(r[Len(s) + i]) \subseteq x
      BY <1>3, <1>5, <2>1, <2>3, <3>1 DEF FilledBy
    <3> QED
      BY <1>3, <3>2 DEF Bytes
  <2> QED
    BY <2>2, <2>3 DEF FilledBy, Bytes
<1> QED
  BY <1>6, <1>7, <1>8

(* An array function: nothing, or the odd bytes and a number of words.     *)
LEMMA FillOfArray ==
  ASSUME NEW first \in Nat, NEW odd \in 0..WORD, NEW words \in Nat, NEW group \in 1..3, NEW x,
         FilledBy(Part(first, 1, odd, group) \o Part(first + odd, words, WORD, group), x)
  PROVE  x = {} \/ \E k \in 0..words : x = Span(first, odd + WORD * k)
<1> DEFINE s == Part(first, 1, odd, group)
           t == Part(first + odd, words, WORD, group)
           y == Bytes(s, x)
           z == Bytes(t, x)
<1>1. /\ s \in Seq(PartSet) /\ t \in Seq(PartSet) /\ WORD \in 0..WORD /\ WORD >= 1
      /\ odd \in Nat /\ first + odd \in Nat /\ 1 \in Nat
  <2>1. /\ WORD \in 0..WORD /\ WORD >= 1
        /\ odd \in Nat /\ first + odd \in Nat /\ 1 \in Nat
    BY WordAssumption
  <2>2. s \in Seq(PartSet)
    BY <2>1, PartShape
  <2>3. t \in Seq(PartSet)
    BY <2>1, PartShape
  <2> QED
    BY <2>1, <2>2, <2>3
<1>2. x = y \union z /\ FilledBy(s, y) /\ FilledBy(t, z)
  BY <1>1, FillOfConcat
<1>3. PICK h \in 0..1 : y = Span(first, odd * h)
  <2>1. y \in Prefixes(first, 1, odd)
    BY <1>1, <1>2, FillOfPart
  <2> HIDE DEF y
  <2> QED
    BY <2>1 DEF Prefixes
<1>4. PICK k \in 0..words : z = Span(first + odd, WORD * k)
  <2>1. z \in Prefixes(first + odd, words, WORD)
    BY <1>1, <1>2, FillOfPart
  <2> HIDE DEF z
  <2> QED
    BY <2>1 DEF Prefixes
<1>5. WORD * k \in Nat /\ odd * 1 = odd /\ odd * 0 = 0 /\ WORD * 0 = 0
  BY <1>1, <1>4, Products
<1>6. \A f : Span(f, 0) = {} \/ f \notin Nat
  BY DEF Span
<1>7. CASE odd = 0
  <2>1. y = {} /\ z = Span(first, odd + WORD * k)
    <3>1. odd * h = 0
      BY <1>3, <1>7
    <3>2. first + odd = first /\ odd + WORD * k = WORD * k
      BY <1>5, <1>7
    <3>3. y = {}
      <4>1. Span(first, 0) = {}
        BY <1>6
      <4> HIDE DEF y
      <4> QED
        BY <1>3, <3>1, <4>1
    <3> HIDE DEF y, z
    <3> QED
      BY <1>4, <3>2, <3>3
  <2> QED
    BY <1>2, <1>4, <2>1
<1>8. CASE odd # 0 /\ h = 1
  <2>1. y = Span(first, odd)
    BY <1>3, <1>5, <1>8
  <2>2. x = Span(first, odd + WORD * k)
    <3> HIDE DEF y, z
    <3> DEFINE n == WORD * k
    <3>1. n \in Nat
      BY <1>5
    <3> HIDE DEF n
    <3>2. Span(first + odd, n) \union Span(first, odd) = Span(first, odd + n)
      BY <1>1, <3>1, NextSpan
    <3> QED
      BY <1>2, <1>4, <2>1, <3>2 DEF n
  <2> QED
    BY <1>4, <2>2
<1>9. CASE odd # 0 /\ h = 0
  <2>1. y = {}
    BY <1>3, <1>5, <1>6, <1>9
  <2>2. ASSUME NEW a \in z PROVE FALSE
    <3>1. PICK i \in DOMAIN t : a \in Area(t[i])
      BY DEF Bytes
    <3>2. Len(s) = 1 /\ s[1].group = group /\ first \in Area(s[1])
      <4>1. 1 * odd = odd
        BY <1>1
      <4>2. s = << [first |-> first, draws |-> 1, size |-> odd, group |-> group] >>
        BY <1>9, <4>1 DEF Part
      <4>3. s[1] = [first |-> first, draws |-> 1, size |-> odd, group |-> group] /\ Len(s) = 1
        BY <4>2
      <4>4. Area(s[1]) = Span(first, odd)
        BY <4>1, <4>3 DEF Area
      <4>5. first \in Span(first, odd)
        BY <1>1, <1>9 DEF Span
      <4> QED
        BY <4>3, <4>4, <4>5
    <3>3. i = 1 /\ t[1].group = group
      <4>1. t = << >> \/ t = << [first |-> first + odd, draws |-> words, size |-> WORD, group |-> group] >>
        BY DEF Part
      <4> QED
        BY <4>1
    <3> HIDE DEF s, t
    <3>4. /\ 1 \in DOMAIN (s \o t) /\ 2 \in DOMAIN (s \o t)
          /\ (s \o t)[1] = s[1] /\ (s \o t)[2] = t[1] /\ 1 \in DOMAIN s
      <4>1. Len(t) >= 1 /\ 1 \in DOMAIN s /\ 1 \in DOMAIN t
        BY <1>1, <3>1, <3>2, <3>3
      <4>2. Len(s) + 1 = 2
        BY <3>2
      <4> QED
        <5>1. /\ DOMAIN (s \o t) = 1..(Len(s) + Len(t)) /\ Len(t) \in Nat
              /\ (s \o t)[1] = s[1] /\ (s \o t)[Len(s) + 1] = t[1]
          BY <1>1, <4>1, ConcatElements
        <5> QED
          BY <3>2, <4>1, <4>2, <5>1
    <3>5. x \intersect Area((s \o t)[2]) # {}
      BY <1>2, <2>2, <3>1, <3>3, <3>4
    <3>6. FilledBy(s \o t, x)
      BY DEF s, t
    <3>7. 2 = 1 + 1 /\ (s \o t)[1].group = (s \o t)[2].group
      BY <3>2, <3>3, <3>4
    <3>8. Area(s[1]) \subseteq x
      BY <3>4, <3>5, <3>6, <3>7 DEF FilledBy
    <3>9. first \in y
      BY <3>2, <3>4, <3>8 DEF Bytes
    <3> QED
      BY <2>1, <3>9
  <2> QED
    BY <1>2, <2>1, <2>2
<1> QED
  BY <1>3, <1>7, <1>8, <1>9

LEMMA OddAndWords ==
  ASSUME NEW fn \in Arrays, NEW count \in Nat
  PROVE  LET u == Unit(fn)
             w == (count * Unit(fn)) \div WORD
             o == OddBytes(fn, count)
         IN  /\ w \in Nat /\ o \in 0..WORD
             /\ fn = "uint8_array" => o = count % WORD /\ w = count \div WORD
             /\ fn # "uint8_array" => o = (IF count * u = WORD * w THEN 0 ELSE u)
             /\ fn = "uint64_array" => o = 0 /\ w = count
<1> DEFINE w == (count * Unit(fn)) \div WORD
           o == OddBytes(fn, count)
<1>1. PICK u \in Nat, r \in Nat : /\ u >= 1 /\ r >= 1 /\ WORD = u * r
                                  /\ Unit(fn) = u /\ WORD \div Unit(fn) = r /\ u <= WORD
  BY Units DEF FunctionNames
<1>2. /\ w = count \div r
      /\ count * u = WORD * (count \div r) + (count % r) * u
      /\ count \div r \in Nat /\ count % r \in Nat
  <2>1. u >= 1 /\ r >= 1 /\ WORD = u * r
    BY <1>1
  <2>2. /\ (count * u) \div WORD = count \div r
        /\ count * u = WORD * (count \div r) + (count % r) * u
        /\ count \div r \in Nat /\ count % r \in Nat
    <3> HIDE DEF w, o
    <3> QED
      BY <2>1, WordsOfElements
  <2>3. w = (count * u) \div WORD
    BY <1>1
  <2> HIDE DEF w
  <2> QED
    BY <2>2, <2>3
<1>3. w \in Nat
  BY <1>2
<1>4. fn = "uint8_array" => o = count % WORD /\ w = count \div WORD /\ o \in 0..WORD
  <2> SUFFICES ASSUME fn = "uint8_array" PROVE o = count % WORD /\ w = count \div WORD /\ o \in 0..WORD
    OBVIOUS
  <2>1. Unit(fn) = 1 /\ count * 1 = count
    BY DEF Unit
  <2>2. count % WORD \in Nat /\ count % WORD < WORD
    BY DivisionWithRest, WordAssumption
  <2> QED
    BY <2>1, <2>2, WordAssumption DEF OddBytes
<1>5. fn # "uint8_array" => o = IF count % r > 0 THEN u ELSE 0
  BY <1>1 DEF OddBytes, OddBytesOfOneUnit
<1> HIDE DEF w, o
<1>6. count * u = WORD * w <=> ~(count % r > 0)
  <2>1. (count % r) * u \in Nat /\ (count % r > 0 => (count % r) * u > 0)
        /\ (~(count % r > 0) => (count % r) * u = 0)
    BY <1>1, <1>2
  <2>2. WORD * w \in Nat
    BY <1>3, Products, WordAssumption
  <2>3. count * u = WORD * w + (count % r) * u
    BY <1>2
  <2> QED
    BY <1>2, <2>1, <2>2, <2>3
<1>7. fn # "uint8_array" => o = (IF count * u = WORD * w THEN 0 ELSE u)
  BY <1>5, <1>6
<1>8. fn = "uint64_array" => o = 0 /\ w = count
  <2> SUFFICES ASSUME fn = "uint64_array" PROVE o = 0 /\ w = count
    OBVIOUS
  <2>1. u = WORD /\ WORD = u * 1 /\ 1 \in Nat
    BY <1>1, WordAssumption DEF Unit
  <2>2. r = 1
    <3>1. WORD \div u = r
      BY <1>1
    <3>2. WORD \div u = 1
      BY <1>1, <2>1, UnitRatio
    <3> QED
      BY <3>1, <3>2
  <2>3. count \div 1 = count /\ count % 1 = 0
    BY SMT
  <2> QED
    BY <1>2, <1>5, <2>2, <2>3
<1>9. o \in 0..WORD
  BY <1>1, <1>4, <1>7, WordAssumption
<1> QED
  BY <1>1, <1>3, <1>4, <1>7, <1>8, <1>9 DEF w, o

LEMMA OutcomeOfArray ==
  ASSUME NEW fn \in Arrays, NEW first \in Nat, NEW count \in Nat, NEW group \in 1..3, NEW x,
         FilledBy(ArrayParts(fn, first, count, group), x)
  PROVE  \/ x = {}
         \/ \E k \in 0..((count * Unit(fn)) \div WORD) :
              x = Span(first, OddBytes(fn, count) + WORD * k)
<1> DEFINE odd   == OddBytes(fn, count)
           words == (count * Unit(fn)) \div WORD
<1>1. odd \in 0..WORD /\ words \in Nat
  BY OddAndWords
<1>2. FilledBy(Part(first, 1, odd, group) \o Part(first + odd, words, WORD, group), x)
  BY DEF ArrayParts
<1> HIDE DEF odd, words
<1>3. x = {} \/ \E k \in 0..words : x = Span(first, odd + WORD * k)
  BY <1>1, <1>2, FillOfArray
<1> QED
  BY <1>3 DEF odd, words

LEMMA OutcomeOfBytes ==
  ASSUME NEW first \in Nat, NEW count \in Nat, NEW group \in 1..3, NEW x,
         FilledBy(ArrayParts("uint8_array", first, count, group), x)
  PROVE  x \in Uint8ArrayFills(first, count)
<1> DEFINE fn == "uint8_array"
           odd   == OddBytes(fn, count)
           words == (count * Unit(fn)) \div WORD
<1>1. fn \in Arrays
  BY DEF Arrays
<1>2. x = {} \/ \E k \in 0..words : x = Span(first, odd + WORD * k)
  BY <1>1, OutcomeOfArray
<1>3. odd = count % WORD /\ words = count \div WORD
  BY <1>1, OddAndWords
<1> HIDE DEF odd, words
<1> QED
  BY <1>2, <1>3 DEF Uint8ArrayFills

LEMMA OutcomeOfElements ==
  ASSUME NEW fn \in Arrays, fn # "uint8_array", NEW first \in Nat, NEW count \in Nat, NEW x,
         FilledBy(ArrayParts(fn, first, count, 1), x)
  PROVE  /\ x \in Abstract!ElementFirstFills(first, count, Unit(fn))
         /\ fn = "uint64_array" => x \in Uint64ArrayFills(first, count)
<1> DEFINE unit  == Unit(fn)
           odd   == OddBytes(fn, count)
           words == (count * Unit(fn)) \div WORD
<1>1. 1 \in 1..3 /\ {} = Span(first, WORD * 0)
  BY WordAssumption DEF Span
<1>2. x = {} \/ \E k \in 0..words : x = Span(first, odd + WORD * k)
  BY <1>1, OutcomeOfArray
<1>3. /\ odd = (IF count * unit = WORD * words THEN 0 ELSE unit) /\ words \in Nat
      /\ fn = "uint64_array" => odd = 0 /\ words = count
  BY OddAndWords
<1>4. words = (count * unit) \div WORD
  OBVIOUS
<1> HIDE DEF odd, words, unit
<1>5. ASSUME odd = 0
      PROVE  \E k \in 0..words : x = Span(first, WORD * k)
  <2>1. ASSUME NEW k \in 0..words PROVE odd + WORD * k = WORD * k
    <3>1. k \in Nat
      BY <1>3
    <3>2. WORD * k \in Nat
      BY <3>1, Products, WordAssumption
    <3> QED
      BY <1>5, <3>2
  <2>2. 0 \in 0..words
    BY <1>3
  <2> QED
    BY <1>1, <1>2, <2>1, <2>2
<1>6. CASE count * unit = WORD * words
  <2>1. \E k \in 0..words : x = Span(first, WORD * k)
    BY <1>3, <1>5, <1>6
  <2>2. Abstract!ElementFirstFills(first, count, unit) = Abstract!Uint64ArrayFills(first, words)
    BY <1>4, <1>6 DEF Abstract!ElementFirstFills
  <2>3. x \in Abstract!ElementFirstFills(first, count, unit)
    BY <2>1, <2>2 DEF Abstract!Uint64ArrayFills, Abstract!Span, Span
  <2>4. fn = "uint64_array" => x \in Uint64ArrayFills(first, count)
    BY <1>3, <2>1 DEF Uint64ArrayFills
  <2> QED
    BY <2>3, <2>4 DEF unit
<1>7. CASE count * unit # WORD * words
  <2>1. odd = unit
    BY <1>3, <1>7
  <2>2. Abstract!ElementFirstFills(first, count, unit)
        = {{}} \union {Span(first, unit + WORD * k) : k \in 0..words}
    BY <1>4, <1>7 DEF Abstract!ElementFirstFills, Abstract!Span, Span
  <2>3. x \in Abstract!ElementFirstFills(first, count, unit)
    BY <1>2, <2>1, <2>2
  <2>4. fn = "uint64_array" => x \in Uint64ArrayFills(first, count)
    <3>1. fn = "uint64_array" => \E k \in 0..words : x = Span(first, WORD * k)
      BY <1>3, <1>5
    <3> QED
      BY <1>3, <3>1 DEF Uint64ArrayFills
  <2> QED
    BY <2>3, <2>4 DEF unit
<1> QED
  BY <1>6, <1>7

LEMMA OutcomeOfGetBytes ==
  ASSUME NEW first \in Nat, NEW size \in Nat, NEW x, FilledBy(GetBytesParts(first, size), x)
  PROVE  x \in GetBytesFills(first, size)
<1> DEFINE offset == Offset(first, size)
           middle == AlignedStart(first, size)
           words  == AlignedBytes(first, size) \div WORD
           rest   == AlignedBytes(first, size) % WORD
           last   == middle + WORD * words
           s == ArrayParts("uint8_array", first, offset, 1)
           t == Part(middle, words, WORD, 2)
           v == ArrayParts("uint8_array", last, rest, 3)
<1>1. FilledBy((s \o t) \o v, x)
  BY DEF GetBytesParts
<1>2. /\ offset \in Nat /\ offset <= size /\ middle = first + offset
  BY StartOfWords
<1>3. /\ words \in Nat /\ rest \in Nat
  <2> DEFINE bytes == AlignedBytes(first, size)
             n == size - offset
  <2>1. n \in Nat /\ bytes = n % UINT_RANGE
    BY <1>2 DEF AlignedBytes
  <2> HIDE DEF n, bytes
  <2>2. bytes \in Nat
    BY <2>1, UintAssumption
  <2> QED
    BY <2>2, DivisionWithRest, WordAssumption DEF bytes
<1> HIDE DEF offset, middle, words, rest
<1>4. middle \in Nat /\ last \in Nat
  <2>1. WORD * words \in Nat
    BY <1>3, Products, WordAssumption
  <2> QED
    BY <1>2, <2>1
<1> HIDE DEF last
<1>5. s \in Seq(PartSet)
  BY <1>2, ArrayPartsShape DEF Arrays
<1>6. t \in Seq(PartSet)
  <2>1. WORD \in 0..WORD /\ 2 \in 1..3
    BY WordAssumption
  <2> QED
    BY <1>3, <1>4, <2>1, PartShape
<1>7. v \in Seq(PartSet)
  BY <1>3, <1>4, ArrayPartsShape DEF Arrays
<1> DEFINE w == s \o t
           r == Bytes(w, x)
           head == Bytes(s, r)
           body == Bytes(t, r)
           tail == Bytes(v, x)
<1> HIDE DEF s, t, v
<1>8. w \in Seq(PartSet)
  BY <1>5, <1>6, ConcatElements
<1>9. x = r \union tail /\ FilledBy(s \o t, r) /\ FilledBy(v, tail)
  <2>1. FilledBy(w \o v, x)
    BY <1>1
  <2> HIDE DEF w
  <2>2. x = r \union tail /\ FilledBy(w, r) /\ FilledBy(v, tail)
    BY <1>7, <1>8, <2>1, FillOfConcat
  <2> QED
    BY <2>2 DEF w
<1> HIDE DEF r, tail, w
<1>10. r = head \union body /\ FilledBy(s, head) /\ FilledBy(t, body)
  BY <1>5, <1>6, <1>9, FillOfConcat
<1> HIDE DEF head, body
<1>11. head \in Uint8ArrayFills(first, offset)
  BY <1>2, <1>10, OutcomeOfBytes DEF s
<1>12. body \in Uint64ArrayFills(middle, words)
  <2>1. WORD \in 0..WORD /\ 2 \in 1..3
    BY WordAssumption
  <2>2. body \in Prefixes(middle, words, WORD)
    BY <1>3, <1>4, <1>10, <2>1, FillOfPart DEF t
  <2> QED
    BY <2>2 DEF Prefixes, Uint64ArrayFills
<1>13. tail \in Uint8ArrayFills(last, rest)
  BY <1>3, <1>4, <1>9, OutcomeOfBytes DEF v
<1>14. x = head \union body \union tail
  BY <1>9, <1>10
<1>15. GetBytesFills(first, size)
       = { h \union b \union e : h \in Uint8ArrayFills(first, offset),
                                 b \in Uint64ArrayFills(middle, words),
                                 e \in Uint8ArrayFills(last, rest) }
  BY <1>2 DEF GetBytesFills, offset, words, rest, last
<1> QED
  BY <1>11, <1>12, <1>13, <1>14, <1>15

-----------------------------------------------------------------------------
(* The steps of the call are steps of RdRandCall.                          *)

LEMMA SameFills ==
  /\ \A fn : Abstract!Unit(fn) = Unit(fn)
  /\ \A f, n : Abstract!Span(f, n) = Span(f, n)
  /\ \A f, w : Abstract!Uint64ArrayFills(f, w) = Uint64ArrayFills(f, w)
  /\ \A f, n : Abstract!Uint8ArrayFills(f, n) = Uint8ArrayFills(f, n)
  /\ \A f, n : Abstract!GetBytesFills(f, n) = GetBytesFills(f, n)
<1>1. \A fn : Abstract!Unit(fn) = Unit(fn)
  BY DEF Abstract!Unit, Unit
<1>2. \A f, n : Abstract!Span(f, n) = Span(f, n)
  BY DEF Abstract!Span, Span
<1>3. \A f, w : Abstract!Uint64ArrayFills(f, w) = Uint64ArrayFills(f, w)
  BY <1>2 DEF Abstract!Uint64ArrayFills, Uint64ArrayFills
<1>4. \A f, n : Abstract!Uint8ArrayFills(f, n) = Uint8ArrayFills(f, n)
  BY <1>2 DEF Abstract!Uint8ArrayFills, Uint8ArrayFills
<1>5. \A f, n : /\ Abstract!Offset(f, n) = Offset(f, n)
                /\ Abstract!AlignedBytes(f, n) = AlignedBytes(f, n)
  BY DEF Abstract!Offset, Offset, Abstract!AlignedBytes, AlignedBytes
<1>6. \A f, n : Abstract!GetBytesFills(f, n) = GetBytesFills(f, n)
  BY <1>3, <1>4, <1>5 DEF Abstract!GetBytesFills, GetBytesFills
<1> QED
  BY <1>1, <1>2, <1>3, <1>4, <1>6

LEMMA SameCardinality == \A x : Abstract!Cardinality(x) = Cardinality(x)
BY DEF Abstract!Cardinality, Cardinality

LEMMA OutcomeOfCall ==
  ASSUME BaseInv, TileInv, FillInv, parts = << >>
  PROVE  DOMAIN mem \in Abstract!Outcomes(call)
<1> DEFINE D == DOMAIN mem
<1>1. /\ call.fn \in FunctionNames /\ call.first \in Nat /\ call.count \in Nat
      /\ call.fn \in Singles => call.count = 1
      /\ call.fn = "fwrite" => call.first = 0
  BY CallsAssumption DEF BaseInv, PartsInv
<1>2. FilledBy(Parts(call), D)
  BY DEF FillInv
<1>3. Unit(call.fn) \in Nat /\ Unit(call.fn) \in 0..WORD /\ WORD \in 0..WORD /\ 1 \in 1..3
  BY <1>1, Units, WordAssumption
<1> HIDE DEF D
<1>4. CASE call.fn \in Singles
  <2>1. Parts(call) = Part(call.first, 1, Unit(call.fn), 1)
    BY <1>4 DEF Parts, Arrays, Singles, Reseeds
  <2>2. D \in Prefixes(call.first, 1, Unit(call.fn))
    BY <1>1, <1>2, <1>3, <2>1, FillOfPart
  <2>3. D = Span(call.first, Unit(call.fn)) \/ D = {}
    <3>1. PICK k \in 0..1 : D = Span(call.first, Unit(call.fn) * k)
      BY <2>2 DEF Prefixes
    <3>2. k = 1 => Unit(call.fn) * k = Unit(call.fn)
      BY <1>3
    <3>3. k = 0 => Unit(call.fn) * k = 0
      BY <1>3
    <3>4. Span(call.first, 0) = {}
      BY <1>1 DEF Span
    <3> QED
      BY <3>1, <3>2, <3>3, <3>4
  <2>4. Abstract!Outcomes(call) = {{}, Span(call.first, Unit(call.fn))}
    BY <1>4, SameFills DEF Abstract!Outcomes, Abstract!SingleFills, Singles
  <2> QED
    BY <2>3, <2>4 DEF D
<1>5. CASE call.fn = "uint8_array"
  <2>1. Parts(call) = ArrayParts("uint8_array", call.first, call.count, 1)
    BY <1>5 DEF Parts, Arrays, Singles, Reseeds
  <2>2. D \in Uint8ArrayFills(call.first, call.count)
    BY <1>1, <1>2, <1>3, <2>1, OutcomeOfBytes
  <2>3. Abstract!Outcomes(call) = Uint8ArrayFills(call.first, call.count)
    BY <1>5, SameFills DEF Abstract!Outcomes
  <2> QED
    BY <2>2, <2>3 DEF D
<1>6. CASE call.fn \in Arrays /\ call.fn # "uint8_array"
  <2>1. Parts(call) = ArrayParts(call.fn, call.first, call.count, 1)
    BY <1>6 DEF Parts, Arrays, Singles, Reseeds
  <2>2. /\ D \in Abstract!ElementFirstFills(call.first, call.count, Unit(call.fn))
        /\ call.fn = "uint64_array" => D \in Uint64ArrayFills(call.first, call.count)
    BY <1>1, <1>2, <1>6, <2>1, OutcomeOfElements
  <2>3. Abstract!Outcomes(call)
        = IF call.fn = "uint64_array" THEN Uint64ArrayFills(call.first, call.count)
          ELSE Abstract!ElementFirstFills(call.first, call.count, Unit(call.fn))
    BY <1>6, SameFills DEF Abstract!Outcomes, Arrays
  <2> QED
    BY <2>2, <2>3 DEF D
<1>7. CASE call.fn \in Reseeds
  <2>1. Parts(call) = Part(call.first, call.count, WORD, 1)
    BY <1>7 DEF Parts, Arrays, Singles, Reseeds
  <2>2. D \in Prefixes(call.first, call.count, WORD)
    BY <1>1, <1>2, <1>3, <2>1, FillOfPart
  <2>3. Abstract!Outcomes(call) = Uint64ArrayFills(call.first, call.count)
    BY <1>7, SameFills DEF Abstract!Outcomes, Reseeds
  <2> QED
    BY <2>2, <2>3 DEF D, Prefixes, Uint64ArrayFills
<1>8. CASE call.fn = "get_bytes"
  <2>1. Parts(call) = GetBytesParts(call.first, call.count)
    BY <1>8 DEF Parts, Arrays, Singles, Reseeds
  <2>2. D \in GetBytesFills(call.first, call.count)
    BY <1>1, <1>2, <2>1, OutcomeOfGetBytes
  <2>3. Abstract!Outcomes(call) = GetBytesFills(call.first, call.count)
    BY <1>8, SameFills DEF Abstract!Outcomes
  <2> QED
    BY <2>2, <2>3 DEF D
<1>9. CASE call.fn = "fwrite"
  <2>1. Covered(call)
    BY <1>9 DEF Covered
  <2>2. DOMAIN mem = Span(call.first, generated) /\ generated = Asked(call)
    <3>1. Reached(call) = Asked(call)
      BY <1>9, AllReached DEF BaseInv, PartsInv
    <3> QED
      BY <1>9, <2>1, <3>1 DEF TileInv, Tiled
  <2>3. Asked(call) = call.count /\ call.first = 0
    BY <1>1, <1>9 DEF Asked, Unit
  <2>4. Abstract!Outcomes(call) = {Span(0, call.count)}
    BY <1>9, SameFills DEF Abstract!Outcomes
  <2> QED
    BY <2>2, <2>3, <2>4
<1> QED
  BY <1>1, <1>4, <1>5, <1>6, <1>7, <1>8, <1>9 DEF FunctionNames, Arrays

(* A call does what RdRandCall says: it runs without effect and then       *)
(* returns, once, with one of the sets of bytes that RdRandFill describes  *)
(* set and their number as its result, for every function, alignment,      *)
(* count and retry limit.  (That it returns is ImplementsCall's liveness.) *)
THEOREM CallImplemented == Spec => Abstract!Init /\ [][Abstract!Return]_(Abstract!vars)
<1>1. Init => Abstract!Init
  BY DEF Init, Abstract!Init, Running, Abstract!Running
<1>2. BaseInv /\ TileInv /\ FillInv /\ [Next]_vars => [Abstract!Return]_(Abstract!vars)
  <2> SUFFICES ASSUME BaseInv, TileInv, FillInv, [Next]_vars
               PROVE  [Abstract!Return]_(Abstract!vars)
    OBVIOUS
  <2>1. CASE Return
    <3>1. parts = << >> /\ result = Running /\ UNCHANGED <<call, mem, generated>>
          /\ result' = Reported
      BY <2>1 DEF Return, Reported
    <3>2. result' # Running
      <4>1. call.fn \in FunctionNames /\ generated \in Nat
        BY CallsAssumption DEF BaseInv, PartsInv, CountInv
      <4>2. Unit(call.fn) \in Nat /\ Unit(call.fn) >= 1
        BY <4>1, Units
      <4>3. generated \div Unit(call.fn) \in Nat
        BY <4>1, <4>2, DivisionWithRest
      <4> QED
        BY <3>1, <4>3 DEF Reported, Running, RDRAND_SUCCESS, RDRAND_FAILURE
    <3>3. DOMAIN mem \in Abstract!Outcomes(call)
      BY <3>1, OutcomeOfCall
    <3>4. result' = Abstract!Counts(call, Cardinality(DOMAIN mem))
      <4>1. generated = Cardinality(DOMAIN mem) /\ generated \in Nat
        BY DEF FillInv, BaseInv, CountInv
      <4>2. Abstract!Counts(call, generated) = Reported
        <5>1. generated = 0 <=> ~(generated > 0)
          BY <4>1
        <5>2. Abstract!Unit(call.fn) = Unit(call.fn)
          BY SameFills
        <5> QED
          BY <5>1, <5>2
             DEF Abstract!Counts, Reported, Singles, RDRAND_SUCCESS, RDRAND_FAILURE
      <4> QED
        BY <3>1, <4>1, <4>2
    <3> DEFINE filled == IF result = Running THEN {} ELSE DOMAIN mem
    <3>5. filled' = DOMAIN mem
      BY <3>1, <3>2
    <3>6. call' = call /\ result = Abstract!Running
      BY <3>1 DEF Running, Abstract!Running
    <3>7. filled' \in Abstract!Outcomes(call)
      BY <3>3, <3>5
    <3>8. result' = Abstract!Counts(call, Abstract!Cardinality(filled'))
      BY <3>4, <3>5, SameCardinality
    <3>9. Abstract!Return
      BY <3>6, <3>7, <3>8 DEF Abstract!Return
    <3> QED
      BY <3>9
  <2>2. CASE result = Running /\ result' = Running /\ call' = call
    BY <2>2 DEF Abstract!vars
  <2>3. CASE UNCHANGED vars
    BY <2>3 DEF Abstract!vars, vars
  <2> QED
    BY <2>1, <2>2, <2>3
       DEF Next, ThrowAway, FailAndRetry, Deliver, FailAndGiveUp, Drawing, Returned
<1> QED
  BY <1>1, <1>2, BaseInvariant, TileInvariant, FillInvariant, PTL DEF Spec

-----------------------------------------------------------------------------
(* What Generate takes a call of the library for.                          *)

(* A request of generate_with_metod() for a number of bytes from an        *)
(* address: rdrand_get_bytes_retry() is asked for the bytes, the reseed    *)
(* functions for the words in them.  Its result is the number of bytes     *)
(* that were set.                                                          *)
ServesGenerate ==
  result # Running =>
    /\ (call.fn = "get_bytes" /\ call.count < UINT_RANGE)
       => /\ DOMAIN mem \in Fills(call.fn, call.first, call.count)
          /\ result = Cardinality(DOMAIN mem)
    /\ \A size \in Nat :
         (call.fn \in Reseeds /\ size \div WORD = call.count)
         => /\ DOMAIN mem \in Fills(call.fn, call.first, size)
            /\ result * WORD = Cardinality(DOMAIN mem)

HealthInv == ~HwMayFail => underflow = 0

LEMMA SpanSize ==
  ASSUME NEW first \in Nat, NEW n \in Nat
  PROVE  Cardinality(Span(first, n)) = n
<1>1. first \in Int /\ first + n - 1 \in Int
  OBVIOUS
<1>2. Cardinality(first..(first + n - 1))
      = IF first > first + n - 1 THEN 0 ELSE (first + n - 1) - first + 1
  BY <1>1, FS_Interval
<1> QED
  BY <1>2 DEF Span

LEMMA WordsDivide == ASSUME NEW k \in Nat PROVE (WORD * k) \div WORD = k
<1>1. WORD * k = WORD * k + 0 /\ WORD * k \in Nat /\ 0 < WORD
  BY Products, WordAssumption
<1> QED
  BY <1>1, WordAssumption, DivisionUnique

LEMMA HealthInvariant == Spec => []HealthInv
<1>1. Init => HealthInv
  BY DEF Init, HealthInv
<1>2. HealthInv /\ [Next]_vars => HealthInv'
  BY DEF HealthInv, Next, ThrowAway, FailAndRetry, Deliver, FailAndGiveUp, Return,
         Returned, vars
<1> QED
  BY <1>1, <1>2, PTL DEF Spec

(* The steps of generate() take a call of the library for one of the sets  *)
(* of bytes in Fills.  That is what the library's retry loops do: with a   *)
(* generator that may fail any of the partial fills, and the whole request *)
(* with a healthy one.                                                     *)
THEOREM FillsAreServed == Spec => []ServesGenerate
<1>1. BaseInv /\ FillInv /\ ReportInv /\ HealthInv /\ FillsWhenHealthy => ServesGenerate
  <2> SUFFICES ASSUME BaseInv, FillInv, ReportInv, HealthInv, FillsWhenHealthy, result # Running
               PROVE  /\ (call.fn = "get_bytes" /\ call.count < UINT_RANGE)
                         => /\ DOMAIN mem \in Fills(call.fn, call.first, call.count)
                            /\ result = Cardinality(DOMAIN mem)
                      /\ \A size \in Nat :
                           (call.fn \in Reseeds /\ size \div WORD = call.count)
                           => /\ DOMAIN mem \in Fills(call.fn, call.first, size)
                              /\ result * WORD = Cardinality(DOMAIN mem)
    BY DEF ServesGenerate
  <2>1. /\ call.first \in Nat /\ call.count \in Nat
        /\ call.fn \notin {"get_bytes", "fwrite"} => call.count < UINT_RANGE
    BY CallsAssumption DEF BaseInv, PartsInv
  <2>2. FilledBy(Parts(call), DOMAIN mem)
    BY DEF FillInv
  <2>3. ASSUME ~HwMayFail, call.count < UINT_RANGE, call.fn # "uint16_array"
        PROVE  DOMAIN mem = Span(call.first, call.count * Unit(call.fn))
    <3>1. Reached(call) = Asked(call)
      BY <2>3, AllReached DEF BaseInv, PartsInv
    <3> QED
      BY <2>3, <3>1 DEF HealthInv, FillsWhenHealthy, Asked
  <2>4. ASSUME call.fn = "get_bytes", call.count < UINT_RANGE
        PROVE  DOMAIN mem \in Fills(call.fn, call.first, call.count)
    <3>1. CASE HwMayFail
      <4>1. Parts(call) = GetBytesParts(call.first, call.count)
        BY <2>4 DEF Parts, Arrays, Singles, Reseeds
      <4>2. DOMAIN mem \in GetBytesFills(call.first, call.count)
        BY <2>1, <2>2, <4>1, OutcomeOfGetBytes
      <4> QED
        BY <2>4, <3>1, <4>2 DEF Fills
    <3>2. CASE ~HwMayFail
      <4>1. call.count * Unit(call.fn) = call.count
        BY <2>1, <2>4 DEF Unit
      <4>2. DOMAIN mem = Span(call.first, call.count)
        BY <2>3, <2>4, <3>2, <4>1
      <4> QED
        BY <2>4, <3>2, <4>2 DEF Fills
    <3> QED
      BY <3>1, <3>2
  <2>5. ASSUME NEW size \in Nat, call.fn \in Reseeds, size \div WORD = call.count
        PROVE  DOMAIN mem \in Fills(call.fn, call.first, size)
    <3>1. call.fn # "get_bytes" /\ call.fn # "uint16_array" /\ call.count < UINT_RANGE
      BY <2>1, <2>5 DEF Reseeds
    <3>2. CASE HwMayFail
      <4>1. Parts(call) = Part(call.first, call.count, WORD, 1)
        BY <2>5 DEF Parts, Arrays, Singles, Reseeds
      <4>2. WORD \in 0..WORD /\ 1 \in 1..3
        BY WordAssumption
      <4>3. DOMAIN mem \in Prefixes(call.first, call.count, WORD)
        BY <2>1, <2>2, <4>1, <4>2, FillOfPart
      <4>4. DOMAIN mem \in Uint64ArrayFills(call.first, size \div WORD)
        BY <2>5, <4>3 DEF Prefixes, Uint64ArrayFills
      <4> QED
        BY <3>1, <3>2, <4>4 DEF Fills
    <3>3. CASE ~HwMayFail
      <4>1. call.count * Unit(call.fn) = WORD * call.count
        BY <2>1, <2>5, WordAssumption DEF Unit, Reseeds
      <4>2. DOMAIN mem = Span(call.first, WORD * call.count)
        BY <2>3, <3>1, <3>3, <4>1
      <4> QED
        BY <2>5, <3>1, <3>3, <4>2 DEF Fills
    <3> QED
      BY <3>2, <3>3
  <2>6. /\ generated \in Nat /\ generated = Cardinality(DOMAIN mem)
        /\ call.fn \notin Singles => result = generated \div Unit(call.fn)
    BY DEF BaseInv, CountInv, FillInv, ReportInv, Reported
  <2>7. ASSUME call.fn = "get_bytes"
        PROVE  result = Cardinality(DOMAIN mem)
    <3>1. Unit(call.fn) = 1 /\ call.fn \notin Singles
      BY <2>7 DEF Unit, Singles
    <3> QED
      BY <2>6, <3>1
  <2>8. ASSUME call.fn \in Reseeds
        PROVE  result * WORD = Cardinality(DOMAIN mem)
    <3>1. Unit(call.fn) = WORD /\ call.fn \notin Singles
      BY <2>8 DEF Unit, Singles, Reseeds
    <3>2. DOMAIN mem \in Prefixes(call.first, call.count, WORD)
      <4>1. Parts(call) = Part(call.first, call.count, WORD, 1)
        BY <2>8 DEF Parts, Arrays, Singles, Reseeds
      <4>2. WORD \in 0..WORD /\ 1 \in 1..3
        BY WordAssumption
      <4> QED
        BY <2>1, <2>2, <4>1, <4>2, FillOfPart
    <3>3. PICK k \in Nat : DOMAIN mem = Span(call.first, WORD * k)
      BY <2>1, <3>2 DEF Prefixes
    <3>4. WORD * k \in Nat /\ WORD * k = k * WORD
      BY Products, WordAssumption
    <3>5. generated = WORD * k
      BY <2>1, <2>6, <3>3, <3>4, SpanSize
    <3>6. generated \div WORD = k
      BY <2>6, <3>5, WordAssumption, WordsDivide
    <3> QED
      BY <2>6, <3>1, <3>4, <3>5, <3>6
  <2> QED
    BY <2>4, <2>5, <2>7, <2>8
<1> QED
  BY <1>1, BaseInvariant, FillInvariant, ReportInvariant, HealthInvariant,
     HealthyCallsFill, PTL
=============================================================================
