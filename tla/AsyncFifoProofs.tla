-------------------------- MODULE AsyncFifoProofs --------------------------
(***************************************************************************)
(* The asynchronous FIFO bit by bit, for every width of its pointers: the  *)
(* tests of the codes are those of the pointers, every code caught is that *)
(* of some pointer, and so the FIFO implements the one on pointers and     *)
(* with it a bounded queue.                                                *)
(***************************************************************************)
EXTENDS AsyncFifo, FiniteSetTheorems, WellFoundedInduction, TLAPS

(* Induction over 0 .. n without an operator: a set that contains 0 and    *)
(* with a number the next contains all.                                    *)
LEMMA UpFrom ==
  ASSUME NEW n \in Nat, NEW S, 0 \in S, \A i \in 0 .. n - 1 : i \in S => i + 1 \in S
  PROVE  0 .. n \subseteq S
<1> DEFINE R == OpToRel(<, Nat)
           T == (0 .. n) \ S
<1>1. IsWellFoundedOn(R, Nat)
  BY NatLessThanWellFounded
<1>2. SUFFICES ASSUME T # {} PROVE FALSE
  OBVIOUS
<1>3. T \subseteq Nat
  OBVIOUS
<1>4. \E m \in T : \A y \in T : ~(<<y, m>> \in R)
  <2> HIDE DEF R, T
  <2> QED
    BY <1>1, <1>2, <1>3, WFMin
<1>5. PICK m \in T : \A y \in T : ~(<<y, m>> \in R)
  BY <1>4
<1>6. m \in 0 .. n /\ m \notin S /\ m # 0
  OBVIOUS
<1>7. m - 1 \in 0 .. n - 1 /\ (m - 1) + 1 = m /\ m - 1 \in 0 .. n
  BY <1>6
<1>8. <<m - 1, m>> \in R
  BY <1>6, <1>7 DEF OpToRel
<1>9. m - 1 \in S
  <2> HIDE DEF R
  <2> QED
    BY <1>5, <1>7, <1>8
<1> QED
  BY <1>6, <1>7, <1>9

(* The same from n down.                                                   *)
LEMMA DownFrom ==
  ASSUME NEW n \in Nat, NEW S, n \in S, \A i \in 0 .. n - 1 : i + 1 \in S => i \in S
  PROVE  0 .. n \subseteq S
<1> DEFINE T == {i \in 0 .. n : n - i \in S}
<1>1. 0 \in T
  OBVIOUS
<1>2. ASSUME NEW i \in 0 .. n - 1, i \in T PROVE i + 1 \in T
  <2>1. n - i - 1 \in 0 .. n - 1 /\ (n - i - 1) + 1 = n - i /\ n - (i + 1) = n - i - 1
    OBVIOUS
  <2> QED
    BY <1>2, <2>1
<1>3. 0 .. n \subseteq T
  <2> HIDE DEF T
  <2> QED
    BY <1>1, <1>2, UpFrom
<1>4. ASSUME NEW i \in 0 .. n PROVE i \in S
  <2>1. n - i \in 0 .. n /\ n - (n - i) = i
    OBVIOUS
  <2> QED
    BY <1>3, <2>1
<1> QED
  BY <1>4

-----------------------------------------------------------------------------
(* Powers of two and the bits of a number.                                 *)

(* The subsets of 1 .. n + 1 are twice those of 1 .. n.                    *)
LEMMA TwoPower ==
  ASSUME NEW n \in Nat
  PROVE  2^n \in Nat \ {0} /\ 2^(n + 1) = 2 * 2^n
<1> DEFINE S(k) == SUBSET (1 .. k)
           F == [x \in S(n) |-> x \cup {n + 1}]
           W == {x \cup {n + 1} : x \in S(n)}
<1>1. \A k \in Nat : /\ IsFiniteSet(1 .. k) /\ Cardinality(1 .. k) = k
                     /\ IsFiniteSet(S(k)) /\ Cardinality(S(k)) = 2^k
  <2> TAKE k \in Nat
  <2>1. IsFiniteSet(1 .. k) /\ Cardinality(1 .. k) = k
    BY FS_Interval
  <2> QED
    BY <2>1, FS_SUBSET
<1>2. \A k \in Nat : 2^k \in Nat
  BY <1>1, FS_CardinalityType
<1>3. F \in Bijection(S(n), W)
  <2>1. F \in [S(n) -> W]
    OBVIOUS
  <2>2. ASSUME NEW x \in S(n), NEW y \in S(n), F[x] = F[y] PROVE x = y
    <3>1. n + 1 \notin x /\ n + 1 \notin y
      OBVIOUS
    <3>2. x \cup {n + 1} = y \cup {n + 1}
      BY <2>2
    <3> QED
      BY <3>1, <3>2
  <2>3. \A w \in W : \E x \in S(n) : F[x] = w
    OBVIOUS
  <2> QED
    BY <2>1, <2>2, <2>3 DEF Bijection, Injection, Surjection, IsInjective
<1>4. IsFiniteSet(W) /\ Cardinality(W) = 2^n
  <2>1. IsFiniteSet(S(n)) /\ Cardinality(S(n)) = 2^n
    BY <1>1
  <2> HIDE DEF S, F, W
  <2> QED
    BY <1>3, <2>1, FS_Bijection DEF ExistsBijection
<1>5. S(n + 1) = S(n) \cup W
  <2>1. ASSUME NEW x \in S(n) PROVE x \in S(n + 1) /\ x \cup {n + 1} \in S(n + 1)
    <3>1. 1 .. n \subseteq 1 .. n + 1 /\ n + 1 \in 1 .. n + 1
      OBVIOUS
    <3> QED
      BY <3>1
  <2>2. ASSUME NEW x \in S(n + 1), n + 1 \in x PROVE x \in W
    <3>1. x \ {n + 1} \in S(n)
      OBVIOUS
    <3>2. x = (x \ {n + 1}) \cup {n + 1}
      BY <2>2
    <3> QED
      BY <3>1, <3>2
  <2>3. ASSUME NEW x \in S(n + 1), n + 1 \notin x PROVE x \in S(n)
    BY <2>3
  <2>4. \A w \in W : \E x \in S(n) : w = x \cup {n + 1}
    OBVIOUS
  <2>5. S(n) \cup W \subseteq S(n + 1)
    <3>1. ASSUME NEW w \in W PROVE w \in S(n + 1)
      <4>1. PICK x \in S(n) : w = x \cup {n + 1}
        BY <2>4
      <4>2. x \cup {n + 1} \in S(n + 1)
        BY <2>1
      <4> QED
        BY <4>1, <4>2
    <3>2. \A x \in S(n) : x \in S(n + 1)
      BY <2>1, Zenon
    <3> HIDE DEF S, W
    <3> QED
      BY <3>1, <3>2
  <2> HIDE DEF S, W
  <2> QED
    BY <2>2, <2>3, <2>5
<1>6. S(n) \cap W = {}
  <2>1. \A x \in S(n) : n + 1 \notin x
    OBVIOUS
  <2> QED
    BY <2>1
<1>7. Cardinality(S(n) \cup W) = 2^n + 2^n
  <2>1. IsFiniteSet(S(n)) /\ Cardinality(S(n)) = 2^n
    BY <1>1
  <2> HIDE DEF S, W
  <2>2. Cardinality(S(n) \cup W) =
          Cardinality(S(n)) + Cardinality(W) - Cardinality(S(n) \cap W)
    BY <1>4, <2>1, FS_Union
  <2>3. Cardinality(S(n) \cap W) = 0
    BY <1>6, FS_EmptySet
  <2>4. 2^n \in Nat
    BY <1>2
  <2> QED
    BY <1>4, <2>1, <2>2, <2>3, <2>4
<1>8. 2^(n + 1) = 2 * 2^n
  <2>1. n + 1 \in Nat /\ 2^n \in Nat
    BY <1>2
  <2> HIDE DEF S, W
  <2>2. Cardinality(S(n + 1)) = 2^(n + 1)
    BY <1>1, <2>1
  <2>3. 2^(n + 1) = 2^n + 2^n
    BY <1>5, <1>7, <2>2, Zenon
  <2>4. \A k \in Nat : k + k = 2 * k
    OBVIOUS
  <2> QED
    BY <2>1, <2>3, <2>4, Zenon
<1>9. 2^n # 0
  <2>1. {} \in S(n) /\ IsFiniteSet(S(n)) /\ Cardinality(S(n)) = 2^n
    BY <1>1
  <2> HIDE DEF S
  <2> QED
    BY <2>1, FS_EmptySet
<1> QED
  BY <1>2, <1>8, <1>9

(* A number without its lowest i bits.                                     *)
Shr(p, i) == p \div 2^i

(* Without one bit more it is half of that, and bit i is its lowest.       *)
LEMMA ShrFacts ==
  ASSUME NEW p \in Nat, NEW i \in Nat
  PROVE  /\ Shr(p, 0) = p
         /\ Shr(p, i) \in Nat
         /\ Shr(p, i + 1) = Shr(p, i) \div 2
         /\ p < 2^i => Shr(p, i) = 0
         /\ Bit(p, i) <=> Shr(p, i) % 2 = 1
<1> DEFINE m == 2^i
<1>1. m \in Nat \ {0} /\ 2^(i + 1) = 2 * m
  BY TwoPower
<1>2. 2^0 = 1
  OBVIOUS
<1>3. /\ p \div m \in Nat /\ p \div (2 * m) = (p \div m) \div 2
      /\ p < m => p \div m = 0
  <2> HIDE DEF m
  <2> QED
    BY <1>1
<1> QED
  BY <1>1, <1>2, <1>3 DEF Shr, Bit

(* The pointers are the numbers of ADDR_WIDTH + 1 bits.                    *)
LEMMA PointerSize ==
  /\ ADDR_WIDTH \in Nat /\ ADDR_WIDTH >= 2 /\ FIFO_DEPTH \in Nat \ {0}
  /\ FIFO_DEPTH = 2^ADDR_WIDTH /\ 2^(ADDR_WIDTH + 1) = 2 * FIFO_DEPTH
  /\ Pointers(FIFO_DEPTH) = 0 .. 2 * FIFO_DEPTH - 1
  /\ Pointers(FIFO_DEPTH) \subseteq Nat
  BY AddrAssumption, FifoAssumption, TwoPower DEF Pointers

(* Above its top bit a pointer has nothing.                                *)
LEMMA PointerTop ==
  ASSUME NEW p \in Pointers(FIFO_DEPTH)
  PROVE  Shr(p, ADDR_WIDTH + 1) = 0 /\ ~Bit(p, ADDR_WIDTH + 1)
<1>1. p \in Nat /\ ADDR_WIDTH + 1 \in Nat /\ p < 2^(ADDR_WIDTH + 1)
  BY PointerSize
<1> QED
  BY <1>1, ShrFacts

(* The bits of a pointer determine it.                                     *)
LEMMA BitsDetermine ==
  ASSUME NEW p \in Pointers(FIFO_DEPTH), NEW q \in Pointers(FIFO_DEPTH),
         \A i \in Bits : Bit(p, i) <=> Bit(q, i)
  PROVE  p = q
<1> DEFINE n == ADDR_WIDTH + 1
           S == {i \in 0 .. n : Shr(p, i) = Shr(q, i)}
<1>1. p \in Nat /\ q \in Nat /\ n \in Nat /\ n - 1 = ADDR_WIDTH
  BY PointerSize
<1>2. n \in S
  BY <1>1, PointerTop
<1>3. ASSUME NEW i \in 0 .. n - 1, i + 1 \in S PROVE i \in S
  <2>1. Shr(p, i + 1) = Shr(q, i + 1)
    BY <1>3
  <2>2. /\ Shr(p, i) \in Nat /\ Shr(p, i + 1) = Shr(p, i) \div 2
        /\ Bit(p, i) <=> Shr(p, i) % 2 = 1
        /\ Shr(q, i) \in Nat /\ Shr(q, i + 1) = Shr(q, i) \div 2
        /\ Bit(q, i) <=> Shr(q, i) % 2 = 1
    BY <1>1, ShrFacts
  <2>3. Bit(p, i) <=> Bit(q, i)
    BY <1>1 DEF Bits
  <2>4. Shr(p, i) = Shr(q, i)
    BY <2>1, <2>2, <2>3
  <2> QED
    BY <1>1, <2>4
<1>4. 0 \in S
  <2> HIDE DEF S, n
  <2> QED
    BY <1>1, <1>2, <1>3, DownFrom
<1> QED
  BY <1>1, <1>4, ShrFacts

(* The bits of a Gray code determine those of its pointer, from the top.   *)
LEMMA GrayDetermines ==
  ASSUME NEW p \in Pointers(FIFO_DEPTH), NEW q \in Pointers(FIFO_DEPTH),
         \A i \in Bits : (Bit(p, i) # Bit(p, i + 1)) = (Bit(q, i) # Bit(q, i + 1))
  PROVE  p = q
<1> DEFINE n == ADDR_WIDTH + 1
           S == {i \in 0 .. n : Bit(p, i) <=> Bit(q, i)}
<1>1. n \in Nat /\ n - 1 = ADDR_WIDTH
  BY PointerSize
<1>2. n \in S
  BY <1>1, PointerTop
<1>3. ASSUME NEW i \in 0 .. n - 1, i + 1 \in S PROVE i \in S
  <2>1. i \in Bits /\ i \in 0 .. n
    BY <1>1 DEF Bits
  <2>2. Bit(p, i + 1) <=> Bit(q, i + 1)
    BY <1>3
  <2>3. (Bit(p, i) # Bit(p, i + 1)) = (Bit(q, i) # Bit(q, i + 1))
    BY <2>1
  <2>4. \A j : Bit(p, j) \in BOOLEAN /\ Bit(q, j) \in BOOLEAN
    BY DEF Bit
  <2>5. Bit(p, i) <=> Bit(q, i)
    BY <2>2, <2>3, <2>4
  <2> QED
    BY <2>1, <2>5
<1>4. 0 .. n \subseteq S
  <2> HIDE DEF S, n
  <2> QED
    BY <1>1, <1>2, <1>3, DownFrom
<1>5. \A i \in Bits : i \in S
  BY <1>1, <1>4 DEF Bits
<1> QED
  BY <1>5, BitsDetermine

(* The Gray code of a pointer is a code, and no other pointer has it.      *)
LEMMA GrayFacts ==
  /\ \A p \in Pointers(FIFO_DEPTH) :
       Gray[p] = [i \in Bits |-> Bit(p, i) # Bit(p, i + 1)] /\ Gray[p] \in GrayCodes
  /\ \A p, q \in Pointers(FIFO_DEPTH) : Gray[p] = Gray[q] => p = q
<1>1. ASSUME NEW p \in Pointers(FIFO_DEPTH)
      PROVE  /\ Gray[p] = [i \in Bits |-> Bit(p, i) # Bit(p, i + 1)]
             /\ Gray[p] \in GrayCodes
  BY DEF Gray, GrayCodes
<1>2. ASSUME NEW p \in Pointers(FIFO_DEPTH), NEW q \in Pointers(FIFO_DEPTH),
             Gray[p] = Gray[q]
      PROVE  p = q
  <2>1. \A i \in Bits : /\ Gray[p][i] = (Bit(p, i) # Bit(p, i + 1))
                        /\ Gray[q][i] = (Bit(q, i) # Bit(q, i + 1))
    BY <1>1
  <2>2. \A i \in Bits : (Bit(p, i) # Bit(p, i + 1)) = (Bit(q, i) # Bit(q, i + 1))
    BY <1>2, <2>1
  <2> QED
    BY <2>2, GrayDetermines
<1> QED
  BY <1>1, <1>2

(* What the flags decode is the pointer that was encoded.                  *)
LEMMA Decoded ==
  ASSUME NEW p \in Pointers(FIFO_DEPTH)
  PROVE  GrayToBin[Gray[p]] = p
<1> DEFINE g == Gray[p]
           Fits(q) == \A i \in Bits : Bit(q, i) = (Bit(q, i + 1) # g[i])
<1>1. g \in GrayCodes /\ \A i \in Bits : g[i] = (Bit(p, i) # Bit(p, i + 1))
  <2>1. g = [i \in Bits |-> Bit(p, i) # Bit(p, i + 1)] /\ g \in GrayCodes
    BY GrayFacts
  <2> HIDE DEF g
  <2> QED
    BY <2>1
<1>2. GrayToBin[g] = CHOOSE q \in Pointers(FIFO_DEPTH) : Fits(q)
  BY <1>1 DEF GrayToBin
<1>3. \A q, j : Bit(q, j) \in BOOLEAN
  BY DEF Bit
<1>4. Fits(p)
  BY <1>1, <1>3
<1>5. ASSUME NEW q \in Pointers(FIFO_DEPTH), Fits(q) PROVE q = p
  <2>1. \A i \in Bits : (Bit(p, i) # Bit(p, i + 1)) = (Bit(q, i) # Bit(q, i + 1))
    BY <1>1, <1>3, <1>5
  <2> QED
    BY <2>1, GrayDetermines
<1> QED
  <2> HIDE DEF Fits
  <2> QED
    BY <1>2, <1>4, <1>5

(* There are as many pointers as there are choices of bits, so what tells  *)
(* pointers apart by bits has a pointer for each choice.                   *)
LEMMA AllReached ==
  ASSUME NEW F \in [Pointers(FIFO_DEPTH) -> SUBSET Bits],
         \A p, q \in Pointers(FIFO_DEPTH) : F[p] = F[q] => p = q,
         NEW b \in SUBSET Bits
  PROVE  \E p \in Pointers(FIFO_DEPTH) : F[p] = b
<1>1. F \in Injection(Pointers(FIFO_DEPTH), SUBSET Bits)
  BY DEF Injection, IsInjective
<1>2. IsFiniteSet(SUBSET Bits) /\ Cardinality(SUBSET Bits) = 2 * FIFO_DEPTH
  <2>1. IsFiniteSet(Bits) /\ Cardinality(Bits) = ADDR_WIDTH + 1
    <3>1. ADDR_WIDTH \in Nat /\ 0 \in Int /\ ADDR_WIDTH \in Int /\ ~(0 > ADDR_WIDTH)
      BY PointerSize
    <3> QED
      BY <3>1, FS_Interval DEF Bits
  <2> QED
    BY <2>1, FS_SUBSET, PointerSize
<1>3. Cardinality(Pointers(FIFO_DEPTH)) = 2 * FIFO_DEPTH
  BY PointerSize, FS_Interval
<1>4. F \in Surjection(Pointers(FIFO_DEPTH), SUBSET Bits)
  BY <1>1, <1>2, <1>3, FS_Injection
<1> QED
  BY <1>4 DEF Surjection

(* Every choice of bits belongs to a pointer.                              *)
LEMMA BitsReached ==
  ASSUME NEW b \in SUBSET Bits
  PROVE  \E p \in Pointers(FIFO_DEPTH) : \A i \in Bits : Bit(p, i) <=> i \in b
<1> DEFINE F == [p \in Pointers(FIFO_DEPTH) |-> {i \in Bits : Bit(p, i)}]
<1>1. F \in [Pointers(FIFO_DEPTH) -> SUBSET Bits]
  OBVIOUS
<1>2. ASSUME NEW p \in Pointers(FIFO_DEPTH), NEW q \in Pointers(FIFO_DEPTH), F[p] = F[q]
      PROVE  p = q
  <2>1. {i \in Bits : Bit(p, i)} = {i \in Bits : Bit(q, i)}
    BY <1>2
  <2>2. \A i \in Bits : Bit(p, i) <=> Bit(q, i)
    BY <2>1
  <2> QED
    BY <2>2, BitsDetermine
<1>3. PICK p \in Pointers(FIFO_DEPTH) : F[p] = b
  <2> HIDE DEF F
  <2> QED
    BY <1>1, <1>2, AllReached
<1> QED
  BY <1>3

(* And so does every code, namely to the pointer it decodes to.            *)
LEMMA CodeFacts ==
  ASSUME NEW g \in GrayCodes
  PROVE  GrayToBin[g] \in Pointers(FIFO_DEPTH) /\ Gray[GrayToBin[g]] = g
<1> DEFINE F == [p \in Pointers(FIFO_DEPTH) |-> {i \in Bits : Gray[p][i]}]
           b == {i \in Bits : g[i]}
<1>1. F \in [Pointers(FIFO_DEPTH) -> SUBSET Bits]
  OBVIOUS
<1>2. \A p \in Pointers(FIFO_DEPTH) : Gray[p] \in [Bits -> BOOLEAN]
  BY GrayFacts DEF GrayCodes
<1>3. \A u, v \in [Bits -> BOOLEAN] : {i \in Bits : u[i]} = {i \in Bits : v[i]} => u = v
  <2> SUFFICES ASSUME NEW u \in [Bits -> BOOLEAN], NEW v \in [Bits -> BOOLEAN],
                      {i \in Bits : u[i]} = {i \in Bits : v[i]}
               PROVE  u = v
    OBVIOUS
  <2>1. \A i \in Bits : u[i] = v[i]
    OBVIOUS
  <2> QED
    BY <2>1
<1>4. \A p, q \in Pointers(FIFO_DEPTH) : F[p] = F[q] => p = q
  BY <1>2, <1>3, GrayFacts
<1>5. PICK p \in Pointers(FIFO_DEPTH) : F[p] = b
  <2>1. b \in SUBSET Bits
    OBVIOUS
  <2> HIDE DEF F, b
  <2> QED
    BY <1>1, <1>4, <2>1, AllReached
<1>6. Gray[p] = g
  BY <1>2, <1>3, <1>5 DEF GrayCodes
<1> QED
  BY <1>6, Decoded

(* What is caught of a pointer is the code of a pointer: of the pointer    *)
(* itself if it stays, of the old or the new one if all bits arrive        *)
(* together, and of the one with the bits that were there otherwise.       *)
LEMMA SampledPointer ==
  ASSUME NEW p \in Pointers(FIFO_DEPTH), NEW q \in Pointers(FIFO_DEPTH),
         NEW s \in Sampled(p, q)
  PROVE  \E m \in P!Caught(p, q) : s = Gray[m]
<1>1. PICK new \in IF SKEW THEN SUBSET Bits ELSE {{}, Bits} :
        s = [i \in Bits |-> Bit(IF i \in new THEN q ELSE p, i)
                            # Bit(IF i + 1 \in new THEN q ELSE p, i + 1)]
  BY DEF Sampled
<1> DEFINE b == {i \in Bits : Bit(IF i \in new THEN q ELSE p, i)}
<1>2. PICK m \in Pointers(FIFO_DEPTH) : \A i \in Bits : Bit(m, i) <=> i \in b
  BY BitsReached
<1>3. ASSUME NEW i \in Bits
      PROVE  /\ Bit(m, i) = Bit(IF i \in new THEN q ELSE p, i)
             /\ Bit(m, i + 1) = Bit(IF i + 1 \in new THEN q ELSE p, i + 1)
  <2>1. \A r, j : Bit(r, j) \in BOOLEAN
    BY DEF Bit
  <2>2. \A j \in Bits : Bit(m, j) = Bit(IF j \in new THEN q ELSE p, j)
    BY <1>2, <2>1
  <2>3. CASE i + 1 \in Bits
    BY <2>2, <2>3
  <2>4. CASE i + 1 \notin Bits
    <3>1. i + 1 = ADDR_WIDTH + 1
      BY <2>4, PointerSize DEF Bits
    <3>2. ~Bit(m, i + 1) /\ ~Bit(p, i + 1) /\ ~Bit(q, i + 1)
      BY <3>1, PointerTop
    <3> QED
      BY <2>1, <2>2, <3>2
  <2> QED
    BY <2>3, <2>4
<1>4. s = Gray[m]
  BY <1>1, <1>3, GrayFacts
<1>5. new = {} => m = p
  BY <1>3, BitsDetermine
<1>6. new = Bits => m = q
  BY <1>3, BitsDetermine
<1>7. p = q => m = p
  BY <1>3, BitsDetermine
<1>8. m \in P!Caught(p, q)
  BY <1>1, <1>2, <1>5, <1>6, <1>7 DEF P!Caught, P!Ptrs, Pointers, P!Pointers
<1> QED
  BY <1>4, <1>8

(* FIFO_DEPTH more is one bit more: the top one.                           *)
LEMMA TopBit ==
  ASSUME NEW p \in Nat, NEW i \in Bits, p < FIFO_DEPTH
  PROVE  Bit(p + FIFO_DEPTH, i) = IF i = ADDR_WIDTH THEN ~Bit(p, i) ELSE Bit(p, i)
<1> DEFINE n == ADDR_WIDTH
           S == {k \in 0 .. n : Shr(p + FIFO_DEPTH, k) = Shr(p, k) + 2^(n - k)}
<1>1. n \in Nat /\ FIFO_DEPTH \in Nat /\ p + FIFO_DEPTH \in Nat /\ FIFO_DEPTH = 2^n
  BY PointerSize
<1>2. 0 \in S
  <2>1. Shr(p, 0) = p /\ Shr(p + FIFO_DEPTH, 0) = p + FIFO_DEPTH
    BY <1>1, ShrFacts
  <2>2. n - 0 = n /\ 0 \in 0 .. n
    BY <1>1
  <2> QED
    BY <1>1, <2>1, <2>2
<1>3. \A k \in 0 .. n : k # n => /\ k + 1 \in 0 .. n /\ n - (k + 1) \in Nat
                                 /\ 2^(n - k) = 2 * 2^(n - (k + 1))
                                 /\ 2^(n - (k + 1)) \in Nat
  <2> TAKE k \in 0 .. n
  <2> HAVE k # n
  <2>1. n - (k + 1) \in Nat /\ n - k = (n - (k + 1)) + 1 /\ k + 1 \in 0 .. n
    BY <1>1
  <2> QED
    BY <2>1, TwoPower
<1>4. \A k \in 0 .. n :
        /\ Shr(p, k) \in Nat /\ Shr(p, k + 1) = Shr(p, k) \div 2
        /\ Bit(p, k) = (Shr(p, k) % 2 = 1)
        /\ Shr(p + FIFO_DEPTH, k) \in Nat
        /\ Shr(p + FIFO_DEPTH, k + 1) = Shr(p + FIFO_DEPTH, k) \div 2
        /\ Bit(p + FIFO_DEPTH, k) = (Shr(p + FIFO_DEPTH, k) % 2 = 1)
  <2> TAKE k \in 0 .. n
  <2>1. k \in Nat
    BY <1>1
  <2> QED
    BY <1>1, <2>1, ShrFacts DEF Shr, Bit
<1>5. ASSUME NEW k \in 0 .. n - 1, k \in S PROVE k + 1 \in S
  <2>1. k \in 0 .. n /\ k # n
    BY <1>1
  <2> DEFINE m == 2^(n - (k + 1))
             a == Shr(p, k)
  <2>2. m \in Nat /\ k + 1 \in 0 .. n /\ 2^(n - k) = 2 * m
    BY <1>3, <2>1
  <2>3. Shr(p + FIFO_DEPTH, k) = a + 2 * m
    BY <1>5, <2>2
  <2>4. a \in Nat /\ (a + 2 * m) \div 2 = (a \div 2) + m
    <3>1. a \in Nat
      BY <1>4, <2>1
    <3> HIDE DEF a, m
    <3> QED
      BY <2>2, <3>1
  <2>5. Shr(p + FIFO_DEPTH, k + 1) = Shr(p, k + 1) + m
    BY <1>4, <2>1, <2>3, <2>4
  <2> QED
    BY <2>2, <2>5
<1>6. i \in S
  <2>1. i \in 0 .. n
    BY DEF Bits
  <2> HIDE DEF S, n
  <2> QED
    BY <1>1, <1>2, <1>5, <2>1, UpFrom
<1>7. i \in 0 .. n
  BY DEF Bits
<1>8. CASE i = n
  <2>1. 2^(n - i) = 1
    BY <1>1, <1>8
  <2>2. Shr(p, i) = 0
    BY <1>1, <1>8, ShrFacts
  <2>3. Shr(p + FIFO_DEPTH, i) = 1
    BY <1>6, <2>1, <2>2
  <2>4. /\ Bit(p, i) = (Shr(p, i) % 2 = 1)
        /\ Bit(p + FIFO_DEPTH, i) = (Shr(p + FIFO_DEPTH, i) % 2 = 1)
    BY <1>4, <1>7
  <2>5. 1 % 2 = 1 /\ 0 % 2 # 1
    OBVIOUS
  <2> QED
    BY <1>8, <2>2, <2>3, <2>4, <2>5
<1>9. CASE i # n
  <2> DEFINE m == 2^(n - (i + 1))
             a == Shr(p, i)
  <2>1. m \in Nat /\ 2^(n - i) = 2 * m
    BY <1>3, <1>7, <1>9
  <2>2. a \in Nat /\ (a + 2 * m) % 2 = a % 2
    <3>1. a \in Nat
      BY <1>4, <1>7
    <3> HIDE DEF a, m
    <3> QED
      BY <2>1, <3>1
  <2>3. Shr(p + FIFO_DEPTH, i) = a + 2 * m
    BY <1>6, <2>1
  <2>4. Bit(p + FIFO_DEPTH, i) = Bit(p, i)
    BY <1>4, <1>7, <2>2, <2>3
  <2> QED
    BY <1>9, <2>4
<1> QED
  BY <1>8, <1>9

(* The full test of the codes is that of the pointers: Gray codes that     *)
(* differ in the upper two bits belong to the same slot of two turns.      *)
LEMMA FullOfCodes ==
  ASSUME NEW w \in Pointers(FIFO_DEPTH), NEW r \in Pointers(FIFO_DEPTH)
  PROVE  Gray[w] = [i \in Bits |-> IF i >= ADDR_WIDTH - 1 THEN ~Gray[r][i]
                                   ELSE Gray[r][i]]
         <=> w = Toggle(r, FIFO_DEPTH)
<1> DEFINE t == Toggle(r, FIFO_DEPTH)
<1>1. /\ t \in Pointers(FIFO_DEPTH) /\ r \in Nat /\ t \in Nat
      /\ \/ r < FIFO_DEPTH /\ t = r + FIFO_DEPTH
         \/ t < FIFO_DEPTH /\ r = t + FIFO_DEPTH
  BY PointerSize DEF Toggle
<1>2. \A i \in Bits : Bit(t, i) = IF i = ADDR_WIDTH THEN ~Bit(r, i) ELSE Bit(r, i)
  <2>1. CASE r < FIFO_DEPTH /\ t = r + FIFO_DEPTH
    BY <1>1, <2>1, TopBit
  <2>2. CASE t < FIFO_DEPTH /\ r = t + FIFO_DEPTH
    <3>1. \A i \in Bits : Bit(r, i) = IF i = ADDR_WIDTH THEN ~Bit(t, i) ELSE Bit(t, i)
      <4> HIDE DEF t
      <4> QED
        BY <1>1, <2>2, TopBit
    <3>2. \A q, j : Bit(q, j) \in BOOLEAN
      BY DEF Bit
    <3> HIDE DEF t
    <3> QED
      BY <3>1, <3>2
  <2> HIDE DEF t
  <2> QED
    BY <1>1, <2>1, <2>2
<1>3. \A q \in Pointers(FIFO_DEPTH) :
        /\ Gray[q] = [i \in Bits |-> Bit(q, i) # Bit(q, i + 1)]
        /\ Gray[q] \in GrayCodes
        /\ ~Bit(q, ADDR_WIDTH + 1)
  BY GrayFacts, PointerTop
<1>4. ASSUME NEW i \in Bits
      PROVE  (Bit(t, i) # Bit(t, i + 1)) =
               IF i >= ADDR_WIDTH - 1 THEN ~Gray[r][i] ELSE Gray[r][i]
  <2>1. ADDR_WIDTH \in Nat /\ i \in Nat /\ i <= ADDR_WIDTH
    BY PointerSize DEF Bits
  <2>2. Gray[r][i] = (Bit(r, i) # Bit(r, i + 1))
    BY <1>3
  <2>3. \A q, j : Bit(q, j) \in BOOLEAN
    BY DEF Bit
  <2>4. CASE i = ADDR_WIDTH
    <3>1. ~Bit(t, i + 1) /\ ~Bit(r, i + 1) /\ Bit(t, i) = ~Bit(r, i)
      BY <1>1, <1>2, <1>3, <2>4
    <3>2. i >= ADDR_WIDTH - 1
      BY <2>1, <2>4
    <3> HIDE DEF t
    <3> QED
      BY <2>2, <2>3, <3>1, <3>2
  <2>5. CASE i = ADDR_WIDTH - 1
    <3>1. i + 1 = ADDR_WIDTH /\ i + 1 \in Bits /\ i # ADDR_WIDTH /\ i >= ADDR_WIDTH - 1
      BY <2>1, <2>5 DEF Bits
    <3>2. Bit(t, i) = Bit(r, i) /\ Bit(t, i + 1) = ~Bit(r, i + 1)
      BY <1>2, <3>1
    <3> HIDE DEF t
    <3> QED
      BY <2>2, <2>3, <3>1, <3>2
  <2>6. CASE i < ADDR_WIDTH - 1
    <3>1. /\ i + 1 # ADDR_WIDTH /\ i + 1 \in Bits /\ i # ADDR_WIDTH
          /\ ~(i >= ADDR_WIDTH - 1)
      BY <2>1, <2>6 DEF Bits
    <3>2. Bit(t, i) = Bit(r, i) /\ Bit(t, i + 1) = Bit(r, i + 1)
      BY <1>2, <3>1
    <3> HIDE DEF t
    <3> QED
      BY <2>2, <2>3, <3>1, <3>2
  <2>7. i = ADDR_WIDTH \/ i = ADDR_WIDTH - 1 \/ i < ADDR_WIDTH - 1
    BY <2>1
  <2> QED
    BY <2>4, <2>5, <2>6, <2>7
<1>5. Gray[t] = [i \in Bits |-> IF i >= ADDR_WIDTH - 1 THEN ~Gray[r][i]
                                ELSE Gray[r][i]]
  <2>1. Gray[t] = [i \in Bits |-> Bit(t, i) # Bit(t, i + 1)]
    BY <1>1, <1>3
  <2> HIDE DEF t
  <2> QED
    BY <1>4, <2>1
<1> HIDE DEF t
<1>6. Gray[w] = Gray[t] <=> w = t
  BY <1>1, GrayFacts
<1> QED
  BY <1>5, <1>6 DEF t

-----------------------------------------------------------------------------
(* The flags tell of the codes what PointerFifo's tell of the pointers.    *)
LEMMA SameFlags ==
  ASSUME TypeOK
  PROVE  (Full <=> P!Full) /\ (Empty <=> P!Empty)
<1>1. /\ wrPtr \in Pointers(FIFO_DEPTH) /\ rdPtr \in Pointers(FIFO_DEPTH)
      /\ rdSync \in GrayCodes /\ wrSync \in GrayCodes
  BY DEF TypeOK
<1>2. PICK r \in Pointers(FIFO_DEPTH) : r = GrayToBin[rdSync]
  BY <1>1, CodeFacts
<1>3. Full <=> wrPtr = Toggle(r, FIFO_DEPTH)
  BY <1>1, <1>2, CodeFacts, FullOfCodes DEF Full
<1>4. Empty <=> GrayToBin[wrSync] = rdPtr
  <2>1. PICK w \in Pointers(FIFO_DEPTH) : w = GrayToBin[wrSync] /\ wrSync = Gray[w]
    BY <1>1, CodeFacts
  <2> QED
    BY <1>1, <2>1, GrayFacts DEF Empty
<1> QED
  BY <1>2, <1>3, <1>4 DEF P!Full, P!Empty, P!IsFull, P!IsEmpty, P!Toggle, Toggle

(* And so the pointers move alike.                                         *)
LEMMA SameMoves ==
  ASSUME TypeOK
  PROVE  /\ \A push \in BOOLEAN : NextWrite(push) = P!NextWrite(push)
         /\ \A pop \in BOOLEAN : NextRead(pop) = P!NextRead(pop)
  BY SameFlags DEF NextWrite, NextRead, P!NextWrite, P!NextRead, P!Succ, Succ

(* A pointer stays in its range.                                           *)
LEMMA MoveFacts ==
  ASSUME TypeOK
  PROVE  /\ \A push \in BOOLEAN : NextWrite(push) \in Pointers(FIFO_DEPTH)
         /\ \A pop \in BOOLEAN : NextRead(pop) \in Pointers(FIFO_DEPTH)
  BY PointerSize DEF TypeOK, NextWrite, NextRead, Succ

(* One step in a single form: each side ticks or keeps its registers, and  *)
(* samples the code of a pointer that PointerFifo admits.                  *)
LEMMA EdgeForm ==
  ASSUME TypeOK, [Next]_vars
  PROVE  \/ UNCHANGED vars
         \/ \E push \in BOOLEAN, pop \in BOOLEAN, d \in Data :
            /\ d \in Offered(push)
            /\ \/ WriteSide(push, d, Gray[rdPtr]) /\ UNCHANGED readVars
               \/ ReadSide(pop, Gray[wrPtr]) /\ UNCHANGED writeVars
               \/ \E r \in P!Caught(rdPtr, NextRead(pop)),
                     w \in P!Caught(wrPtr, NextWrite(push)) :
                    /\ r \in Pointers(FIFO_DEPTH) /\ w \in Pointers(FIFO_DEPTH)
                    /\ WriteSide(push, d, Gray[r]) /\ ReadSide(pop, Gray[w])
<1>1. \A push \in BOOLEAN : Offered(push) \subseteq Data
  BY FifoAssumption DEF Offered
<1>2. CASE WriteEdge
  BY <1>1, <1>2 DEF WriteEdge
<1>3. CASE ReadEdge
  BY <1>1, <1>3, FifoAssumption DEF ReadEdge, Offered
<1>4. CASE BothEdges
  <2>1. PICK push \in BOOLEAN, pop \in BOOLEAN :
          \E d \in Offered(push),
             r \in Sampled(rdPtr, NextRead(pop)), w \in Sampled(wrPtr, NextWrite(push)) :
            WriteSide(push, d, r) /\ ReadSide(pop, w)
    BY <1>4 DEF BothEdges
  <2>2. PICK d \in Offered(push),
             r \in Sampled(rdPtr, NextRead(pop)), w \in Sampled(wrPtr, NextWrite(push)) :
          WriteSide(push, d, r) /\ ReadSide(pop, w)
    BY <2>1
  <2>3. /\ wrPtr \in Pointers(FIFO_DEPTH) /\ rdPtr \in Pointers(FIFO_DEPTH)
        /\ NextRead(pop) \in Pointers(FIFO_DEPTH) /\ NextWrite(push) \in Pointers(FIFO_DEPTH)
    BY MoveFacts DEF TypeOK
  <2>4. \A p, q \in Pointers(FIFO_DEPTH) : P!Caught(p, q) \subseteq Pointers(FIFO_DEPTH)
    BY DEF P!Caught, P!Ptrs, P!Pointers, Pointers
  <2>5. PICK p \in P!Caught(rdPtr, NextRead(pop)) : r = Gray[p]
    BY <2>3, SampledPointer
  <2>6. PICK q \in P!Caught(wrPtr, NextWrite(push)) : w = Gray[q]
    BY <2>3, SampledPointer
  <2> QED
    BY <1>1, <2>2, <2>3, <2>4, <2>5, <2>6
<1> QED
  BY <1>2, <1>3, <1>4 DEF Next

(* The types hold at reset.                                                *)
LEMMA InitTypes == Init => TypeOK
<1> SUFFICES ASSUME Init PROVE TypeOK
  OBVIOUS
<1>1. 0 \in Pointers(FIFO_DEPTH)
  BY PointerSize
<1>2. Gray[0] \in GrayCodes
  BY <1>1, GrayFacts
<1> QED
  BY <1>1, <1>2, FifoAssumption DEF Init, TypeOK

(* An edge of wclk that samples a code keeps the registers of its side in  *)
(* their range, an edge of rclk those of the other.                        *)
LEMMA SidesTyped ==
  ASSUME TypeOK, NEW push \in BOOLEAN, NEW pop \in BOOLEAN, NEW d \in Data,
         NEW g \in GrayCodes
  PROVE  /\ WriteSide(push, d, g) =>
              /\ wrPtr' \in Pointers(FIFO_DEPTH) /\ {rdSync1', rdSync'} \subseteq GrayCodes
              /\ mem' \in [0 .. FIFO_DEPTH - 1 -> Data] /\ almostFull' \in BOOLEAN
         /\ ReadSide(pop, g) =>
              /\ rdPtr' \in Pointers(FIFO_DEPTH) /\ {wrSync1', wrSync'} \subseteq GrayCodes
              /\ rdData' \in Data /\ almostEmpty' \in BOOLEAN
<1>1. /\ rdPtr \in Pointers(FIFO_DEPTH) /\ rdSync1 \in GrayCodes /\ wrSync1 \in GrayCodes
      /\ mem \in [0 .. FIFO_DEPTH - 1 -> Data] /\ rdData \in Data
  BY DEF TypeOK
<1>2. mem[Slot(rdPtr, FIFO_DEPTH)] \in Data
  <2>1. Slot(rdPtr, FIFO_DEPTH) \in 0 .. FIFO_DEPTH - 1
    BY <1>1, PointerSize DEF Slot
  <2> QED
    BY <1>1, <2>1
<1>3. ASSUME WriteSide(push, d, g)
      PROVE  /\ wrPtr' \in Pointers(FIFO_DEPTH) /\ {rdSync1', rdSync'} \subseteq GrayCodes
             /\ mem' \in [0 .. FIFO_DEPTH - 1 -> Data] /\ almostFull' \in BOOLEAN
  <2>1. wrPtr' \in Pointers(FIFO_DEPTH)
    BY <1>3, MoveFacts DEF WriteSide
  <2>2. {rdSync1', rdSync'} \subseteq GrayCodes
    BY <1>1, <1>3 DEF WriteSide
  <2>3. mem' \in [0 .. FIFO_DEPTH - 1 -> Data]
    BY <1>1, <1>3 DEF WriteSide
  <2>4. almostFull' \in BOOLEAN
    BY <1>3 DEF WriteSide, NearlyFull
  <2> QED
    BY <2>1, <2>2, <2>3, <2>4
<1>4. ASSUME ReadSide(pop, g)
      PROVE  /\ rdPtr' \in Pointers(FIFO_DEPTH) /\ {wrSync1', wrSync'} \subseteq GrayCodes
             /\ rdData' \in Data /\ almostEmpty' \in BOOLEAN
  <2>1. rdPtr' \in Pointers(FIFO_DEPTH)
    BY <1>4, MoveFacts DEF ReadSide
  <2>2. {wrSync1', wrSync'} \subseteq GrayCodes
    BY <1>1, <1>4 DEF ReadSide
  <2>3. rdData' \in Data
    BY <1>1, <1>2, <1>4 DEF ReadSide
  <2>4. almostEmpty' \in BOOLEAN
    BY <1>4 DEF ReadSide, NearlyEmpty
  <2> QED
    BY <2>1, <2>2, <2>3, <2>4
<1> QED
  BY <1>3, <1>4

(* Edges of the clocks keep the types.                                     *)
LEMMA StepTypes ==
  ASSUME TypeOK, [Next]_vars
  PROVE  TypeOK'
<1> DEFINE
     WriteTyped ==
       /\ wrPtr' \in Pointers(FIFO_DEPTH) /\ {rdSync1', rdSync'} \subseteq GrayCodes
       /\ mem' \in [0 .. FIFO_DEPTH - 1 -> Data] /\ almostFull' \in BOOLEAN
     ReadTyped ==
       /\ rdPtr' \in Pointers(FIFO_DEPTH) /\ {wrSync1', wrSync'} \subseteq GrayCodes
       /\ rdData' \in Data /\ almostEmpty' \in BOOLEAN
<1>1. WriteTyped /\ ReadTyped => TypeOK'
  BY DEF TypeOK
<1>2. UNCHANGED readVars => ReadTyped
  BY DEF readVars, TypeOK
<1>3. UNCHANGED writeVars => WriteTyped
  BY DEF writeVars, TypeOK
<1>4. ASSUME NEW push \in BOOLEAN, NEW pop \in BOOLEAN, NEW d \in Data,
             NEW p \in Pointers(FIFO_DEPTH)
      PROVE  /\ WriteSide(push, d, Gray[p]) => WriteTyped
             /\ ReadSide(pop, Gray[p]) => ReadTyped
  <2>1. Gray[p] \in GrayCodes
    BY GrayFacts
  <2> QED
    BY <2>1, SidesTyped
<1>5. rdPtr \in Pointers(FIFO_DEPTH) /\ wrPtr \in Pointers(FIFO_DEPTH)
  BY DEF TypeOK
<1> HIDE DEF WriteTyped, ReadTyped
<1>6. CASE UNCHANGED vars
  BY <1>1, <1>2, <1>3, <1>6 DEF vars
<1> QED
  BY <1>1, <1>2, <1>3, <1>4, <1>5, <1>6, EdgeForm

(* The registers keep their types, whatever is caught of a pointer.        *)
THEOREM ClockTypes == Spec => []TypeOK
<1>1. TypeOK /\ [Next]_vars => TypeOK'
  BY StepTypes
<1> QED
  BY <1>1, InitTypes, PTL DEF Spec

-----------------------------------------------------------------------------
(* The reset state is one of PointerFifo.                                  *)
LEMMA InitPointers == Init => P!Init
<1> SUFFICES ASSUME Init PROVE P!Init
  OBVIOUS
<1>1. GrayToBin[Gray[0]] = 0
  BY PointerSize, Decoded
<1> QED
  BY <1>1 DEF Init, P!Init, P!MemSlots

(* A side that samples a code is a side that samples its pointer.          *)
LEMMA SidesImplement ==
  ASSUME TypeOK, NEW push \in BOOLEAN, NEW pop \in BOOLEAN, NEW d \in Data,
         NEW p \in Pointers(FIFO_DEPTH)
  PROVE  /\ WriteSide(push, d, Gray[p]) => P!WriteSide(push, d, p)
         /\ ReadSide(pop, Gray[p]) => P!ReadSide(pop, p)
<1>1. GrayToBin[Gray[p]] = p
  BY Decoded
<1>2. /\ NextWrite(push) = P!NextWrite(push) /\ NextRead(pop) = P!NextRead(pop)
      /\ Full <=> P!Full
      /\ Empty <=> P!Empty
  BY SameMoves, SameFlags
<1>3. \A q : P!Slot(q, FIFO_DEPTH) = Slot(q, FIFO_DEPTH)
  BY DEF P!Slot, Slot
<1>4. \A q, r : P!Used(q, r) = Dist(q, r, FIFO_DEPTH)
  BY DEF P!Used, P!Dist, Dist
<1>5. ASSUME WriteSide(push, d, Gray[p]) PROVE P!WriteSide(push, d, p)
  BY <1>1, <1>2, <1>3, <1>4, <1>5 DEF WriteSide, P!WriteSide, NearlyFull
<1>6. ASSUME ReadSide(pop, Gray[p]) PROVE P!ReadSide(pop, p)
  BY <1>1, <1>2, <1>3, <1>4, <1>6 DEF ReadSide, P!ReadSide, NearlyEmpty
<1> QED
  BY <1>5, <1>6

(* Every step is one of PointerFifo or leaves it as it is.                 *)
LEMMA StepPointers ==
  ASSUME TypeOK, [Next]_vars
  PROVE  [P!Next]_(P!vars)
<1>1. CASE UNCHANGED vars
  BY <1>1 DEF vars, writeVars, readVars, P!vars, P!writeVars, P!readVars
<1>2. /\ UNCHANGED readVars => UNCHANGED P!readVars
      /\ UNCHANGED writeVars => UNCHANGED P!writeVars
  BY DEF writeVars, readVars, P!writeVars, P!readVars
<1>3. rdPtr \in Pointers(FIFO_DEPTH) /\ wrPtr \in Pointers(FIFO_DEPTH)
  BY DEF TypeOK
<1>4. \A push \in BOOLEAN : P!Offered(push) = Offered(push)
  BY DEF P!Offered, Offered
<1>5. ASSUME NEW push \in BOOLEAN, NEW d \in Data,
             d \in Offered(push), WriteSide(push, d, Gray[rdPtr]), UNCHANGED readVars
      PROVE  P!Next
  BY <1>2, <1>3, <1>4, <1>5, SidesImplement DEF P!Next, P!WriteEdge
<1>6. ASSUME NEW pop \in BOOLEAN, NEW d \in Data,
             ReadSide(pop, Gray[wrPtr]), UNCHANGED writeVars
      PROVE  P!Next
  BY <1>2, <1>3, <1>6, SidesImplement DEF P!Next, P!ReadEdge
<1>7. ASSUME NEW push \in BOOLEAN, NEW pop \in BOOLEAN, NEW d \in Data,
             d \in Offered(push),
             NEW r \in P!Caught(rdPtr, NextRead(pop)),
             NEW w \in P!Caught(wrPtr, NextWrite(push)),
             r \in Pointers(FIFO_DEPTH), w \in Pointers(FIFO_DEPTH),
             WriteSide(push, d, Gray[r]), ReadSide(pop, Gray[w])
      PROVE  P!Next
  <2>1. P!WriteSide(push, d, r) /\ P!ReadSide(pop, w)
    BY <1>7, SidesImplement
  <2>2. /\ r \in P!Caught(rdPtr, P!NextRead(pop))
        /\ w \in P!Caught(wrPtr, P!NextWrite(push))
    BY SameMoves
  <2> QED
    BY <1>4, <1>7, <2>1, <2>2 DEF P!Next, P!BothEdges
<1> QED
  BY <1>1, <1>5, <1>6, <1>7, EdgeForm

(* The flags judge the pointers that the codes stand for, and what is      *)
(* caught of a pointer is the code of one: the FIFO implements             *)
(* PointerFifo, with skew and without.                                     *)
THEOREM FifoOnPointers == Spec => ImplementsPointerFifo
<1>1. TypeOK /\ [Next]_vars => [P!Next]_(P!vars)
  BY StepPointers
<1> QED
  BY <1>1, InitPointers, ClockTypes, PTL DEF Spec, ImplementsPointerFifo, P!Spec

-----------------------------------------------------------------------------
(* The theorems about PointerFifo, for the pointers that the codes stand   *)
(* for.                                                                    *)
PF == INSTANCE PointerFifoProofs WITH
        rdSeen1 <- GrayToBin[rdSync1], rdSeen <- GrayToBin[rdSync],
        wrSeen1 <- GrayToBin[wrSync1], wrSeen <- GrayToBin[wrSync]

(* The definitions of the two instances are the same.                      *)
LEMMA SameParts ==
  /\ P!Init <=> PF!Init
  /\ [P!Next]_(P!vars) <=> [PF!Next]_(PF!vars)
  /\ P!ViewsLag <=> PF!ViewsLag
  /\ P!AlmostFullInTime <=> PF!AlmostFullInTime
<1>1. P!Init <=> PF!Init
  BY DEF P!Init, PF!Init, P!MemSlots, PF!MemSlots
<1>2. /\ \A q : P!Slot(q, FIFO_DEPTH) = PF!Slot(q, FIFO_DEPTH)
      /\ \A q, r : P!Used(q, r) = PF!Used(q, r)
      /\ P!Full <=> PF!Full
      /\ P!Empty <=> PF!Empty
  BY DEF P!Slot, PF!Slot, P!Used, PF!Used, P!Dist, PF!Dist, P!Full, PF!Full, P!Empty,
         PF!Empty, P!IsFull, PF!IsFull, P!IsEmpty, PF!IsEmpty, P!Toggle, PF!Toggle
<1>3. \A push \in BOOLEAN : /\ P!NextWrite(push) = PF!NextWrite(push)
                            /\ P!NextRead(push) = PF!NextRead(push)
                            /\ P!Offered(push) = PF!Offered(push)
  BY <1>2 DEF P!NextWrite, PF!NextWrite, P!NextRead, PF!NextRead, P!Succ, PF!Succ,
              P!Offered, PF!Offered
<1>4. \A push \in BOOLEAN : \A d, s :
        /\ P!WriteSide(push, d, s) <=> PF!WriteSide(push, d, s)
        /\ P!ReadSide(push, s) <=> PF!ReadSide(push, s)
  BY <1>2, <1>3 DEF P!WriteSide, PF!WriteSide, P!ReadSide, PF!ReadSide
<1>5. /\ UNCHANGED P!readVars <=> UNCHANGED PF!readVars
      /\ UNCHANGED P!writeVars <=> UNCHANGED PF!writeVars
      /\ UNCHANGED P!vars <=> UNCHANGED PF!vars
  BY DEF P!vars, PF!vars, P!readVars, PF!readVars, P!writeVars, PF!writeVars
<1>6. /\ P!WriteEdge <=> PF!WriteEdge
      /\ P!ReadEdge <=> PF!ReadEdge
      /\ P!BothEdges <=> PF!BothEdges
  <2>1. P!WriteEdge <=> PF!WriteEdge
    BY <1>3, <1>4, <1>5 DEF P!WriteEdge, PF!WriteEdge
  <2>2. P!ReadEdge <=> PF!ReadEdge
    BY <1>4, <1>5 DEF P!ReadEdge, PF!ReadEdge
  <2>3. P!BothEdges <=> PF!BothEdges
    <3>1. \A b \in BOOLEAN :
            /\ P!Offered(b) = PF!Offered(b)
            /\ P!Caught(rdPtr, P!NextRead(b)) = PF!Caught(rdPtr, PF!NextRead(b))
            /\ P!Caught(wrPtr, P!NextWrite(b)) = PF!Caught(wrPtr, PF!NextWrite(b))
      BY <1>3 DEF P!Caught, PF!Caught, P!Ptrs, PF!Ptrs, P!Pointers, PF!Pointers
    <3>2. ASSUME P!BothEdges PROVE PF!BothEdges
      BY <1>4, <3>1, <3>2 DEF P!BothEdges, PF!BothEdges
    <3>3. ASSUME PF!BothEdges PROVE P!BothEdges
      BY <1>4, <3>1, <3>3 DEF P!BothEdges, PF!BothEdges
    <3> QED
      BY <3>2, <3>3
  <2> QED
    BY <2>1, <2>2, <2>3
<1>7. [P!Next]_(P!vars) <=> [PF!Next]_(PF!vars)
  BY <1>5, <1>6 DEF P!Next, PF!Next
<1>8. P!ViewsLag <=> PF!ViewsLag
  BY <1>2 DEF P!ViewsLag, PF!ViewsLag
<1>9. P!AlmostFullInTime <=> PF!AlmostFullInTime
  BY <1>2 DEF P!AlmostFullInTime, PF!AlmostFullInTime
<1> QED
  BY <1>1, <1>7, <1>8, <1>9

(* So what implements the one implements the other.                        *)
LEMMA SameSpec == P!Spec => PF!Spec
  BY SameParts, PTL DEF P!Spec, PF!Spec

(* Each side's view of the other lags behind it in the right order, if a   *)
(* pointer is caught as a whole.                                           *)
THEOREM ClockViewsLag ==
  ASSUME ~SKEW
  PROVE  Spec => []ViewsLag
<1>1. PF!Spec => []PF!ViewsLag
  BY PF!ViewsAlwaysLag, FifoAssumption
<1>2. PF!ViewsLag => ViewsLag
  BY SameParts DEF ViewsLag
<1>3. Spec => P!Spec
  BY FifoOnPointers DEF ImplementsPointerFifo
<1> QED
  BY <1>1, <1>2, <1>3, SameSpec, PTL

(* While almost_full is low at least ALMOST_FULL_GAP slots are free, if a  *)
(* pointer is caught as a whole.                                           *)
THEOREM ClockKeepsRoom ==
  ASSUME ~SKEW
  PROVE  Spec => []AlmostFullInTime
<1>1. PF!Spec => []PF!AlmostFullInTime
  BY PF!AlmostFullKeepsRoom, FifoAssumption
<1>2. PF!AlmostFullInTime => AlmostFullInTime
  BY SameParts DEF AlmostFullInTime
<1>3. Spec => P!Spec
  BY FifoOnPointers DEF ImplementsPointerFifo
<1> QED
  BY <1>1, <1>2, <1>3, SameSpec, PTL

(* The words come out in the order in which they went in, none lost and    *)
(* none twice: the FIFO is a bounded queue, even if the bits of a pointer  *)
(* reach the other clock apart.                                            *)
THEOREM ClockIsAQueue == Spec => WordsInOrder
<1>1. PF!Spec => PF!Q!Spec
  BY PF!FifoIsAQueue, FifoAssumption DEF PF!WordsInOrder
<1>2. P!Contents = PF!Contents
  BY DEF P!Contents, PF!Contents, P!Used, PF!Used, P!Dist, PF!Dist, P!Slot, PF!Slot,
         P!Ahead, PF!Ahead
<1>3. P!Contents' = PF!Contents'
  BY DEF P!Contents, PF!Contents, P!Used, PF!Used, P!Dist, PF!Dist, P!Slot, PF!Slot,
         P!Ahead, PF!Ahead
<1>4. PF!Q!Init => P!Q!Init
  BY <1>2 DEF P!Q!Init, PF!Q!Init
<1>5. [PF!Q!Next]_<<PF!Contents, rdData>> => [P!Q!Next]_<<P!Contents, rdData>>
  BY <1>2, <1>3 DEF P!Q!Next, PF!Q!Next, P!Q!Pop, PF!Q!Pop, P!Q!Push, PF!Q!Push,
                    P!Q!PushPop, PF!Q!PushPop
<1>6. PF!Q!Spec => P!Q!Spec
  BY <1>4, <1>5, PTL DEF P!Q!Spec, PF!Q!Spec
<1>7. Spec => P!Spec
  BY FifoOnPointers DEF ImplementsPointerFifo
<1>8. P!Q!Spec => WordsInOrder
  BY DEF WordsInOrder, P!WordsInOrder
<1> QED
  BY <1>1, <1>6, <1>7, <1>8, SameSpec, PTL

=============================================================================
