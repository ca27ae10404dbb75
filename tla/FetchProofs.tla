---------------------------- MODULE FetchProofs ----------------------------
(***************************************************************************)
(* The fetch queue hands dispatch the instructions of the program in order *)
(* from the last redirect on: FetchInOrder of FetchProperties, for every   *)
(* number of ways and responses of every length that fits.                 *)
(***************************************************************************)
EXTENDS FetchProperties, Integers, TLAPS

-----------------------------------------------------------------------------
(* Arithmetic modulo a number that is not known.                           *)
LEMMA QuotientUnique ==
  ASSUME NEW N \in Nat \ {0}, NEW q \in Int, NEW s \in Int,
         NEW x \in 0 .. N - 1, NEW y \in 0 .. N - 1, N * q + x = N * s + y
  PROVE  x = y /\ q = s
<1>1. ~(q < s)
  <2> SUFFICES ASSUME q + 1 <= s PROVE FALSE
    OBVIOUS
  <2>1. N * (q + 1) <= N * s
    OBVIOUS
  <2> QED
    BY <2>1
<1>2. ~(s < q)
  <2> SUFFICES ASSUME s + 1 <= q PROVE FALSE
    OBVIOUS
  <2>1. N * (s + 1) <= N * q
    OBVIOUS
  <2> QED
    BY <2>1
<1> QED
  BY <1>1, <1>2

(* The remainder of a number written as quotient and rest.                 *)
LEMMA ModOf ==
  ASSUME NEW N \in Nat \ {0}, NEW q \in Int, NEW x \in 0 .. N - 1
  PROVE  (N * q + x) % N = x
<1> DEFINE z == N * q + x
<1>1. z \in Int /\ z = N * (z \div N) + (z % N) /\ z % N \in 0 .. N - 1 /\ z \div N \in Int
  OBVIOUS
<1>2. N * q + x = N * (z \div N) + (z % N)
  BY <1>1
<1> HIDE DEF z
<1>3. x = z % N
  BY <1>1, <1>2, QuotientUnique
<1> QED
  BY <1>3 DEF z

(* One subtraction is enough below twice the modulus.                      *)
LEMMA ModOnce ==
  ASSUME NEW N \in Nat \ {0}, NEW x \in 0 .. 2 * N - 1
  PROVE  x % N = IF x < N THEN x ELSE x - N
<1>1. CASE x < N
  <2>1. (N * 0 + x) % N = x
    BY <1>1, ModOf
  <2> QED
    BY <2>1, <1>1
<1>2. CASE ~(x < N)
  <2>1. x - N \in 0 .. N - 1 /\ N * 1 + (x - N) = x
    BY <1>2
  <2>2. (N * 1 + (x - N)) % N = x - N
    BY <2>1, ModOf
  <2> QED
    BY <2>1, <2>2, <1>2
<1> QED
  BY <1>1, <1>2

(* A sum may be reduced before the last addition.                          *)
LEMMA ModPlus ==
  ASSUME NEW N \in Nat \ {0}, NEW x \in Nat, NEW y \in Nat
  PROVE  ((x % N) + y) % N = (x + y) % N
<1> DEFINE u == (x % N) + y
<1>1. /\ x = N * (x \div N) + (x % N) /\ x % N \in 0 .. N - 1 /\ x \div N \in Int
  OBVIOUS
<1>2. /\ u \in Int /\ u = N * (u \div N) + (u % N)
      /\ u % N \in 0 .. N - 1 /\ u \div N \in Int
  BY <1>1
<1>3. x + y = N * (x \div N + u \div N) + (u % N)
  <2>1. x + y = N * (x \div N) + u
    BY <1>1
  <2>2. N * (x \div N + u \div N) = N * (x \div N) + N * (u \div N)
    BY <1>1, <1>2
  <2> HIDE DEF u
  <2> QED
    BY <2>1, <2>2, <1>1, <1>2
<1> HIDE DEF u
<1>4. (N * (x \div N + u \div N) + (u % N)) % N = u % N
  <2> DEFINE q == x \div N + u \div N
             r == u % N
  <2>1. q \in Int /\ r \in 0 .. N - 1
    BY <1>1, <1>2
  <2> HIDE DEF q, r
  <2>2. (N * q + r) % N = r
    BY <2>1, ModOf
  <2> QED
    BY <2>2 DEF q, r
<1> QED
  BY <1>3, <1>4 DEF u

-----------------------------------------------------------------------------
(* The contents of the queue as a relation of its sub-queues W, the ways   *)
(* rd and wr, and the addresses p and q: rounds times round the ways and   *)
(* ahead more.                                                             *)
TurnOf(w, rd) == (w + NUM_WAYS - rd) % NUM_WAYS
Holds(W, rd, wr, p, q, rounds, ahead) ==
  /\ rounds \in Nat /\ ahead \in Ways
  /\ \A w \in Ways : Len(W[w]) = rounds + (IF TurnOf(w, rd) < ahead THEN 1 ELSE 0)
  /\ wr = (rd + ahead) % NUM_WAYS
  /\ q = After(p, rounds * NUM_WAYS + ahead)
  /\ \A w \in Ways : \A i \in 1 .. Len(W[w]) :
       W[w][i] = After(p, TurnOf(w, rd) + (i - 1) * NUM_WAYS)
InTurn(W, rd, wr, p, q) ==
  \E rounds \in Nat, ahead \in Ways : Holds(W, rd, wr, p, q, rounds, ahead)

FetchQueues == [Ways -> Seq(FetchAddrs \cup {NoFetchAddr})]

(* The turn of a way, without the modulus.                                 *)
LEMMA TurnValue ==
  ASSUME NEW w \in Ways, NEW rd \in Ways
  PROVE  /\ TurnOf(w, rd) = IF w >= rd THEN w - rd ELSE w - rd + NUM_WAYS
         /\ TurnOf(w, rd) \in Ways
<1> DEFINE x == w + NUM_WAYS - rd
<1>1. NUM_WAYS \in Nat \ {0} /\ x \in 0 .. 2 * NUM_WAYS - 1
  BY FetchAssumption DEF Ways
<1>2. TurnOf(w, rd) = IF x < NUM_WAYS THEN x ELSE x - NUM_WAYS
  <2>1. TurnOf(w, rd) = x % NUM_WAYS
    BY DEF TurnOf
  <2> HIDE DEF x
  <2> QED
    BY <1>1, <2>1, ModOnce
<1> QED
  BY <1>1, <1>2 DEF Ways

(* The way n responses further on, without the modulus.                    *)
LEMMA WayAfter ==
  ASSUME NEW rd \in Ways, NEW n \in 0 .. NUM_WAYS
  PROVE  /\ (rd + n) % NUM_WAYS = IF rd + n < NUM_WAYS THEN rd + n ELSE rd + n - NUM_WAYS
         /\ (rd + n) % NUM_WAYS \in Ways
<1> DEFINE x == rd + n
<1>1. NUM_WAYS \in Nat \ {0} /\ x \in 0 .. 2 * NUM_WAYS - 1
  BY FetchAssumption DEF Ways
<1> HIDE DEF x
<1>2. x % NUM_WAYS = IF x < NUM_WAYS THEN x ELSE x - NUM_WAYS
  BY <1>1, ModOnce
<1>3. x % NUM_WAYS \in Ways
  BY <1>1, <1>2 DEF Ways
<1>4. (rd + n) % NUM_WAYS = x % NUM_WAYS /\ x = rd + n
  BY DEF x
<1> QED
  BY <1>1, <1>2, <1>3, <1>4, FetchAssumption DEF Ways

(* Moving on twice is moving on once by the sum.                           *)
LEMMA AfterPlus ==
  ASSUME NEW p \in Nat, NEW m \in Nat, NEW n \in Nat
  PROVE  /\ After(After(p, m), n) = After(p, m + n)
         /\ After(p, m) \in FetchAddrs
<1>1. PC_COUNT \in Nat \ {0} /\ FetchAddrs = 0 .. PC_COUNT - 1
  BY FetchAssumption
<1>2. p + m \in Nat /\ p + m + n = p + (m + n)
  OBVIOUS
<1>3. (((p + m) % PC_COUNT) + n) % PC_COUNT = (p + m + n) % PC_COUNT
  BY <1>1, <1>2, ModPlus
<1>4. (p + m) % PC_COUNT \in 0 .. PC_COUNT - 1
  BY <1>1, <1>2
<1> QED
  BY <1>1, <1>2, <1>3, <1>4 DEF After

(* Dispatch reads the next instruction.                                    *)
LEMMA ReadKeepsTurn ==
  ASSUME NEW W \in FetchQueues, NEW rd \in Ways, NEW wr \in Ways,
         NEW p \in Nat, NEW q, InTurn(W, rd, wr, p, q), W[rd] # <<>>,
         NEW V, V = [w \in Ways |-> IF w = rd THEN Tail(W[w]) ELSE W[w]]
  PROVE  InTurn(V, (rd + 1) % NUM_WAYS, wr, After(p, 1), q)
<1> DEFINE N == NUM_WAYS
           rn == (rd + 1) % N
<1> PICK a \in Nat, b \in Ways : Holds(W, rd, wr, p, q, a, b)
  BY DEF InTurn
<1>1. /\ N \in Nat \ {0} /\ rd \in 0 .. N - 1 /\ b \in 0 .. N - 1
      /\ rn = (IF rd + 1 < N THEN rd + 1 ELSE 0) /\ rn \in Ways
  <2>1. NUM_WAYS \in Nat \ {0} /\ rd \in 0 .. N - 1 /\ b \in 0 .. N - 1
        /\ 1 \in 0 .. NUM_WAYS
    BY FetchAssumption DEF Ways
  <2>2. /\ rn = IF rd + 1 < N THEN rd + 1 ELSE rd + 1 - N
        /\ rn \in Ways
    BY <2>1, WayAfter
  <2> HIDE DEF rn
  <2> QED
    BY <2>1, <2>2
<1> HIDE DEF rn
<1>2. \A w \in Ways : W[w] \in Seq(FetchAddrs \cup {NoFetchAddr}) /\ Len(W[w]) \in Nat
  BY DEF FetchQueues
<1>3. ASSUME NEW w \in Ways
      PROVE  /\ TurnOf(w, rd) \in 0 .. N - 1
             /\ w = rd => TurnOf(w, rd) = 0 /\ TurnOf(w, rn) = N - 1
             /\ w # rd => TurnOf(w, rd) > 0 /\ TurnOf(w, rn) = TurnOf(w, rd) - 1
  <2>1. /\ TurnOf(w, rd) = IF w >= rd THEN w - rd ELSE w - rd + NUM_WAYS
        /\ TurnOf(w, rn) = IF w >= rn THEN w - rn ELSE w - rn + NUM_WAYS
    BY <1>1, TurnValue
  <2>2. w \in 0 .. N - 1
    BY DEF Ways
  <2> QED
    BY <1>1, <2>1, <2>2
<1>4. Len(W[rd]) = a + (IF 0 < b THEN 1 ELSE 0) /\ Len(W[rd]) > 0
  BY <1>2, <1>3 DEF Holds
<1> DEFINE c == IF b > 0 THEN a ELSE a - 1
           d == IF b > 0 THEN b - 1 ELSE N - 1
<1>5. /\ c \in Nat /\ d \in Ways /\ d \in 0 .. N - 1
      /\ c * N + d + 1 = a * N + b
  <2>1. a \in Nat \ {0} \/ b > 0
    BY <1>1, <1>4
  <2>2. (a - 1) * N = a * N - N
    BY <1>1
  <2> QED
    BY <2>1, <2>2, <1>1 DEF Ways
<1>6. wr = (rn + d) % N
  <2>1. wr = IF rd + b < N THEN rd + b ELSE rd + b - N
    BY <1>1, WayAfter DEF Holds
  <2>2. (rn + d) % N = IF rn + d < N THEN rn + d ELSE rn + d - N
    <3>1. d \in 0 .. NUM_WAYS
      BY <1>1, <1>5
    <3> HIDE DEF d
    <3> QED
      BY <3>1, <1>1, WayAfter
  <2>3. CASE b > 0
    BY <2>1, <2>2, <2>3, <1>1
  <2>4. CASE ~(b > 0)
    BY <2>1, <2>2, <2>4, <1>1
  <2> QED
    BY <2>3, <2>4
<1>7. q = After(After(p, 1), c * N + d)
  <2>1. c * N \in Nat
    BY <1>1, <1>5
  <2>2. c * N + d \in Nat
    BY <2>1, <1>1, <1>5
  <2>3. After(After(p, 1), c * N + d) = After(p, 1 + (c * N + d))
    <3> DEFINE e == c * N + d
    <3> HIDE DEF e
    <3>1. e \in Nat
      BY <2>2 DEF e
    <3>2. After(After(p, 1), e) = After(p, 1 + e)
      BY <3>1, AfterPlus
    <3> QED
      BY <3>2 DEF e
  <2>4. 1 + (c * N + d) = a * N + b
    BY <2>1, <1>1, <1>5
  <2> QED
    BY <2>3, <2>4 DEF Holds
<1>8. ASSUME NEW w \in Ways
      PROVE  Len(V[w]) = c + (IF TurnOf(w, rn) < d THEN 1 ELSE 0)
  <2>1. CASE w = rd
    <3>1. Len(V[w]) = Len(W[w]) - 1
      BY <2>1, <1>2, <1>4
    <3> QED
      BY <2>1, <3>1, <1>1, <1>3, <1>4
  <2>2. CASE w # rd
    <3>1. Len(V[w]) = a + (IF TurnOf(w, rd) < b THEN 1 ELSE 0)
      BY <2>2 DEF Holds
    <3>2. CASE b > 0
      BY <2>2, <3>1, <3>2, <1>1, <1>3
    <3>3. CASE ~(b > 0)
      BY <2>2, <3>1, <3>3, <1>1, <1>3
    <3> QED
      BY <3>2, <3>3
  <2> QED
    BY <2>1, <2>2
<1>9. ASSUME NEW w \in Ways, NEW i \in 1 .. Len(V[w])
      PROVE  V[w][i] = After(After(p, 1), TurnOf(w, rn) + (i - 1) * N)
  <2>1. CASE w = rd
    <3>1. V[w] = Tail(W[w]) /\ Len(V[w]) = Len(W[w]) - 1 /\ i \in Nat
          /\ i + 1 \in 1 .. Len(W[w]) /\ V[w][i] = W[w][i + 1]
      BY <2>1, <1>2, <1>4
    <3>2. W[w][i + 1] = After(p, 0 + (i + 1 - 1) * N)
      BY <2>1, <3>1, <1>3 DEF Holds
    <3>3. (i - 1) * N \in Nat /\ 0 + (i + 1 - 1) * N = 1 + (N - 1 + (i - 1) * N)
      BY <3>1, <1>1
    <3>4. After(After(p, 1), N - 1 + (i - 1) * N) = After(p, 1 + (N - 1 + (i - 1) * N))
      <4>1. N - 1 + (i - 1) * N \in Nat
        BY <3>3, <1>1
      <4> QED
        BY <4>1, AfterPlus
    <3> QED
      BY <2>1, <3>1, <3>2, <3>3, <3>4, <1>3
  <2>2. CASE w # rd
    <3>1. V[w] = W[w] /\ i \in Nat /\ (i - 1) * N \in Nat
      BY <2>2, <1>1
    <3>2. W[w][i] = After(p, TurnOf(w, rd) + (i - 1) * N)
      BY <3>1 DEF Holds
    <3>3. TurnOf(w, rn) \in Nat /\ TurnOf(w, rd) = 1 + TurnOf(w, rn)
      BY <2>2, <1>1, <1>3
    <3>4. After(After(p, 1), TurnOf(w, rn) + (i - 1) * N)
            = After(p, 1 + (TurnOf(w, rn) + (i - 1) * N))
      <4>1. TurnOf(w, rn) + (i - 1) * N \in Nat
        BY <3>1, <3>3
      <4> QED
        BY <4>1, AfterPlus
    <3>5. 1 + (TurnOf(w, rn) + (i - 1) * N) = TurnOf(w, rd) + (i - 1) * N
      BY <3>1, <3>3
    <3> QED
      BY <3>1, <3>2, <3>4, <3>5
  <2> QED
    BY <2>1, <2>2
<1> HIDE DEF c, d
<1>10. Holds(V, rn, wr, After(p, 1), q, c, d)
  BY <1>5, <1>6, <1>7, <1>8, <1>9 DEF Holds
<1> QED
  BY <1>5, <1>10 DEF InTurn, rn

(* The queue takes a response.                                             *)
LEMMA WriteKeepsTurn ==
  ASSUME NEW W \in FetchQueues, NEW rd \in Ways, NEW wr \in Ways,
         NEW p \in Nat, NEW q, InTurn(W, rd, wr, p, q),
         NEW V, V = [w \in Ways |->
                       IF TurnOf(w, wr) < FETCH_INSTR_NUM
                         THEN Append(W[w], After(q, TurnOf(w, wr))) ELSE W[w]]
  PROVE  InTurn(V, rd, (wr + FETCH_INSTR_NUM) % NUM_WAYS, p,
                After(q, FETCH_INSTR_NUM))
<1> DEFINE N == NUM_WAYS
           F == FETCH_INSTR_NUM
<1> PICK a \in Nat, b \in Ways : Holds(W, rd, wr, p, q, a, b)
  BY DEF InTurn
<1>1. /\ N \in Nat \ {0} /\ rd \in 0 .. N - 1 /\ b \in 0 .. N - 1 /\ wr \in 0 .. N - 1
      /\ F \in 1 .. N
      /\ wr = IF rd + b < N THEN rd + b ELSE rd + b - N
  <2>1. N \in Nat \ {0} /\ rd \in 0 .. N - 1 /\ b \in 0 .. N /\ b \in 0 .. N - 1
        /\ wr \in 0 .. N - 1 /\ F \in 1 .. N
    BY FetchAssumption DEF Ways
  <2>2. wr = (rd + b) % N
    BY DEF Holds
  <2>3. wr = IF rd + b < N THEN rd + b ELSE rd + b - N
    BY <2>1, <2>2, WayAfter
  <2> QED
    BY <2>1, <2>3
<1>2. \A w \in Ways : W[w] \in Seq(FetchAddrs \cup {NoFetchAddr}) /\ Len(W[w]) \in Nat
  BY DEF FetchQueues
(* How many ways a way is behind wr.                                       *)
<1>3. ASSUME NEW w \in Ways
      PROVE  /\ TurnOf(w, rd) \in 0 .. N - 1 /\ TurnOf(w, wr) \in 0 .. N - 1
             /\ TurnOf(w, rd) >= b => TurnOf(w, wr) = TurnOf(w, rd) - b
             /\ TurnOf(w, rd) < b => TurnOf(w, wr) = TurnOf(w, rd) - b + N
  <2>1. /\ TurnOf(w, rd) = IF w >= rd THEN w - rd ELSE w - rd + NUM_WAYS
        /\ TurnOf(w, wr) = IF w >= wr THEN w - wr ELSE w - wr + NUM_WAYS
    BY <1>1, TurnValue
  <2>2. w \in 0 .. N - 1
    BY DEF Ways
  <2>3. CASE rd + b < N
    BY <1>1, <2>1, <2>2, <2>3
  <2>4. CASE ~(rd + b < N)
    BY <1>1, <2>1, <2>2, <2>4
  <2> QED
    BY <2>3, <2>4
<1> DEFINE c == IF b + F < N THEN a ELSE a + 1
           d == IF b + F < N THEN b + F ELSE b + F - N
           m == a * N + b
<1>4. /\ c \in Nat /\ d \in Ways /\ d \in 0 .. N - 1
      /\ a * N \in Nat /\ c * N + d = m + F /\ m \in Nat
  <2>1. a * N \in Nat /\ (a + 1) * N = a * N + N
    BY <1>1
  <2> QED
    BY <2>1, <1>1 DEF Ways
<1>5. (wr + F) % N = (rd + d) % N
  <2>1. (wr + F) % N = IF wr + F < N THEN wr + F ELSE wr + F - N
    <3>1. F \in 0 .. NUM_WAYS
      BY <1>1
    <3> QED
      BY <3>1, WayAfter
  <2>2. (rd + d) % N = IF rd + d < N THEN rd + d ELSE rd + d - N
    <3>1. d \in 0 .. NUM_WAYS
      BY <1>1, <1>4
    <3> HIDE DEF d
    <3> QED
      BY <3>1, <1>1, WayAfter
  <2>3. CASE b + F < N
    BY <2>1, <2>2, <2>3, <1>1
  <2>4. CASE ~(b + F < N)
    BY <2>1, <2>2, <2>4, <1>1
  <2> QED
    BY <2>3, <2>4
<1>6. q = After(p, m)
  BY DEF Holds
<1>7. After(q, F) = After(p, c * N + d)
  <2>1. m + F = c * N + d /\ m \in Nat /\ F \in Nat
    BY <1>1, <1>4
  <2> HIDE DEF m, c, d
  <2>2. After(After(p, m), F) = After(p, m + F)
    BY <2>1, AfterPlus
  <2> QED
    BY <2>1, <2>2, <1>6
<1>8. ASSUME NEW w \in Ways
      PROVE  Len(W[w]) = a + (IF TurnOf(w, rd) < b THEN 1 ELSE 0)
  BY DEF Holds
<1>9. ASSUME NEW w \in Ways
      PROVE  Len(V[w]) = c + (IF TurnOf(w, rd) < d THEN 1 ELSE 0)
  <2>1. Len(V[w]) = Len(W[w]) + (IF TurnOf(w, wr) < F THEN 1 ELSE 0)
    <3>1. CASE TurnOf(w, wr) < F
      <4>1. V[w] = Append(W[w], After(q, TurnOf(w, wr)))
        BY <3>1
      <4> QED
        BY <3>1, <4>1, <1>2
    <3>2. CASE ~(TurnOf(w, wr) < F)
      <4>1. V[w] = W[w]
        BY <3>2
      <4> QED
        BY <3>2, <4>1, <1>2
    <3> QED
      BY <3>1, <3>2
  <2>2. /\ Len(W[w]) = a + (IF TurnOf(w, rd) < b THEN 1 ELSE 0)
        /\ TurnOf(w, rd) \in 0 .. N - 1
        /\ TurnOf(w, wr) = IF TurnOf(w, rd) < b THEN TurnOf(w, rd) - b + N
                           ELSE TurnOf(w, rd) - b
    BY <1>1, <1>3, <1>8
  <2>3. CASE TurnOf(w, rd) < b
    <3>1. CASE b + F < N
      BY <2>1, <2>2, <2>3, <3>1, <1>1
    <3>2. CASE ~(b + F < N)
      <4>1. c = a + 1 /\ d = b + F - N /\ Len(W[w]) = a + 1
        BY <2>2, <2>3, <3>2
      <4>2. TurnOf(w, wr) < F <=> TurnOf(w, rd) < d
        <5>1. TurnOf(w, wr) = TurnOf(w, rd) - b + N
          BY <2>2, <2>3
        <5> QED
          BY <2>2, <4>1, <5>1, <1>1
      <4> HIDE DEF c, d
      <4> QED
        BY <2>1, <4>1, <4>2, <1>1
    <3> QED
      BY <3>1, <3>2
  <2>4. CASE ~(TurnOf(w, rd) < b)
    <3>1. CASE b + F < N
      BY <2>1, <2>2, <2>4, <3>1, <1>1
    <3>2. CASE ~(b + F < N)
      BY <2>1, <2>2, <2>4, <3>2, <1>1
    <3> QED
      BY <3>1, <3>2
  <2> QED
    BY <2>3, <2>4
<1>10. ASSUME NEW w \in Ways, NEW i \in 1 .. Len(V[w])
       PROVE  V[w][i] = After(p, TurnOf(w, rd) + (i - 1) * N)
  <2>1. CASE i \in 1 .. Len(W[w])
    <3>1. V[w][i] = W[w][i]
      BY <2>1, <1>2
    <3> QED
      BY <2>1, <3>1 DEF Holds
  <2>2. CASE ~(i \in 1 .. Len(W[w]))
    <3>1. /\ TurnOf(w, wr) < F /\ i = Len(W[w]) + 1 /\ i \in Nat
          /\ V[w][i] = After(q, TurnOf(w, wr))
      BY <2>2, <1>2
    <3>2. After(q, TurnOf(w, wr)) = After(p, m + TurnOf(w, wr))
      <4>1. TurnOf(w, wr) \in Nat /\ m \in Nat
        BY <1>1, <1>3, <1>4
      <4> HIDE DEF m
      <4>2. After(After(p, m), TurnOf(w, wr)) = After(p, m + TurnOf(w, wr))
        BY <4>1, AfterPlus
      <4> QED
        BY <4>2, <1>6
    <3>3. m + TurnOf(w, wr) = TurnOf(w, rd) + (i - 1) * N
      <4>1. CASE TurnOf(w, rd) < b
        <5>1. i - 1 = a + 1 /\ (a + 1) * N = a * N + N
          BY <4>1, <3>1, <1>1, <1>8
        <5>2. TurnOf(w, wr) = TurnOf(w, rd) - b + N /\ TurnOf(w, rd) \in Int
          BY <4>1, <1>1, <1>3
        <5>3. (i - 1) * N = a * N + N
          BY <5>1
        <5>4. a * N \in Int /\ b \in Int /\ N \in Int
          BY <1>1
        <5> DEFINE k == (i - 1) * N
                   l == a * N
        <5>5. k = l + N /\ l \in Int /\ m = l + b
          BY <5>3, <5>4
        <5> HIDE DEF k, l, m
        <5>6. m + TurnOf(w, wr) = TurnOf(w, rd) + k
          BY <5>2, <5>4, <5>5
        <5> QED
          BY <5>6 DEF k
      <4>2. CASE ~(TurnOf(w, rd) < b)
        <5>1. i - 1 = a
          BY <4>2, <3>1, <1>8
        <5>2. TurnOf(w, wr) = TurnOf(w, rd) - b /\ TurnOf(w, rd) \in Int
          BY <4>2, <1>1, <1>3
        <5>3. (i - 1) * N = a * N
          BY <5>1
        <5>4. a * N \in Int /\ b \in Int /\ N \in Int
          BY <1>1
        <5> DEFINE k == (i - 1) * N
                   l == a * N
        <5>5. k = l /\ l \in Int /\ m = l + b
          BY <5>3, <5>4
        <5> HIDE DEF k, l, m
        <5>6. m + TurnOf(w, wr) = TurnOf(w, rd) + k
          BY <5>2, <5>4, <5>5
        <5> QED
          BY <5>6 DEF k
      <4> QED
        BY <4>1, <4>2
    <3> QED
      BY <3>1, <3>2, <3>3
  <2> QED
    BY <2>1, <2>2
<1> HIDE DEF c, d, m
<1>11. Holds(V, rd, (wr + F) % N, p, After(q, F), c, d)
  BY <1>4, <1>5, <1>7, <1>9, <1>10 DEF Holds
<1> QED
  BY <1>4, <1>11 DEF InTurn

-----------------------------------------------------------------------------
(* The reset state is well typed.                                          *)
LEMMA FetchTypeInit == Init => TypeOK
<1> SUFFICES ASSUME Init PROVE TypeOK
  OBVIOUS
<1>1. 0 \in Ways /\ 0 \in FetchAddrs
  BY FetchAssumption DEF Ways
<1>2. FetchPortTypeOK
  BY DEF Init, FetchPortInit, FetchPortTypeOK, NoPortFetch
<1>3. ways \in FetchQueues /\ \A w \in Ways : Len(ways[w]) <= ONE_WAY_DEPTH
  BY FetchAssumption DEF Init, FetchQueues
<1> QED
  BY <1>1, <1>2, <1>3 DEF Init, TypeOK, FetchQueues

(* What the response under way brings is an address or none.               *)
LEMMA InstrType ==
  ASSUME TypeOK, RespValid, NEW i \in Ways, ~stale => port.addr \in FetchAddrs
  PROVE  Instr(i) \in FetchAddrs \cup {NoFetchAddr}
<1>1. CASE stale
  BY <1>1 DEF Instr
<1>2. CASE ~stale
  <2>1. port.addr \in Nat /\ i \in Nat
    BY <1>2, FetchAssumption DEF Ways
  <2> QED
    BY <1>2, <2>1, AfterPlus DEF Instr
<1> QED
  BY <1>1, <1>2

-----------------------------------------------------------------------------
(* The invariant: FetchInOrder itself, and that the fetch under way, if no *)
(* redirect came since, is the one whose response goes behind the last     *)
(* instruction stored.                                                     *)
FetchInv ==
  /\ InTurn(ways, rdWay, wrWay, pc, imemPc)
  /\ outstanding = (port.st # "IDLE")
  /\ discard = stale
  /\ stale => port.st # "IDLE"
  /\ port.st # "IDLE" /\ ~stale => port.addr = imemPc

(* Empty ways hold the empty run of addresses.                             *)
LEMMA EmptyInTurn ==
  ASSUME NEW p \in FetchAddrs
  PROVE  InTurn([w \in Ways |-> <<>>], 0, 0, p, p)
<1>1. NUM_WAYS \in Nat \ {0} /\ 0 \in Ways /\ 0 \in 0 .. NUM_WAYS
      /\ p \in Nat /\ p < PC_COUNT /\ PC_COUNT \in Nat \ {0}
  BY FetchAssumption DEF Ways
<1>2. (0 + 0) % NUM_WAYS = 0
  BY <1>1, WayAfter
<1>3. After(p, 0 * NUM_WAYS + 0) = p
  <2>1. p \in 0 .. 2 * PC_COUNT - 1
    BY <1>1
  <2>2. p % PC_COUNT = p
    BY <2>1, <1>1, ModOnce
  <2>3. p + (0 * NUM_WAYS + 0) = p
    BY <1>1
  <2> QED
    BY <2>2, <2>3 DEF After
<1>4. \A w \in Ways : TurnOf(w, 0) \in Nat
  BY <1>1, TurnValue DEF Ways
<1>5. Holds([w \in Ways |-> <<>>], 0, 0, p, p, 0, 0)
  BY <1>1, <1>2, <1>3, <1>4 DEF Holds
<1> QED
  BY <1>1, <1>5 DEF InTurn

(* The invariant holds at reset.                                           *)
LEMMA FetchInvInit == Init => FetchInv
<1> SUFFICES ASSUME Init PROVE FetchInv
  OBVIOUS
<1>1. InTurn(ways, rdWay, wrWay, pc, imemPc)
  BY EmptyInTurn, FetchAssumption DEF Init
<1> QED
  BY <1>1 DEF Init, FetchInv, FetchPortInit, NoPortFetch

(* The port and the request registers at an edge.                          *)
LEMMA PortStep ==
  ASSUME TypeOK, FetchInv,
         NEW hold \in BOOLEAN, NEW jr \in BOOLEAN, NEW ready \in BOOLEAN,
         NEW done \in BOOLEAN, NEW next \in Redirects,
         Cycle(hold, jr, ready, done, next)
  PROVE  /\ port'.st = IF ReqFire(ready) THEN "BUSY"
                       ELSE IF RespTaken THEN "IDLE"
                       ELSE IF port.st = "BUSY" /\ done THEN "ANSWER"
                       ELSE port.st
         /\ port'.addr = IF ReqFire(ready) THEN imemPc
                         ELSE IF RespTaken THEN NoFetchAddr ELSE port.addr
         /\ FetchPortTypeOK'
         /\ ReqFire(ready) => port.st = "IDLE" /\ ~RespTaken /\ ~Flush
         /\ RespTaken => port.st = "ANSWER"
         /\ RespFire => RespTaken /\ ~stale /\ port.addr = imemPc /\ ~Flush
<1> DEFINE addr == IF ReqFire(ready) THEN imemPc ELSE NoFetchAddr
<1>1. /\ FetchPortClock(addr, done, RespReady)
      /\ port \in [st : {"IDLE", "BUSY", "ANSWER"},
                   addr : FetchAddrs \cup {NoFetchAddr}]
      /\ imemPc \in FetchAddrs /\ NoFetchAddr \notin FetchAddrs
      /\ outstanding = (port.st # "IDLE") /\ discard = stale
  BY FetchPortAssumption DEF Cycle, TypeOK, FetchPortTypeOK, FetchInv
<1>2. ReqFire(ready) => port.st = "IDLE" /\ ~RespTaken /\ ~Flush
  BY <1>1 DEF ReqFire, RespTaken, RespValid, JmpBr
<1>3. RespTaken => port.st = "ANSWER"
  BY DEF RespTaken, RespValid
<1>4. RespFire => RespTaken /\ ~stale /\ port.addr = imemPc /\ ~Flush
  BY <1>1, <1>3 DEF RespFire, RespTaken, RespReady, JmpBr, FetchInv
<1>5. addr # NoFetchAddr <=> ReqFire(ready)
  BY <1>1
<1> HIDE DEF addr
<1>6. port' = CASE port.st = "IDLE" /\ addr # NoFetchAddr -> [st |-> "BUSY", addr |-> addr]
                [] port.st = "BUSY" /\ done -> [port EXCEPT !.st = "ANSWER"]
                [] RespTaken -> NoPortFetch
                [] OTHER -> port
  BY <1>1 DEF FetchPortClock, RespTaken
<1>7. CASE ReqFire(ready)
  <2>1. port' = [st |-> "BUSY", addr |-> imemPc]
    BY <1>2, <1>5, <1>6, <1>7 DEF addr
  <2> QED
    BY <2>1, <1>1, <1>2, <1>3, <1>4, <1>7 DEF FetchPortTypeOK
<1>8. CASE ~ReqFire(ready) /\ RespTaken
  <2>1. port' = NoPortFetch
    BY <1>3, <1>5, <1>6, <1>8
  <2> QED
    BY <2>1, <1>1, <1>2, <1>3, <1>4, <1>8 DEF FetchPortTypeOK, NoPortFetch
<1>9. CASE ~ReqFire(ready) /\ ~RespTaken
  <2>1. port' = IF port.st = "BUSY" /\ done THEN [port EXCEPT !.st = "ANSWER"] ELSE port
    BY <1>5, <1>6, <1>9
  <2> QED
    BY <2>1, <1>1, <1>2, <1>3, <1>4, <1>9 DEF FetchPortTypeOK
<1> QED
  BY <1>7, <1>8, <1>9

(* The sub-queues at an edge.                                              *)
LEMMA QueueStep ==
  ASSUME TypeOK, FetchInv,
         NEW hold \in BOOLEAN, NEW jr \in BOOLEAN, NEW ready \in BOOLEAN,
         NEW done \in BOOLEAN, NEW next \in Redirects,
         Cycle(hold, jr, ready, done, next)
  PROVE  /\ ways' \in FetchQueues
         /\ \A w \in Ways : Len(ways'[w]) <= ONE_WAY_DEPTH
         /\ rdWay' \in Ways /\ wrWay' \in Ways
         /\ pc' \in FetchAddrs /\ imemPc' \in FetchAddrs
         /\ InTurn(ways', rdWay', wrWay', pc', imemPc')
<1> DEFINE read == Reads(hold)
           Kept == [w \in Ways |-> IF read /\ w = rdWay THEN Tail(ways[w]) ELSE ways[w]]
<1>1. /\ ways \in FetchQueues /\ rdWay \in Ways /\ wrWay \in Ways
      /\ pc \in FetchAddrs /\ imemPc \in FetchAddrs
      /\ pc \in Nat /\ imemPc \in Nat
      /\ \A w \in Ways : Len(ways[w]) <= ONE_WAY_DEPTH
      /\ InTurn(ways, rdWay, wrWay, pc, imemPc)
      /\ ONE_WAY_DEPTH \in Nat /\ NUM_WAYS \in Nat \ {0}
      /\ FETCH_INSTR_NUM \in 0 .. NUM_WAYS /\ FETCH_INSTR_NUM \in Nat
      /\ 0 \in Ways /\ 1 \in 0 .. NUM_WAYS
  BY FetchAssumption DEF TypeOK, FetchInv, FetchQueues, Ways
<1>2. read => ways[rdWay] # <<>> /\ ~Flush
  BY DEF Reads, NormalStall, Empty, JmpBr
<1>3. RespFire => ~Full /\ ~Flush /\ ~stale /\ port.addr = imemPc
  BY PortStep DEF RespFire, RespTaken, RespReady
<1>4. /\ pc' = IF Flush THEN target ELSE IF read THEN After(pc, 1) ELSE pc
      /\ rdWay' = IF Flush THEN 0
                  ELSE IF read THEN (rdWay + 1) % NUM_WAYS ELSE rdWay
      /\ imemPc' = IF Flush THEN target
                   ELSE IF RespFire THEN After(imemPc, FETCH_INSTR_NUM) ELSE imemPc
      /\ wrWay' = IF Flush THEN 0
                  ELSE IF RespFire THEN (wrWay + FETCH_INSTR_NUM) % NUM_WAYS ELSE wrWay
      /\ ways' = [w \in Ways |->
                    IF Flush THEN <<>>
                    ELSE IF RespFire /\ TurnOf(w, wrWay) < FETCH_INSTR_NUM
                              /\ Len(ways[w]) < ONE_WAY_DEPTH
                      THEN Append(Kept[w], Instr(TurnOf(w, wrWay)))
                    ELSE Kept[w]]
  BY DEF Cycle, PcClock, WaysClock, TurnOf
<1>5. /\ Kept \in FetchQueues
      /\ \A w \in Ways : Len(Kept[w]) <= Len(ways[w]) /\ Len(Kept[w]) \in Nat
  <2>1. ASSUME NEW w \in Ways
        PROVE  /\ Kept[w] \in Seq(FetchAddrs \cup {NoFetchAddr})
               /\ Len(Kept[w]) <= Len(ways[w]) /\ Len(Kept[w]) \in Nat
    <3>1. ways[w] \in Seq(FetchAddrs \cup {NoFetchAddr})
      BY <1>1 DEF FetchQueues
    <3> QED
      BY <3>1, <1>2
  <2> QED
    BY <2>1 DEF FetchQueues
<1> DEFINE rn == IF read THEN (rdWay + 1) % NUM_WAYS ELSE rdWay
           pn == IF read THEN After(pc, 1) ELSE pc
<1>6. InTurn(Kept, rn, wrWay, pn, imemPc) /\ rn \in Ways /\ pn \in FetchAddrs /\ pn \in Nat
  <2>1. CASE read
    <3>1. Kept = [w \in Ways |-> IF w = rdWay THEN Tail(ways[w]) ELSE ways[w]]
      BY <2>1
    <3>2. InTurn(Kept, (rdWay + 1) % NUM_WAYS, wrWay, After(pc, 1), imemPc)
      <4> HIDE DEF Kept
      <4> QED
        BY <3>1, <2>1, <1>1, <1>2, ReadKeepsTurn
    <3>3. (rdWay + 1) % NUM_WAYS \in Ways
      BY <1>1, WayAfter
    <3>4. After(pc, 1) \in FetchAddrs /\ After(pc, 1) \in Nat
      BY <1>1, AfterPlus, FetchAssumption
    <3> QED
      BY <2>1, <3>2, <3>3, <3>4
  <2>2. CASE ~read
    <3>1. Kept = ways
      BY <2>2, <1>1 DEF FetchQueues
    <3> QED
      BY <2>2, <3>1, <1>1
  <2> QED
    BY <2>1, <2>2
<1> HIDE DEF Kept, rn, pn, read
<1>7. CASE Flush
  <2>1. target \in FetchAddrs
    BY <1>7, FetchAssumption DEF TypeOK, Flush
  <2>2. ways' = [w \in Ways |-> <<>>] /\ rdWay' = 0 /\ wrWay' = 0
        /\ pc' = target /\ imemPc' = target
    BY <1>4, <1>7
  <2>3. InTurn([w \in Ways |-> <<>>], 0, 0, target, target)
    BY <2>1, EmptyInTurn
  <2> QED
    BY <2>1, <2>2, <2>3, <1>1 DEF FetchQueues
<1>8. CASE ~Flush /\ RespFire
  <2>1. ASSUME NEW w \in Ways, TurnOf(w, wrWay) < FETCH_INSTR_NUM
        PROVE  Len(ways[w]) < ONE_WAY_DEPTH
    <3>1. TurnOf(w, wrWay) \in 0 .. FETCH_INSTR_NUM - 1
      BY <2>1, <1>1, TurnValue DEF Ways
    <3>2. (wrWay + TurnOf(w, wrWay)) % NUM_WAYS = w
      <4>1. TurnOf(w, wrWay) = IF w >= wrWay THEN w - wrWay ELSE w - wrWay + NUM_WAYS
        BY <1>1, TurnValue
      <4>2. wrWay \in 0 .. NUM_WAYS - 1 /\ w \in 0 .. NUM_WAYS - 1
        BY <1>1 DEF Ways
      <4> DEFINE t == TurnOf(w, wrWay)
      <4>3. t \in 0 .. NUM_WAYS /\ t = IF w >= wrWay THEN w - wrWay
                                       ELSE w - wrWay + NUM_WAYS
        BY <4>1, <4>2, <1>1
      <4> HIDE DEF t
      <4>4. (wrWay + t) % NUM_WAYS =
              IF wrWay + t < NUM_WAYS THEN wrWay + t ELSE wrWay + t - NUM_WAYS
        BY <4>3, <1>1, WayAfter
      <4>5. (wrWay + t) % NUM_WAYS = w
        BY <4>2, <4>3, <4>4, <1>1
      <4> QED
        BY <4>5 DEF t
    <3>3. Len(ways[w]) # ONE_WAY_DEPTH
      BY <3>1, <3>2, <1>3, <1>8 DEF Full
    <3>4. Len(ways[w]) \in Nat
      BY <1>1 DEF FetchQueues
    <3> QED
      BY <3>3, <3>4, <1>1
  <2>2. ASSUME NEW w \in Ways
        PROVE  Instr(TurnOf(w, wrWay)) = After(imemPc, TurnOf(w, wrWay))
    BY <1>3, <1>8 DEF Instr
  <2>3. ways' = [w \in Ways |->
                   IF TurnOf(w, wrWay) < FETCH_INSTR_NUM
                     THEN Append(Kept[w], After(imemPc, TurnOf(w, wrWay)))
                     ELSE Kept[w]]
    BY <2>1, <2>2, <1>4, <1>8
  <2>4. InTurn(ways', rn, (wrWay + FETCH_INSTR_NUM) % NUM_WAYS, pn,
               After(imemPc, FETCH_INSTR_NUM))
    BY <2>3, <1>1, <1>5, <1>6, WriteKeepsTurn
  <2>5. ASSUME NEW w \in Ways
        PROVE  /\ ways'[w] \in Seq(FetchAddrs \cup {NoFetchAddr})
               /\ Len(ways'[w]) <= ONE_WAY_DEPTH
    <3>1. Kept[w] \in Seq(FetchAddrs \cup {NoFetchAddr})
          /\ Len(Kept[w]) <= Len(ways[w]) /\ Len(Kept[w]) \in Nat
          /\ Len(ways[w]) <= ONE_WAY_DEPTH /\ Len(ways[w]) \in Nat
      BY <1>1, <1>5 DEF FetchQueues
    <3>2. CASE TurnOf(w, wrWay) < FETCH_INSTR_NUM
      <4>1. After(imemPc, TurnOf(w, wrWay)) \in FetchAddrs
        <5>1. TurnOf(w, wrWay) \in Nat
          <6>1. TurnOf(w, wrWay) \in Ways
            BY <1>1, TurnValue
          <6>2. Ways \subseteq Nat
            BY <1>1 DEF Ways
          <6> QED
            BY <6>1, <6>2
        <5> QED
          BY <5>1, <1>1, AfterPlus
      <4>2. ways'[w] = Append(Kept[w], After(imemPc, TurnOf(w, wrWay)))
        BY <2>3, <3>2
      <4>3. Len(ways[w]) < ONE_WAY_DEPTH
        BY <2>1, <3>2
      <4> DEFINE e == After(imemPc, TurnOf(w, wrWay))
      <4> HIDE DEF e
      <4>4. ways'[w] = Append(Kept[w], e) /\ e \in FetchAddrs
        BY <4>1, <4>2 DEF e
      <4> QED
        BY <4>3, <4>4, <3>1, <1>1
    <3>3. CASE ~(TurnOf(w, wrWay) < FETCH_INSTR_NUM)
      <4>1. ways'[w] = Kept[w]
        BY <2>3, <3>3
      <4> QED
        BY <4>1, <3>1, <1>1
    <3> QED
      BY <3>2, <3>3
  <2>6. ways' \in FetchQueues
    <3>1. ways' = [w \in Ways |-> ways'[w]]
      BY <2>3
    <3> QED
      BY <3>1, <2>5 DEF FetchQueues
  <2>7. (wrWay + FETCH_INSTR_NUM) % NUM_WAYS \in Ways
    BY <1>1, WayAfter
  <2>8. After(imemPc, FETCH_INSTR_NUM) \in FetchAddrs
    BY <1>1, AfterPlus
  <2>9. /\ rdWay' = rn /\ pc' = pn
        /\ wrWay' = (wrWay + FETCH_INSTR_NUM) % NUM_WAYS
        /\ imemPc' = After(imemPc, FETCH_INSTR_NUM)
    BY <1>4, <1>8 DEF rn, pn
  <2> QED
    BY <2>4, <2>5, <2>6, <2>7, <2>8, <2>9, <1>6
<1>9. CASE ~Flush /\ ~RespFire
  <2>1. ways' = [w \in Ways |-> Kept[w]]
    BY <1>4, <1>9
  <2>2. ways' = Kept
    BY <2>1, <1>5 DEF FetchQueues
  <2>3. rdWay' = rn /\ pc' = pn /\ wrWay' = wrWay /\ imemPc' = imemPc
    BY <1>4, <1>9 DEF rn, pn
  <2>4. \A w \in Ways : Len(ways[w]) \in Nat
    BY <1>1 DEF FetchQueues
  <2>5. \A w \in Ways : Len(ways'[w]) <= ONE_WAY_DEPTH
    BY <2>2, <2>4, <1>1, <1>5
  <2> QED
    BY <2>2, <2>3, <2>5, <1>1, <1>5, <1>6
<1> QED
  BY <1>7, <1>8, <1>9

(* A cycle preserves types and invariant.                                  *)
LEMMA FetchStep ==
  ASSUME TypeOK, FetchInv, Next
  PROVE  TypeOK' /\ FetchInv'
<1>1. PICK hold \in BOOLEAN, jr \in BOOLEAN, ready \in BOOLEAN,
           done \in BOOLEAN, next \in Redirects :
        Cycle(hold, jr, ready, done, next)
  BY DEF Next
<1>2. /\ ways' \in FetchQueues
      /\ \A w \in Ways : Len(ways'[w]) <= ONE_WAY_DEPTH
      /\ rdWay' \in Ways /\ wrWay' \in Ways
      /\ pc' \in FetchAddrs /\ imemPc' \in FetchAddrs
      /\ InTurn(ways', rdWay', wrWay', pc', imemPc')
  BY <1>1, QueueStep
<1>3. /\ port'.st = IF ReqFire(ready) THEN "BUSY"
                    ELSE IF RespTaken THEN "IDLE"
                    ELSE IF port.st = "BUSY" /\ done THEN "ANSWER"
                    ELSE port.st
      /\ port'.addr = IF ReqFire(ready) THEN imemPc
                      ELSE IF RespTaken THEN NoFetchAddr ELSE port.addr
      /\ FetchPortTypeOK'
      /\ ReqFire(ready) => port.st = "IDLE" /\ ~RespTaken /\ ~Flush
      /\ RespTaken => port.st = "ANSWER"
      /\ RespFire => RespTaken /\ ~stale /\ port.addr = imemPc /\ ~Flush
  BY <1>1, PortStep
<1>4. /\ outstanding' = (ReqFire(ready) \/ (outstanding /\ ~RespTaken))
      /\ discard' = IF Flush THEN outstanding /\ ~RespTaken
                    ELSE discard /\ (ReqFire(ready) \/ ~RespTaken)
      /\ wait' = ((wait /\ NormalStall(hold)) \/ Empty)
      /\ jrStall' = (~Flush /\ (jrStall \/ (Reads(hold) /\ jr)))
      /\ target' = next
      /\ stale' = (port'.st # "IDLE" /\ (stale \/ Flush))
      /\ imemPc' = IF Flush THEN target
                   ELSE IF RespFire THEN After(imemPc, FETCH_INSTR_NUM) ELSE imemPc
  BY <1>1 DEF Cycle, RequestClock, StallClock, PcClock
<1>5. /\ outstanding = (port.st # "IDLE") /\ discard = stale
      /\ stale => port.st # "IDLE"
      /\ port.st # "IDLE" /\ ~stale => port.addr = imemPc
      /\ stale \in BOOLEAN /\ discard \in BOOLEAN /\ outstanding \in BOOLEAN
      /\ port.st \in {"IDLE", "BUSY", "ANSWER"}
  BY DEF FetchInv, TypeOK, FetchPortTypeOK
<1>6. /\ outstanding' \in BOOLEAN /\ discard' \in BOOLEAN /\ wait' \in BOOLEAN
      /\ jrStall' \in BOOLEAN /\ stale' \in BOOLEAN
      /\ target' \in Targets \cup {NoFetchAddr}
  <2>1. discard' \in BOOLEAN
    BY <1>4, <1>5
  <2>2. target' \in Targets \cup {NoFetchAddr}
    BY <1>1, <1>4 DEF Redirects
  <2> QED
    BY <1>4, <2>1, <2>2
<1>7. TypeOK'
  BY <1>2, <1>3, <1>6 DEF TypeOK, FetchQueues
<1>8. outstanding' = (port'.st # "IDLE")
  BY <1>3, <1>4, <1>5
<1>9. discard' = stale'
  <2>1. CASE Flush
    BY <2>1, <1>3, <1>4, <1>5
  <2>2. CASE ~Flush
    BY <2>2, <1>3, <1>4, <1>5
  <2> QED
    BY <2>1, <2>2
<1>10. port'.st # "IDLE" /\ ~stale' => port'.addr = imemPc'
  <2> SUFFICES ASSUME port'.st # "IDLE", ~stale' PROVE port'.addr = imemPc'
    OBVIOUS
  <2>1. ~stale /\ ~Flush
    BY <1>4
  <2>2. ~RespTaken
    BY <1>3
  <2>3. imemPc' = imemPc
    BY <2>1, <2>2, <1>3, <1>4
  <2> QED
    BY <2>1, <2>2, <2>3, <1>3, <1>5
<1> QED
  BY <1>2, <1>4, <1>7, <1>8, <1>9, <1>10 DEF FetchInv

(* Every variable keeps to its type, and the invariant holds.              *)
THEOREM FetchInvariant == Spec => [](TypeOK /\ FetchInv)
<1>1. Init => TypeOK /\ FetchInv
  BY FetchTypeInit, FetchInvInit
<1>2. TypeOK /\ FetchInv /\ [Next]_vars => TypeOK' /\ FetchInv'
  <2> SUFFICES ASSUME TypeOK, FetchInv, [Next]_vars PROVE TypeOK' /\ FetchInv'
    OBVIOUS
  <2>1. CASE Next
    BY <2>1, FetchStep
  <2>2. CASE UNCHANGED vars
    BY <2>2 DEF vars, TypeOK, FetchPortTypeOK, FetchInv, InTurn, Holds
  <2> QED
    BY <2>1, <2>2
<1> QED
  BY <1>1, <1>2, PTL DEF Spec

(* TypeOK in every reachable state.                                        *)
THEOREM FetchTypeCorrect == Spec => []TypeOK
BY FetchInvariant, PTL

(* Dispatch reads the program in order.                                    *)
THEOREM FetchIsInOrder == Spec => []FetchInOrder
<1>1. TypeOK /\ FetchInv => FetchInOrder
  <2> SUFFICES ASSUME TypeOK, FetchInv PROVE FetchInOrder
    OBVIOUS
  <2>1. PICK a \in Nat, b \in Ways : Holds(ways, rdWay, wrWay, pc, imemPc, a, b)
    BY DEF FetchInv, InTurn
  <2>2. \A w \in Ways : Turn(w) = TurnOf(w, rdWay)
    BY DEF Turn, TurnOf
  <2>3. a \in 0 .. ONE_WAY_DEPTH
    <3>1. Len(ways[rdWay]) = a + (IF TurnOf(rdWay, rdWay) < b THEN 1 ELSE 0)
          /\ Len(ways[rdWay]) <= ONE_WAY_DEPTH
      BY <2>1 DEF Holds, TypeOK
    <3> QED
      BY <3>1, FetchAssumption
  <2> QED
    BY <2>1, <2>2, <2>3 DEF Holds, FetchInOrder, FetchInv
<1> QED
  BY <1>1, FetchInvariant, PTL

=============================================================================
