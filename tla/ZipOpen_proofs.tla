---------------------------- MODULE ZipOpen_proofs ----------------------------
(***************************************************************************)
(* What zipOpen4 finds and reads, for every file, window, block size and   *)
(* width of the fields: the search finds the last end record, the fields   *)
(* are read as they were written, the blocks hold the directory, and the   *)
(* comment is what follows the end record.                                 *)
(***************************************************************************)
EXTENDS ZipOpen, SequenceTheorems, WellFoundedInduction, TLAPS

-----------------------------------------------------------------------------
(* Values.                                                                 *)

LEMMA LeastNatural ==
    ASSUME NEW T \in SUBSET Nat, T # {}
    PROVE  \E x \in T : \A y \in T : x <= y
<1> DEFINE R == {ss \in Nat \X Nat : ss[1] < ss[2]}
<1>1. IsWellFoundedOn(R, Nat)
  BY NatLessThanWellFounded, Zenon DEF OpToRel
<1>2. \E x \in T : \A y \in T : ~(<<y, x>> \in R)
  <2> HIDE DEF R
  <2> QED
    BY <1>1, WFMin, Zenon
<1>3. \A x, y \in Nat : ~(<<y, x>> \in R) => x <= y
  OBVIOUS
<1> QED
  BY <1>2, <1>3

LEMMA MaxIsLast ==
    ASSUME NEW n \in Nat, NEW T \in SUBSET (0..n), T # {}
    PROVE  Max(T) \in T /\ \A y \in T : y <= Max(T)
<1> DEFINE D == {m \in Nat : n - m \in T}
<1>1. PICK t \in T : TRUE
  OBVIOUS
<1>2. t \in 0..n /\ n - t \in Nat /\ n - (n - t) = t
  BY <1>1
<1>3. n - t \in D
  BY <1>1, <1>2
<1>4. PICK m \in D : \A y \in D : m <= y
  BY <1>3, LeastNatural
<1>5. \A y \in T : n - y \in Nat /\ n - (n - y) = y
  OBVIOUS
<1>6. \A y \in T : n - y \in D
  BY <1>5
<1>m. m \in Nat /\ n - m \in T
  BY <1>4
<1>7. \A y \in T : y <= n - m
  <2> TAKE y \in T
  <2>1. m <= n - y
    BY <1>4, <1>6
  <2>2. y \in Nat
    OBVIOUS
  <2> QED
    BY <2>1, <2>2, <1>m
<1>8. n - m \in T
  BY <1>m
<1>9. \E x \in T : \A y \in T : x >= y
  <2>1. \A y \in T : n - m >= y
    BY <1>4, <1>7
  <2> QED
    BY <1>8, <2>1
<1>10. Max(T) \in T /\ \A y \in T : Max(T) >= y
  BY <1>9 DEF Max
<1> QED
  BY <1>10

IsShifts(s, x, n) == s = [i \in 0..n |-> IF i = 0 THEN x ELSE s[i - 1] \div Byte]

\* The recursion of Shifts has a solution.
LEMMA ShiftsExist ==
    ASSUME NEW x \in Nat, NEW n \in Nat
    PROVE  \E s : IsShifts(s, x, n)
<1> DEFINE T == {m \in Nat : ~\E s : IsShifts(s, x, m)}
<1> SUFFICES T = {}
  OBVIOUS
<1> SUFFICES ASSUME T # {} PROVE FALSE
  OBVIOUS
<1>1. PICK m \in T : \A y \in T : m <= y
  BY LeastNatural
<1>2. CASE m = 0
  <2> DEFINE s == [i \in 0..0 |-> x]
  <2>1. s = [i \in 0..0 |-> IF i = 0 THEN x ELSE s[i - 1] \div Byte]
    OBVIOUS
  <2> HIDE DEF s
  <2> QED
    BY <1>1, <1>2, <2>1 DEF IsShifts
<1>3. CASE m # 0
  <2>1. m - 1 \in Nat /\ m - 1 \notin T
    BY <1>1, <1>3
  <2>2. PICK g : IsShifts(g, x, m - 1)
    BY <2>1
  <2> DEFINE s == [i \in 0..m |-> IF i = m THEN g[m - 1] \div Byte ELSE g[i]]
  <2>3. g = [i \in 0..(m - 1) |-> IF i = 0 THEN x ELSE g[i - 1] \div Byte]
    BY <2>2 DEF IsShifts
  <2>4. \A i \in 0..m : s[i] = IF i = 0 THEN x ELSE s[i - 1] \div Byte
    <3> TAKE i \in 0..m
    <3>1. CASE i = m
      <4>1. i # 0 /\ i - 1 \in 0..m /\ i - 1 # m
        BY <1>3, <3>1
      <4> QED
        BY <3>1, <4>1
    <3>2. CASE i # m
      <4>1. i \in 0..(m - 1) /\ (i # 0 => i - 1 \in 0..m /\ i - 1 # m)
        BY <3>2, <2>1
      <4> QED
        BY <2>3, <3>2, <4>1
    <3> QED
      BY <3>1, <3>2
  <2>5. s = [i \in 0..m |-> s[i]]
    OBVIOUS
  <2> HIDE DEF s
  <2>6. s = [i \in 0..m |-> IF i = 0 THEN x ELSE s[i - 1] \div Byte]
    BY <2>4, <2>5
  <2> QED
    BY <1>1, <2>6 DEF IsShifts
<1> QED
  BY <1>2, <1>3

LEMMA ShiftsValues ==
    ASSUME NEW x \in Nat, NEW n \in Nat
    PROVE  LET s == Shifts(x, n)
           IN  /\ s[0] = x
               /\ \A i \in 1..n : s[i] = s[i - 1] \div Byte
               /\ \A i \in 0..n : s[i] \in Nat
<1> DEFINE s == Shifts(x, n)
<1>1. s = CHOOSE f : f = [i \in 0..n |-> IF i = 0 THEN x ELSE f[i - 1] \div Byte]
  BY DEF Shifts
<1>2. s = CHOOSE f : IsShifts(f, x, n)
  BY <1>1 DEF IsShifts
<1>3. IsShifts(s, x, n)
  BY <1>2, ShiftsExist
<1> HIDE DEF s
<1>4. \A i \in 0..n : s[i] = IF i = 0 THEN x ELSE s[i - 1] \div Byte
  BY <1>3 DEF IsShifts
<1>5. s[0] = x /\ \A i \in 1..n : s[i] = s[i - 1] \div Byte
  BY <1>4
<1>6. \A i \in 0..n : s[i] \in Nat
  <2> DEFINE T == {i \in 0..n : s[i] \notin Nat}
  <2> SUFFICES ASSUME T # {} PROVE FALSE
    OBVIOUS
  <2>0. T \in SUBSET Nat
    OBVIOUS
  <2>1. PICK m \in T : \A y \in T : m <= y
    <3> HIDE DEF T
    <3> QED
      BY <2>0, LeastNatural
  <2>2. m # 0
    BY <1>5, <2>1
  <2>3. m - 1 \in 0..n /\ m \in 1..n /\ m - 1 \notin T
    BY <2>1, <2>2
  <2>4. s[m - 1] \in Nat /\ s[m] = s[m - 1] \div Byte
    BY <1>5, <2>3
  <2>5. Byte \in Nat \ {0}
    BY SizesAssumption
  <2>6. s[m] \in Nat
    BY <2>4, <2>5
  <2> QED
    BY <2>1, <2>6
<1> QED
  BY <1>5, <1>6 DEF s

\* Of the bytes of a value that fits, the value is read again.
LEMMA RoundTrip ==
    ASSUME NEW x \in Nat, NEW len \in Nat \ {0}, NEW have \in Int,
           have >= len, Fits(x, len)
    PROVE  ReadUInt(WriteValue(x, len), len, have) = x
<1> DEFINE s == Shifts(x, len)
           b == WriteValue(x, len)
           Is(f) == f = [i \in 0..len |-> IF i = len THEN 0
                            ELSE (IF have <= 0 THEN 0
                                  ELSE b[IF i < have THEN i ELSE have - 1])
                                 + Byte * f[i + 1]]
           from == CHOOSE f : Is(f)
<1>1. ReadUInt(b, len, have) = from[0]
  BY DEF ReadUInt
<1>2. b = [i \in 0..(len - 1) |-> s[i] % Byte]
  BY DEF WriteValue
<1>3. s[0] = x /\ (\A i \in 1..len : s[i] = s[i - 1] \div Byte) /\ \A i \in 0..len : s[i] \in Nat
  BY ShiftsValues
<1>4. s[len] = 0
  BY DEF Fits
<1>5. Byte \in Nat \ {0}
  BY SizesAssumption
<1> HIDE DEF s, b
<1>6. \A i \in 0..(len - 1) : s[i] = b[i] + Byte * s[i + 1]
  <2> TAKE i \in 0..(len - 1)
  <2>1. i + 1 \in 1..len /\ (i + 1) - 1 = i
    OBVIOUS
  <2>2. s[i + 1] = s[i] \div Byte /\ s[i] \in Nat
    <3>1. i \in 0..len
      OBVIOUS
    <3> QED
      BY <1>3, <2>1, <3>1
  <2>3. s[i] = (s[i] % Byte) + Byte * (s[i] \div Byte)
    BY <1>5, <2>2
  <2> QED
    BY <1>2, <2>2, <2>3
<1>7. \A f : \A i \in 0..(len - 1) :
        (IF i = len THEN 0
         ELSE (IF have <= 0 THEN 0 ELSE b[IF i < have THEN i ELSE have - 1])
              + Byte * f[i + 1]) = b[i] + Byte * f[i + 1]
  <2> TAKE f
  <2> TAKE i \in 0..(len - 1)
  <2>1. i # len /\ ~(have <= 0) /\ i < have
    OBVIOUS
  <2> QED
    BY <2>1, Zenon
<1>8. Is(from)
  <2> DEFINE g == [i \in 0..len |-> s[i]]
  <2>1. \A i \in 0..len : g[i] = IF i = len THEN 0
                            ELSE (IF have <= 0 THEN 0
                                  ELSE b[IF i < have THEN i ELSE have - 1])
                                 + Byte * g[i + 1]
    <3> TAKE i \in 0..len
    <3>1. CASE i = len
      BY <1>4, <3>1
    <3>2. CASE i # len
      <4>1. i \in 0..(len - 1) /\ i + 1 \in 0..len
        BY <3>2
      <4>2. g[i] = s[i] /\ g[i + 1] = s[i + 1]
        BY <4>1
      <4>3. g[i] = b[i] + Byte * g[i + 1]
        BY <1>6, <4>1, <4>2
      <4> QED
        BY <1>7, <4>1, <4>3
    <3> QED
      BY <3>1, <3>2
  <2>2. g = [i \in 0..len |-> g[i]]
    OBVIOUS
  <2> HIDE DEF g
  <2>3. Is(g)
    BY <2>1, <2>2
  <2> QED
    BY <2>3
<1>9. from[len] = 0 /\ \A i \in 0..(len - 1) : from[i] = b[i] + Byte * from[i + 1]
  <2> HIDE DEF from
  <2>1. \A i \in 0..len : from[i] = IF i = len THEN 0
                            ELSE (IF have <= 0 THEN 0
                                  ELSE b[IF i < have THEN i ELSE have - 1])
                                 + Byte * from[i + 1]
    BY <1>8
  <2>2. from[len] = 0
    <3>1. len \in 0..len
      OBVIOUS
    <3> QED
      BY <2>1, <3>1
  <2>3. ASSUME NEW i \in 0..(len - 1)
        PROVE  from[i] = b[i] + Byte * from[i + 1]
    <3>1. i \in 0..len
      OBVIOUS
    <3> QED
      BY <1>7, <2>1, <3>1
  <2> QED
    BY <2>2, <2>3
<1> HIDE DEF from
<1>10. \A i \in 0..len : from[i] = s[i]
  <2> DEFINE T == {k \in 0..len : from[len - k] # s[len - k]}
  <2> SUFFICES ASSUME NEW i \in 0..len, from[i] # s[i]
               PROVE  FALSE
    OBVIOUS
  <2>e. len - i \in 0..len /\ len - (len - i) = i
    OBVIOUS
  <2>f. len - i \in T
    BY <2>e
  <2>0. T \in SUBSET Nat
    OBVIOUS
  <2>1. PICK k \in T : \A y \in T : k <= y
    <3> HIDE DEF T
    <3> QED
      BY <2>0, <2>f, LeastNatural
  <2>2. k \in 0..len /\ from[len - k] # s[len - k]
    BY <2>1
  <2>3. k # 0
    <3> SUFFICES ASSUME k = 0 PROVE FALSE
      OBVIOUS
    <3>1. len - k = len
      OBVIOUS
    <3> QED
      BY <1>4, <1>9, <2>2, <3>1
  <2>4. k - 1 \in 0..len /\ ~(k <= k - 1) /\ len - (k - 1) = (len - k) + 1
    BY <2>2, <2>3
  <2>5. k - 1 \notin T
    BY <2>1, <2>4
  <2>6. from[(len - k) + 1] = s[(len - k) + 1]
    BY <2>4, <2>5
  <2>7. len - k \in 0..(len - 1)
    BY <2>2, <2>3
  <2> QED
    BY <1>6, <1>9, <2>2, <2>6, <2>7
<1>11. from[0] = s[0]
  <2>1. 0 \in 0..len
    OBVIOUS
  <2> QED
    BY <1>10, <2>1
<1> QED
  BY <1>1, <1>3, <1>11 DEF b

-----------------------------------------------------------------------------
(* The blocks.                                                             *)

LEMMA Quotients ==
    ASSUME NEW b \in Nat \ {0}, NEW n \in 1..b
    PROVE  (b - 1) \div b = 0 /\ (n + (b - 1)) \div b = 1
<1>1. (b - 1) \div b = 0
  OBVIOUS
<1> DEFINE x == n + (b - 1)
           q == x \div b
           m == x % b
<1>2. x \in Nat /\ x >= b /\ x < b + b
  OBVIOUS
<1> HIDE DEF x
<1>3. x = m + b * q
  BY <1>2
<1>4. m \in 0..(b - 1)
  BY <1>2
<1>5. q \in Int
  BY <1>2
<1> HIDE DEF q, m
<1>6. ~(q <= 0)
  <2> SUFFICES ASSUME q <= 0 PROVE FALSE
    OBVIOUS
  <2> DEFINE y == b * q
  <2>1. y <= 0 /\ y \in Int
    BY <1>5
  <2> HIDE DEF y
  <2> QED
    BY <1>2, <1>3, <1>4, <2>1 DEF y
<1>7. ~(q >= 2)
  <2> SUFFICES ASSUME q >= 2 PROVE FALSE
    OBVIOUS
  <2> DEFINE y == b * q
  <2>1. y >= b + b /\ y \in Int
    BY <1>5
  <2>2. x = m + y
    BY <1>3
  <2> HIDE DEF y
  <2> QED
    BY <1>2, <1>4, <2>1, <2>2
<1>8. q = 1
  BY <1>5, <1>6, <1>7
<1> QED
  BY <1>1, <1>8 DEF q, x

LEMMA SameLast ==
    ASSUME NEW S, NEW s \in Seq(S), NEW i \in 1..Len(s)
    PROVE  [s EXCEPT ![i] = s[i]] = s
  OBVIOUS
LEMMA OneElement ==
    ASSUME NEW s, NEW d, s = <<<<>>>>
    PROVE  [s EXCEPT ![1] = d] = <<d>>
  OBVIOUS

LEMMA OneBlockMore ==
    ASSUME NEW blocks \in Seq(Seq(Int)), NEW data \in Seq(Int),
           Len(data) \in 1..BlockSize,
           \A i \in 1..Len(blocks) : Len(blocks[i]) = BlockSize
    PROVE  AddData(blocks, data) = Append(blocks, data)
<1> DEFINE list == IF blocks = <<>> THEN <<<<>>>> ELSE blocks
           room == BlockSize - Len(list[Len(list)])
           End(i) == IF room + i * BlockSize < Len(data) THEN room + i * BlockSize ELSE Len(data)
           more == (Len(data) - End(0) + BlockSize - 1) \div BlockSize
           first == [list EXCEPT ![Len(list)] = @ \o SubSeq(data, 1, End(0))]
           rest == [i \in 1..more |-> SubSeq(data, End(i - 1) + 1, End(i))]
           n == Len(data)
<1>1. AddData(blocks, data) = first \o rest
  BY DEF AddData
<1>2. BlockSize \in Nat \ {0}
  BY SizesAssumption
<1>3. n \in 1..BlockSize /\ n \in Nat
  OBVIOUS
<1>4. SubSeq(data, 1, n) = data
  OBVIOUS
<1>5. 0 * BlockSize = 0 /\ 1 * BlockSize = BlockSize
  BY <1>2
<1>6. CASE blocks = <<>>
  <2>1. list = <<<<>>>> /\ Len(list) = 1 /\ list[1] = <<>> /\ Len(list[1]) = 0
    BY <1>6
  <2>2. room = BlockSize
    BY <1>2, <2>1
  <2> HIDE DEF room, list
  <2>3. End(0) = n
    <3>1. room + 0 * BlockSize = BlockSize
      BY <1>2, <1>5, <2>2
    <3> QED
      BY <1>2, <1>3, <3>1
  <2>4. more = 0
    <3> HIDE DEF n, End
    <3>1. n - n + BlockSize - 1 = BlockSize - 1
      BY <1>2, <1>3
    <3>2. (BlockSize - 1) \div BlockSize = 0
      BY <1>2, <1>3, Quotients
    <3>3. Len(data) - End(0) + BlockSize - 1 = n - n + BlockSize - 1
      BY <2>3 DEF n
    <3> QED
      BY <3>1, <3>2, <3>3
  <2>5. rest = <<>>
    <3> HIDE DEF more, End
    <3> QED
      BY <2>4
  <2>6. first = <<data>>
    <3>1. <<>> \o data = data
      OBVIOUS
    <3> HIDE DEF End
    <3>2. list[Len(list)] \o SubSeq(data, 1, End(0)) = data
      BY <1>4, <2>1, <2>3, <3>1
    <3>3. first = [list EXCEPT ![1] = data]
      BY <2>1, <3>2
    <3> HIDE DEF first
    <3> QED
      BY <2>1, <3>3, OneElement
  <2> HIDE DEF first, rest
  <2> QED
    BY <1>1, <1>6, <2>5, <2>6
<1>7. CASE blocks # <<>>
  <2>1. list = blocks /\ Len(blocks) \in Nat \ {0}
    BY <1>7
  <2>2. Len(blocks) \in 1..Len(blocks) /\ blocks[Len(blocks)] \in Seq(Int)
    BY <2>1
  <2>3. room = 0
    BY <1>2, <2>1, <2>2
  <2> HIDE DEF room, list
  <2>4. End(0) = 0 /\ End(1) = n
    <3>1. room + 0 * BlockSize = 0 /\ room + 1 * BlockSize = BlockSize
      BY <1>2, <1>5, <2>3
    <3> QED
      BY <1>2, <1>3, <3>1
  <2>5. more = 1
    <3> HIDE DEF n, End
    <3>1. n - 0 + BlockSize - 1 = n + (BlockSize - 1) /\ n + (BlockSize - 1) \in Nat
      BY <1>2, <1>3
    <3>2. (n + (BlockSize - 1)) \div BlockSize = 1
      BY <1>2, <1>3, Quotients
    <3>3. Len(data) - End(0) + BlockSize - 1 = n - 0 + BlockSize - 1
      BY <2>4 DEF n
    <3> QED
      BY <3>1, <3>2, <3>3
  <2>6. rest = <<data>>
    <3> HIDE DEF more, n
    <3>1. 1 - 1 = 0 /\ 0 + 1 = 1
      OBVIOUS
    <3>2. SubSeq(data, End(1 - 1) + 1, End(1)) = data
      <4> HIDE DEF End
      <4> QED
        BY <1>4, <2>4, <3>1
    <3> HIDE DEF End
    <3>3. rest = [i \in 1..1 |-> data]
      BY <2>5, <3>2
    <3> QED
      BY SMTT(20), <3>3
  <2>7. first = blocks
    <3> HIDE DEF n
    <3>1. SubSeq(data, 1, 0) = <<>>
      OBVIOUS
    <3>2. blocks[Len(blocks)] \o <<>> = blocks[Len(blocks)]
      BY <2>2
    <3> HIDE DEF End
    <3>3. list[Len(list)] \o SubSeq(data, 1, End(0)) = blocks[Len(blocks)]
      BY <2>1, <2>4, <3>1, <3>2
    <3>4. first = [blocks EXCEPT ![Len(blocks)] = blocks[Len(blocks)]]
      BY <2>1, <3>3
    <3> HIDE DEF first
    <3> QED
      BY <2>2, <3>4, SameLast
  <2>8. blocks \o <<data>> = Append(blocks, data)
    OBVIOUS
  <2> HIDE DEF first, rest
  <2> QED
    BY <1>1, <2>6, <2>7, <2>8
<1> QED
  BY <1>6, <1>7

\* The blocks go on where they end.
LEMMA BlocksGrow ==
    ASSUME NEW blocks \in Seq(Seq(Int)), NEW place \in Int, NEW number \in Nat,
           NEW n \in 1..BlockSize,
           InBlocks(blocks, place, number),
           \A i \in 1..Len(blocks) : Len(blocks[i]) = BlockSize
    PROVE  LET b == AddData(blocks, [i \in 1..n |-> place + number + i])
           IN  /\ b \in Seq(Seq(Int))
               /\ InBlocks(b, place, number + n)
               /\ n = BlockSize => \A i \in 1..Len(b) : Len(b[i]) = BlockSize
<1> DEFINE data == [i \in 1..n |-> place + number + i]
           b == AddData(blocks, data)
           m == Len(blocks)
<1>1. BlockSize \in Nat \ {0} /\ m \in Nat /\ n \in Nat
  BY SizesAssumption
<1>2. data \in Seq(Int) /\ Len(data) = n
  <2>1. data \in [1..n -> Int]
    OBVIOUS
  <2> HIDE DEF data
  <2> QED
    BY <1>1, <2>1
<1>3. \A k \in 1..n : data[k] = place + number + k
  OBVIOUS
<1>e. b = AddData(blocks, data)
  OBVIOUS
<1> HIDE DEF data, b
<1>4. b = Append(blocks, data)
  BY <1>2, <1>e, OneBlockMore
<1>5. /\ b \in Seq(Seq(Int)) /\ Len(b) = m + 1
      /\ \A i \in 1..m : b[i] = blocks[i]
      /\ b[m + 1] = data
  BY <1>2, <1>4
<1>6. number = m * BlockSize
  <2>1. number = IF m = 0 THEN 0 ELSE (m - 1) * BlockSize + Len(blocks[m])
    BY DEF InBlocks
  <2>2. CASE m = 0
    BY <1>1, <2>1, <2>2
  <2>3. CASE m # 0
    <3>1. Len(blocks[m]) = BlockSize
      BY <1>1, <2>3
    <3>2. (m - 1) * BlockSize + BlockSize = m * BlockSize
      BY <1>1
    <3> QED
      BY <2>1, <2>3, <3>1, <3>2
  <2> QED
    BY <2>2, <2>3
<1>7. \A i \in 1..(m + 1) : \A k \in 1..Len(b[i]) :
          b[i][k] = place + (i - 1) * BlockSize + k
  <2> TAKE i \in 1..(m + 1)
  <2>1. CASE i \in 1..m
    BY <1>5, <2>1 DEF InBlocks
  <2>2. CASE i = m + 1
    <3>1. i - 1 = m
      BY <1>1, <2>2
    <3> QED
      BY <1>2, <1>3, <1>5, <1>6, <2>2, <3>1
  <2>3. i \in 1..m \/ i = m + 1
    BY <1>1
  <2> QED
    BY <2>1, <2>2, <2>3
<1>8. \A i \in 1..m : Len(b[i]) = BlockSize
  BY <1>5
<1>9. number + n = (m + 1 - 1) * BlockSize + Len(b[m + 1])
  <2>1. m + 1 - 1 = m
    BY <1>1
  <2> QED
    BY <1>2, <1>5, <1>6, <2>1
<1>10. InBlocks(b, place, number + n)
  <2>1. m + 1 # 0 /\ m + 1 - 1 = m
    BY <1>1
  <2> HIDE DEF m
  <2>2. \A i \in 1..Len(b) : \A k \in 1..Len(b[i]) :
            b[i][k] = place + (i - 1) * BlockSize + k
    BY <1>5, <1>7, Zenon
  <2>0. Len(b) = m + 1 /\ Len(b) - 1 = m /\ Len(b) # 0
    BY <1>1, <1>5, <2>1
  <2>3. \A i \in 1..(Len(b) - 1) : Len(b[i]) = BlockSize
    BY <1>8, <2>0, Zenon
  <2>4. number + n = IF Len(b) = 0 THEN 0 ELSE (Len(b) - 1) * BlockSize + Len(b[Len(b)])
    BY <1>9, <2>0, <2>1, Zenon
  <2> QED
    BY <2>2, <2>3, <2>4, Zenon DEF InBlocks
<1>11. n = BlockSize => \A i \in 1..Len(b) : Len(b[i]) = BlockSize
  <2> SUFFICES ASSUME n = BlockSize, NEW i \in 1..(m + 1) PROVE Len(b[i]) = BlockSize
    BY <1>5
  <2>1. i \in 1..m \/ i = m + 1
    BY <1>1
  <2> QED
    BY <1>2, <1>5, <1>8, <2>1
<1> QED
  BY <1>5, <1>10, <1>11 DEF b, data

-----------------------------------------------------------------------------
(* The files and their records.                                            *)

LEMMA FileFacts ==
    ASSUME NEW f \in Files
    PROVE  /\ f.size \in Nat /\ f.size <= Max64
           /\ f.ends \subseteq 0..(f.size - 4)
           /\ \A p \in f.ends \cup {0} :
                /\ f.record[p].size \in Nat /\ f.record[p].offset \in Nat
                /\ f.record[p].have \in Nat
                /\ Fits(f.record[p].size, Long) /\ Fits(f.record[p].offset, Long)
           /\ \A e \in f.ends64 : e.at \in 0..f.size /\ e.size \in Nat /\ e.offset \in Nat
<1>1. \A p \in f.ends \cup {0} : f.record[p] \in Records
  BY FilesAssumption
<1>2. Fields[3] = "size" /\ Fields[4] = "offset" /\ Widths[3] = Long /\ Widths[4] = Long
  BY DEF Fields, Widths
<1>3. ASSUME NEW p \in f.ends \cup {0}
      PROVE  /\ f.record[p].size \in Nat /\ f.record[p].offset \in Nat
             /\ f.record[p].have \in Nat
             /\ Fits(f.record[p].size, Long) /\ Fits(f.record[p].offset, Long)
  <2>1. \A i \in 1..5 : Fits(f.record[p][Fields[i]], Widths[i])
    BY FilesAssumption
  <2>2. Fits(f.record[p]["size"], Long) /\ Fits(f.record[p]["offset"], Long)
    <3>1. 3 \in 1..5 /\ 4 \in 1..5
      OBVIOUS
    <3> QED
      BY <1>2, <2>1, <3>1
  <2>3. f.record[p].size \in Nat /\ f.record[p].offset \in Nat /\ f.record[p].have \in Nat
    BY <1>1 DEF Records
  <2> QED
    BY <2>2, <2>3
<1>4. f.size \in Nat /\ f.size <= Max64
  <2>1. f.size \in 0..Max64
    BY FilesAssumption, Zenon
  <2>2. Max64 \in Nat
    BY SizesAssumption, Zenon
  <2> QED
    BY <2>1, <2>2
<1> QED
  BY <1>3, <1>4, FilesAssumption

\* The search believes in the size of the file, unless it is UINT32_MAX.
LEMMA FileSizes ==
    ASSUME file \in Files
    PROVE  /\ FileSize \in Nat /\ file.size \in Nat /\ file.size <= FileSize
           /\ (narrow => file.size < Max32) => FileSize = file.size
<1>1. /\ file.size \in Nat /\ file.size <= Max64
      /\ Max32 \in Nat /\ Max64 \in Nat /\ Max32 <= Max64
  BY FileFacts, SizesAssumption
<1> QED
  BY <1>1 DEF FileSize, Tell

\* The fields of a whole record are read as they were written.
LEMMA RecordRead ==
    ASSUME file \in Files, NEW p \in file.ends \cup {0},
           file.record[p].have >= 2 * Short + 2 * Long + Short
    PROVE  /\ ReadRecord(p).size = file.record[p].size
           /\ ReadRecord(p).offset = file.record[p].offset
<1> DEFINE r == file.record[p]
<1>1. /\ r.size \in Nat /\ r.offset \in Nat /\ r.have \in Nat
      /\ Fits(r.size, Long) /\ Fits(r.offset, Long)
  BY FileFacts
<1>2. Short \in Nat \ {0} /\ Long \in Nat \ {0}
  BY SizesAssumption
<1>3. ReadRecord(p).size = ReadUInt(WriteValue(r.size, Long), Long, r.have - 2 * Short)
  BY DEF ReadRecord, Fields, Widths
<1>4. ReadRecord(p).offset
        = ReadUInt(WriteValue(r.offset, Long), Long, r.have - (2 * Short + Long))
  BY DEF ReadRecord, Fields, Widths
<1> DEFINE h1 == r.have - 2 * Short
           h2 == r.have - (2 * Short + Long)
<1>5. h1 \in Int /\ h1 >= Long /\ h2 \in Int /\ h2 >= Long
  BY <1>1, <1>2
<1> HIDE DEF h1, h2, r
<1> QED
  BY <1>1, <1>2, <1>3, <1>4, <1>5, RoundTrip DEF h1, h2, r

LEMMA RecordFields ==
    ASSUME NEW p
    PROVE  LET r == ReadRecord(p)
           IN  r = [entriesOnDisk |-> r.entriesOnDisk, entries |-> r.entries,
                    size |-> r.size, offset |-> r.offset, comment |-> r.comment]
  BY DEF ReadRecord

-----------------------------------------------------------------------------
(* The inductive invariant: what the search has left out so far, and what  *)
(* the directory read so far has to do with the record it is read from.    *)

\* The steps between the choice of a handle and the handle itself.
Searching == {"search", "window", "end", "search64", "end64", "check", "comment",
              "place", "read"}

\* The places of end records the search can find.
Ends == file.ends \ {0}

\* Only an archive to add to is searched, and it is one of the files.
Adds == /\ pc \in Searching => append = "addInZip"
        /\ append = "addInZip" => file \in Files

\* From the second window on, no end record is in the part searched.
Sought ==
    /\ faults \in Nat /\ back_read \in Nat
    /\ pc = "window" =>
        /\ back_read >= 4
        /\ back_read # 4 => \A p \in Ends : p < FileSize - back_read

FoundLast == pc = "end" /\ faults = 0 /\ (narrow => file.size < Max32) =>
    endPos = IF {p \in Ends : p >= file.size - Back} = {} \/ Back <= 4 THEN 0
             ELSE Max({p \in Ends : p >= file.size - Back})

\* central_pos is the end record until a zip64 one takes its place.
EndFound ==
    /\ append = "addInZip" => endPos \in file.ends \cup {0}
    /\ append = "addInZip" => central_pos \in 0..file.size
    /\ pc \in {"open", "mode", "alloc", "search", "window", "end", "search64"} =>
           central_pos = endPos
    /\ pc = "end64" => \E e \in file.ends64 : e.at = central_pos

NoError ==
    pc \in {"open", "mode", "alloc", "search", "window", "end", "search64", "end64",
            "handle"} => err = "ok"

NothingYet ==
    /\ pc \notin {"read", "handle", "null"} => central_dir = <<>>
    /\ pc \notin {"place", "read", "handle", "null"} => comment = -1

\* The fields read are those of the end record or of a zip64 one.
DirIs ==
    /\ dir = [entriesOnDisk |-> dir.entriesOnDisk, entries |-> dir.entries,
              size |-> dir.size, offset |-> dir.offset, comment |-> dir.comment]
    /\ \/ dir.size = file.record[endPos].size /\ dir.offset = file.record[endPos].offset
       \/ \E e \in file.ends64 : dir.size = e.size /\ dir.offset = e.offset

DirPlaced == DirIs /\ central_pos >= DirEnd

\* The stream is where the bytes in the blocks end; blocks are full until
\* nothing is left to read.
Copied ==
    /\ DirPlaced
    /\ before = central_pos - DirEnd
    /\ todo \in 0..dir.size
    /\ central_dir \in Seq(Seq(Int))
    /\ at = Place + (dir.size - todo)
    /\ InBlocks(central_dir, Place, dir.size - todo)
    /\ todo > 0 => \A i \in 1..Len(central_dir) : Len(central_dir[i]) = BlockSize
    /\ todo # dir.size => at <= file.size

\* The stream is where the directory was.
Returning ==
    /\ DirIs
    /\ at = Place /\ lastOp = "seek"
    /\ InBlocks(central_dir, Place, dir.size)
    /\ at + dir.size <= file.size

ReadWell == append = "addInZip" /\ Whole /\ err = "ok" =>
    /\ pc \in {"search64", "end64", "check"} => DirIs
    /\ pc \in {"comment", "place"} => DirPlaced
    /\ pc = "read" => Copied
    /\ pc = "handle" => Returning

\* Until the comment is read the stream stays behind the end record.
CommentIs ==
    comment # -1 => comment = endPos + EndSize /\ comment + dir.comment <= file.size

CommentWell == append = "addInZip" /\ ~Wide /\ err = "ok" =>
    /\ pc \notin {"search64", "end64"}
    /\ pc \in {"check", "comment"} => at = endPos + EndSize
    /\ pc \in {"place", "read", "handle"} =>
           CommentIs /\ (dir.comment > 0 /\ faults = 0 => comment # -1)

IInv == /\ Adds /\ Sought /\ FoundLast /\ EndFound
        /\ NoError /\ NothingYet /\ ReadWell /\ CommentWell

-----------------------------------------------------------------------------
(* What each part of it rests on when a step is taken.                     *)

LEMMA AddsKept ==
    ASSUME Adds, [Next]_vars
    PROVE  Adds'
<1>1. CASE OpenFile
  BY <1>1 DEF Adds, Searching, OpenFile, Fault, ReturnNull, argVars, streamVars, searchVars, dirVars
<1>2. CASE CheckMode
  BY <1>2 DEF Adds, Searching, CheckMode, Seek, ReturnNull, argVars, streamVars, searchVars, dirVars
<1>3. CASE AllocHandle
  BY <1>3 DEF Adds, Searching, AllocHandle, Fault, ReturnNull, argVars, streamVars, searchVars, dirVars
<1>4. CASE SearchCentralDir
  BY <1>4 DEF Adds, Searching, SearchCentralDir, Seek, Fault, argVars, streamVars, searchVars, dirVars
<1>5. CASE SearchWindow
  BY <1>5 DEF Adds, Searching, SearchWindow, Found, Fault, argVars, streamVars, searchVars, dirVars
<1>6. CASE SearchEnds
  BY <1>6 DEF Adds, Searching, SearchEnds, Found, argVars, streamVars, searchVars, dirVars
<1>7. CASE ReadEnd
  BY <1>7 DEF Adds, Searching, ReadEnd, Fault, argVars, streamVars, searchVars, dirVars
<1>8. CASE SearchCentralDir64
  BY <1>8 DEF Adds, Searching, SearchCentralDir64, Fault, argVars, streamVars, searchVars, dirVars
<1>9. CASE ReadEnd64
  BY <1>9 DEF Adds, Searching, ReadEnd64, Fault, argVars, streamVars, searchVars, dirVars
<1>10. CASE CheckPlace
  BY <1>10 DEF Adds, Searching, CheckPlace, argVars, streamVars, searchVars, dirVars
<1>11. CASE ReadComment
  BY <1>11 DEF Adds, Searching, ReadComment, Read, Fault, argVars, streamVars, searchVars, dirVars
<1>12. CASE GoToDirectory
  BY <1>12 DEF Adds, Searching, GoToDirectory, Seek, Fault, ReturnNull, argVars, streamVars, searchVars, dirVars
<1>13. CASE ReadBlock
  BY <1>13 DEF Adds, Searching, ReadBlock, Read, Fault, argVars, streamVars, searchVars, dirVars
<1>14. CASE GoBack
  BY <1>14 DEF Adds, Searching, GoBack, Seek, Fault, ReturnNull, argVars, streamVars, searchVars, dirVars
<1>15. CASE UNCHANGED vars
  BY <1>15 DEF Adds, Searching, vars, argVars, streamVars, searchVars, dirVars
<1> QED
  BY <1>1, <1>2, <1>3, <1>4, <1>5, <1>6, <1>7, <1>8, <1>9, <1>10, <1>11, <1>12, <1>13, <1>14, <1>15 DEF Next, Steps, Returned

LEMMA NoErrorKept ==
    ASSUME NoError, [Next]_vars
    PROVE  NoError'
<1>1. CASE OpenFile
  BY <1>1 DEF NoError, OpenFile, Fault, ReturnNull, argVars, streamVars, searchVars, dirVars
<1>2. CASE CheckMode
  BY <1>2 DEF NoError, CheckMode, Seek, ReturnNull, argVars, streamVars, searchVars, dirVars
<1>3. CASE AllocHandle
  BY <1>3 DEF NoError, AllocHandle, Fault, ReturnNull, argVars, streamVars, searchVars, dirVars
<1>4. CASE SearchCentralDir
  BY <1>4 DEF NoError, SearchCentralDir, Seek, Fault, argVars, streamVars, searchVars, dirVars
<1>5. CASE SearchWindow
  BY <1>5 DEF NoError, SearchWindow, Found, Fault, argVars, streamVars, searchVars, dirVars
<1>6. CASE SearchEnds
  BY <1>6 DEF NoError, SearchEnds, Found, argVars, streamVars, searchVars, dirVars
<1>7. CASE ReadEnd
  BY <1>7 DEF NoError, ReadEnd, Fault, argVars, streamVars, searchVars, dirVars
<1>8. CASE SearchCentralDir64
  BY <1>8 DEF NoError, SearchCentralDir64, Fault, argVars, streamVars, searchVars, dirVars
<1>9. CASE ReadEnd64
  BY <1>9 DEF NoError, ReadEnd64, Fault, argVars, streamVars, searchVars, dirVars
<1>10. CASE CheckPlace
  BY <1>10 DEF NoError, CheckPlace, argVars, streamVars, searchVars, dirVars
<1>11. CASE ReadComment
  BY <1>11 DEF NoError, ReadComment, Read, Fault, argVars, streamVars, searchVars, dirVars
<1>12. CASE GoToDirectory
  BY <1>12 DEF NoError, GoToDirectory, Seek, Fault, ReturnNull, argVars, streamVars, searchVars, dirVars
<1>13. CASE ReadBlock
  BY <1>13 DEF NoError, ReadBlock, Read, Fault, argVars, streamVars, searchVars, dirVars
<1>14. CASE GoBack
  BY <1>14 DEF NoError, GoBack, Seek, Fault, ReturnNull, argVars, streamVars, searchVars, dirVars
<1>15. CASE UNCHANGED vars
  BY <1>15 DEF NoError, vars, argVars, streamVars, searchVars, dirVars
<1> QED
  BY <1>1, <1>2, <1>3, <1>4, <1>5, <1>6, <1>7, <1>8, <1>9, <1>10, <1>11, <1>12, <1>13, <1>14, <1>15 DEF Next, Steps, Returned

\* The last of the magics a window holds.
LEMMA LastHit ==
    ASSUME file \in Files, NEW T \in SUBSET file.ends, ~(T \subseteq {0})
    PROVE  /\ Max(T) \in T /\ \A y \in T : y <= Max(T)
           /\ Max(T) \in 1..(file.size - 4)
<1>1. file.size \in Nat /\ file.ends \subseteq 0..(file.size - 4)
  BY FileFacts
<1>2. PICK t \in T : t # 0
  OBVIOUS
<1>3. T \in SUBSET (0..file.size) /\ T # {}
  BY <1>1, <1>2
<1>4. Max(T) \in T /\ \A y \in T : y <= Max(T)
  BY <1>1, <1>3, MaxIsLast
<1>5. t \in 1..(file.size - 4) /\ t <= Max(T)
  BY <1>1, <1>2, <1>4
<1>6. Max(T) \in 0..(file.size - 4)
  BY <1>1, <1>4
<1> QED
  BY <1>1, <1>4, <1>5, <1>6

LEMMA EndFoundKept ==
    ASSUME EndFound, Adds, [Next]_vars
    PROVE  EndFound'
<1>1. CASE OpenFile
  BY <1>1 DEF EndFound, searchVars, OpenFile, Fault, ReturnNull, argVars, streamVars, searchVars, dirVars
<1>2. CASE CheckMode
  BY <1>2 DEF EndFound, searchVars, CheckMode, Seek, ReturnNull, argVars, streamVars, searchVars, dirVars
<1>3. CASE AllocHandle
  BY <1>3 DEF EndFound, searchVars, AllocHandle, Fault, ReturnNull, argVars, streamVars, searchVars, dirVars
<1>4. CASE SearchCentralDir
  BY <1>4 DEF EndFound, searchVars, SearchCentralDir, Seek, Fault, argVars, streamVars, searchVars, dirVars
<1>5. CASE SearchWindow
  <2> DEFINE start == FileSize - NextBack
             len   == IF Window + 4 < NextBack THEN Window + 4 ELSE NextBack
             hits  == {p \in file.ends : p \in start..(start + len - 4)}
  <2>1. append = "addInZip" /\ append' = append /\ file' = file /\ file \in Files
    BY <1>5 DEF SearchWindow, Adds, Searching, argVars
  <2>2. \/ pc' = pc /\ central_pos' = central_pos /\ endPos' = endPos
        \/ Found(0)
        \/ ~(hits \subseteq {0}) /\ Found(Max(hits))
    <3> HIDE DEF start, len
    <3> QED
      BY <1>5 DEF SearchWindow, start, len
  <2>3. ~(hits \subseteq {0}) => Max(hits) \in file.ends /\ Max(hits) \in 0..file.size
    <3>1. hits \in SUBSET file.ends
      OBVIOUS
    <3>2. file.size \in Nat
      BY <2>1, FileFacts
    <3> HIDE DEF hits
    <3>3. SUFFICES ASSUME ~(hits \subseteq {0})
                   PROVE  Max(hits) \in file.ends /\ Max(hits) \in 0..file.size
      OBVIOUS
    <3>4. Max(hits) \in hits /\ Max(hits) \in 1..(file.size - 4)
      BY <2>1, <3>1, <3>3, LastHit
    <3> QED
      BY <3>1, <3>2, <3>4
  <2>4. file.size \in Nat
    BY <2>1, FileFacts
  <2> HIDE DEF hits
  <2>5. pc = "window"
    BY <1>5 DEF SearchWindow
  <2> QED
    BY <2>1, <2>2, <2>3, <2>4, <2>5 DEF EndFound, Found
<1>6. CASE SearchEnds
  <2>1. append = "addInZip" /\ append' = append /\ file' = file /\ file.size \in Nat
    BY <1>6, FileFacts DEF SearchEnds, Adds, Searching, argVars
  <2> QED
    BY <1>6, <2>1 DEF EndFound, SearchEnds, Found
<1>7. CASE ReadEnd
  BY <1>7 DEF EndFound, searchVars, ReadEnd, Fault, argVars, streamVars, searchVars, dirVars
<1>8. CASE SearchCentralDir64
  <2>1. append = "addInZip" /\ append' = append /\ file' = file /\ file \in Files
    BY <1>8 DEF SearchCentralDir64, Adds, Searching, argVars
  <2>2. file.size \in Nat /\ \A e \in file.ends64 : e.at \in 0..file.size
    BY <2>1, FileFacts
  <2> QED
    BY <1>8, <2>1, <2>2 DEF EndFound, SearchCentralDir64
<1>9. CASE ReadEnd64
  BY <1>9 DEF EndFound, searchVars, ReadEnd64, Fault, argVars, streamVars, searchVars, dirVars
<1>10. CASE CheckPlace
  BY <1>10 DEF EndFound, searchVars, CheckPlace, argVars, streamVars, searchVars, dirVars
<1>11. CASE ReadComment
  BY <1>11 DEF EndFound, searchVars, ReadComment, Read, Fault, argVars, streamVars, searchVars, dirVars
<1>12. CASE GoToDirectory
  BY <1>12 DEF EndFound, searchVars, GoToDirectory, Seek, Fault, ReturnNull, argVars, streamVars, searchVars, dirVars
<1>13. CASE ReadBlock
  BY <1>13 DEF EndFound, searchVars, ReadBlock, Read, Fault, argVars, streamVars, searchVars, dirVars
<1>14. CASE GoBack
  BY <1>14 DEF EndFound, searchVars, GoBack, Seek, Fault, ReturnNull, argVars, streamVars, searchVars, dirVars
<1>15. CASE UNCHANGED vars
  BY <1>15 DEF EndFound, searchVars, vars, argVars, streamVars, searchVars, dirVars
<1> QED
  BY <1>1, <1>2, <1>3, <1>4, <1>5, <1>6, <1>7, <1>8, <1>9, <1>10, <1>11, <1>12, <1>13, <1>14, <1>15 DEF Next, Steps, Returned

LEMMA NothingYetKept ==
    ASSUME NothingYet, [Next]_vars
    PROVE  NothingYet'
<1>1. CASE OpenFile
  BY <1>1 DEF NothingYet, OpenFile, Fault, ReturnNull, argVars, streamVars, searchVars, dirVars
<1>2. CASE CheckMode
  BY <1>2 DEF NothingYet, CheckMode, Seek, ReturnNull, argVars, streamVars, searchVars, dirVars
<1>3. CASE AllocHandle
  BY <1>3 DEF NothingYet, AllocHandle, Fault, ReturnNull, argVars, streamVars, searchVars, dirVars
<1>4. CASE SearchCentralDir
  BY <1>4 DEF NothingYet, SearchCentralDir, Seek, Fault, argVars, streamVars, searchVars, dirVars
<1>5. CASE SearchWindow
  BY <1>5 DEF NothingYet, SearchWindow, Found, Fault, argVars, streamVars, searchVars, dirVars
<1>6. CASE SearchEnds
  BY <1>6 DEF NothingYet, SearchEnds, Found, argVars, streamVars, searchVars, dirVars
<1>7. CASE ReadEnd
  BY <1>7 DEF NothingYet, ReadEnd, Fault, argVars, streamVars, searchVars, dirVars
<1>8. CASE SearchCentralDir64
  BY <1>8 DEF NothingYet, SearchCentralDir64, Fault, argVars, streamVars, searchVars, dirVars
<1>9. CASE ReadEnd64
  BY <1>9 DEF NothingYet, ReadEnd64, Fault, argVars, streamVars, searchVars, dirVars
<1>10. CASE CheckPlace
  BY <1>10 DEF NothingYet, CheckPlace, argVars, streamVars, searchVars, dirVars
<1>11. CASE ReadComment
  BY <1>11 DEF NothingYet, ReadComment, Read, Fault, argVars, streamVars, searchVars, dirVars
<1>12. CASE GoToDirectory
  BY <1>12 DEF NothingYet, GoToDirectory, Seek, Fault, ReturnNull, argVars, streamVars, searchVars, dirVars
<1>13. CASE ReadBlock
  BY <1>13 DEF NothingYet, ReadBlock, Read, Fault, argVars, streamVars, searchVars, dirVars
<1>14. CASE GoBack
  BY <1>14 DEF NothingYet, GoBack, Seek, Fault, ReturnNull, argVars, streamVars, searchVars, dirVars
<1>15. CASE UNCHANGED vars
  BY <1>15 DEF NothingYet, vars, argVars, streamVars, searchVars, dirVars
<1> QED
  BY <1>1, <1>2, <1>3, <1>4, <1>5, <1>6, <1>7, <1>8, <1>9, <1>10, <1>11, <1>12, <1>13, <1>14, <1>15 DEF Next, Steps, Returned

\* A window reaches from its start to the window before it.
LEMMA WindowPlace ==
    ASSUME file \in Files, back_read \in Nat, back_read >= 4, back_read < Back
    PROVE  LET start == FileSize - NextBack
               len   == IF Window + 4 < NextBack THEN Window + 4 ELSE NextBack
           IN  /\ NextBack \in Nat /\ NextBack > back_read /\ NextBack <= Back
               /\ Back \in Nat /\ Back <= FileSize
               /\ start \in Nat /\ start <= FileSize
               /\ start + len - 4 >= FileSize - back_read
<1>1. FileSize \in Nat /\ Window \in Nat \ {0} /\ MaxBack \in Nat
  BY FileSizes, SizesAssumption
<1>2. Back \in Nat /\ Back <= FileSize
  BY <1>1 DEF Back
<1> DEFINE size == FileSize
           bk == Back
           nb == NextBack
<1>3. nb = IF back_read + Window > bk THEN bk ELSE back_read + Window
  BY DEF NextBack
<1> HIDE DEF size, bk, nb
<1>4. size \in Nat /\ bk \in Nat /\ bk <= size /\ back_read < bk
  BY <1>1, <1>2 DEF size, bk
<1>5. nb \in Nat /\ nb > back_read /\ nb <= bk
  BY <1>1, <1>3, <1>4
<1>6. (size - nb) + (IF Window + 4 < nb THEN Window + 4 ELSE nb) - 4 >= size - back_read
  BY <1>1, <1>3, <1>4, <1>5
<1>7. size - nb \in Nat /\ size - nb <= size
  BY <1>4, <1>5
<1> QED
  BY <1>4, <1>5, <1>6, <1>7 DEF size, bk, nb

\* The magics that are not further from the end than the window's start, and
\* in none of the windows before, are in the window.
LEMMA Covered ==
    ASSUME file \in Files, Sought, pc = "window", back_read < Back, NEW p \in Ends
    PROVE  LET start == FileSize - NextBack
               len   == IF Window + 4 < NextBack THEN Window + 4 ELSE NextBack
           IN  p >= start => p \in start..(start + len - 4)
<1> DEFINE start == FileSize - NextBack
           len   == IF Window + 4 < NextBack THEN Window + 4 ELSE NextBack
<1>1. back_read \in Nat /\ back_read >= 4
  BY DEF Sought
<1>2. p \in Nat /\ p <= FileSize - back_read /\ FileSize \in Nat
  <2>1. p \in 0..(file.size - 4) /\ FileSize \in Nat /\ file.size \in Nat /\ file.size <= FileSize
    BY FileFacts, FileSizes DEF Ends
  <2>2. back_read = 4 \/ p < FileSize - back_read
    BY DEF Sought
  <2> QED
    BY <1>1, <2>1, <2>2
<1>3. /\ start \in Nat /\ start + len - 4 >= FileSize - back_read
      /\ NextBack \in Nat
  BY <1>1, WindowPlace
<1>4. len \in Int
  BY <1>3, SizesAssumption
<1> HIDE DEF start, len
<1>5. p >= start => p \in start..(start + len - 4)
  BY <1>1, <1>2, <1>3, <1>4
<1> QED
  BY <1>5 DEF start, len

LEMMA SoughtKept ==
    ASSUME Sought, Adds, [Next]_vars
    PROVE  Sought'
<1>1. CASE OpenFile
  BY <1>1 DEF Sought, Ends, FileSize, Tell, OpenFile, Fault, ReturnNull, argVars, streamVars, searchVars, dirVars
<1>2. CASE CheckMode
  BY <1>2 DEF Sought, Ends, FileSize, Tell, CheckMode, Seek, ReturnNull, argVars, streamVars, searchVars, dirVars
<1>3. CASE AllocHandle
  BY <1>3 DEF Sought, Ends, FileSize, Tell, AllocHandle, Fault, ReturnNull, argVars, streamVars, searchVars, dirVars
<1>4. CASE SearchCentralDir
  <2>1. pc' = "window" => append = "addInZip" /\ back_read' = 4 /\ faults' = faults
    BY <1>4 DEF SearchCentralDir, Fault, Adds, Searching
  <2>2. faults' \in Nat /\ back_read' \in Nat
    BY <1>4 DEF SearchCentralDir, Fault, Sought
  <2> QED
    BY <2>1, <2>2 DEF Sought
<1>5. CASE SearchWindow
  <2> DEFINE start == FileSize - NextBack
             len   == IF Window + 4 < NextBack THEN Window + 4 ELSE NextBack
             hits  == {p \in file.ends : p \in start..(start + len - 4)}
  <2>1. append = "addInZip" /\ file' = file /\ file \in Files /\ pc = "window"
    BY <1>5 DEF SearchWindow, Adds, Searching, argVars
  <2>2. /\ faults' \in Nat
        /\ \/ pc' = "end" /\ back_read' = back_read
           \/ hits \subseteq {0} /\ back_read' = NextBack
    <3> HIDE DEF start, len
    <3> QED
      BY <1>5 DEF SearchWindow, start, len, Found, Fault, Sought
  <2>5. FileSize' = FileSize
    BY <1>5, <2>1 DEF SearchWindow, argVars, FileSize, Tell
  <2>3. CASE pc' = "end" /\ back_read' = back_read
    BY <2>2, <2>3 DEF Sought
  <2>4. CASE hits \subseteq {0} /\ back_read' = NextBack
    <3>1. back_read \in Nat /\ back_read >= 4 /\ back_read < Back
      BY <1>5, <2>1 DEF SearchWindow, Sought
    <3>2. NextBack \in Nat /\ NextBack >= 4 /\ NextBack > back_read
      BY <3>1, WindowPlace, <2>1
    <3>3. ASSUME NEW p \in Ends PROVE p < FileSize - NextBack
      <4>1. p \notin hits /\ p \in file.ends
        BY <2>4 DEF Ends
      <4>2. ~(p >= start)
        BY <2>1, <3>1, <3>3, <4>1, Covered
      <4> QED
        BY <2>1, <3>2, <4>1, <4>2, FileFacts, FileSizes
    <3> QED
      BY <2>1, <2>2, <2>4, <2>5, <3>2, <3>3 DEF Sought, Ends
  <2> QED
    BY <2>2, <2>3, <2>4
<1>6. CASE SearchEnds
  BY <1>6 DEF Sought, Ends, FileSize, Tell, SearchEnds, Found, argVars, streamVars, searchVars, dirVars
<1>7. CASE ReadEnd
  BY <1>7 DEF Sought, Ends, FileSize, Tell, ReadEnd, Fault, argVars, streamVars, searchVars, dirVars
<1>8. CASE SearchCentralDir64
  BY <1>8 DEF Sought, Ends, FileSize, Tell, SearchCentralDir64, Fault, argVars, streamVars, searchVars, dirVars
<1>9. CASE ReadEnd64
  BY <1>9 DEF Sought, Ends, FileSize, Tell, ReadEnd64, Fault, argVars, streamVars, searchVars, dirVars
<1>10. CASE CheckPlace
  BY <1>10 DEF Sought, Ends, FileSize, Tell, CheckPlace, argVars, streamVars, searchVars, dirVars
<1>11. CASE ReadComment
  BY <1>11 DEF Sought, Ends, FileSize, Tell, ReadComment, Read, Fault, argVars, streamVars, searchVars, dirVars
<1>12. CASE GoToDirectory
  BY <1>12 DEF Sought, Ends, FileSize, Tell, GoToDirectory, Seek, Fault, ReturnNull, argVars, streamVars, searchVars, dirVars
<1>13. CASE ReadBlock
  BY <1>13 DEF Sought, Ends, FileSize, Tell, ReadBlock, Read, Fault, argVars, streamVars, searchVars, dirVars
<1>14. CASE GoBack
  BY <1>14 DEF Sought, Ends, FileSize, Tell, GoBack, Seek, Fault, ReturnNull, argVars, streamVars, searchVars, dirVars
<1>15. CASE UNCHANGED vars
  BY <1>15 DEF Sought, Ends, FileSize, Tell, vars, argVars, streamVars, searchVars, dirVars
<1> QED
  BY <1>1, <1>2, <1>3, <1>4, <1>5, <1>6, <1>7, <1>8, <1>9, <1>10, <1>11, <1>12, <1>13, <1>14, <1>15 DEF Next, Steps, Returned

LEMMA FoundLastKept ==
    ASSUME FoundLast, Sought, Adds, [Next]_vars
    PROVE  FoundLast'
<1>1. CASE OpenFile
  BY <1>1 DEF FoundLast, Ends, Back, FileSize, Tell, OpenFile, Fault, ReturnNull, argVars, streamVars, searchVars, dirVars
<1>2. CASE CheckMode
  BY <1>2 DEF FoundLast, Ends, Back, FileSize, Tell, CheckMode, Seek, ReturnNull, argVars, streamVars, searchVars, dirVars
<1>3. CASE AllocHandle
  BY <1>3 DEF FoundLast, Ends, Back, FileSize, Tell, AllocHandle, Fault, ReturnNull, argVars, streamVars, searchVars, dirVars
<1>4. CASE SearchCentralDir
  <2>1. pc' = "end" => faults' # 0
    BY <1>4 DEF SearchCentralDir, Fault, Sought
  <2> QED
    BY <2>1 DEF FoundLast
<1>5. CASE SearchWindow
  <2> DEFINE start == FileSize - NextBack
             len   == IF Window + 4 < NextBack THEN Window + 4 ELSE NextBack
             hits  == {p \in file.ends : p \in start..(start + len - 4)}
             near  == {p \in Ends : p >= file.size - Back}
  <2>1. /\ append = "addInZip" /\ file' = file /\ narrow' = narrow
        /\ file \in Files /\ pc = "window" /\ back_read < Back
    BY <1>5 DEF SearchWindow, Adds, Searching, argVars
  <2>2. SUFFICES ASSUME pc' = "end", faults' = 0, narrow => file.size < Max32
                 PROVE  endPos' = IF near = {} \/ Back <= 4 THEN 0 ELSE Max(near)
    BY <2>1 DEF FoundLast, Ends, Back, FileSize, Tell
  <2>0. FileSize = file.size
    BY <2>1, <2>2, FileSizes
  <2>3. back_read \in Nat /\ back_read >= 4 /\ faults \in Nat
    BY <2>1 DEF Sought
  <2>4. /\ start \in Nat /\ start <= file.size /\ file.size \in Nat
        /\ Back \in Nat /\ NextBack \in Nat /\ NextBack <= Back
    BY <2>0, <2>1, <2>3, WindowPlace, FileFacts
  <2>5. ~(Back <= 4)
    BY <2>1, <2>3, <2>4
  <2>6. Seekable(start)
    <3> HIDE DEF start
    <3> QED
      BY <2>2, <2>4, SizesAssumption DEF Seekable
  <2>7. ~(hits \subseteq {0}) /\ endPos' = Max(hits)
    <3> HIDE DEF start, len
    <3>1. ~Fault
      BY <2>2, <2>3 DEF Fault
    <3> QED
      BY <1>5, <2>1, <2>2, <2>6, <3>1 DEF SearchWindow, start, len, Found
  <2> DEFINE x == Max(hits)
             y == Max(near)
  <2>8. x \in hits /\ x \in 1..(file.size - 4) /\ \A p \in hits : p <= x
    <3>1. hits \in SUBSET file.ends
      OBVIOUS
    <3> HIDE DEF hits
    <3> QED
      BY <2>1, <2>7, <3>1, LastHit
  <2>9. x \in near /\ x >= start /\ x \in Nat
    <3>1. x \in Ends /\ x \in Nat /\ x >= start
      <4> HIDE DEF x, start, len
      <4> QED
        BY <2>4, <2>8 DEF Ends
    <3>2. start >= file.size - Back
      BY <2>0, <2>4
    <3> HIDE DEF x, start, len
    <3>3. x >= file.size - Back
      BY <2>4, <3>1, <3>2
    <3> QED
      BY <3>1, <3>3
  <2>10. y \in near /\ y \in Nat /\ \A p \in near : p <= y
    <3>1. near \in SUBSET file.ends /\ ~(near \subseteq {0})
      <4> HIDE DEF x
      <4> QED
        BY <2>9 DEF Ends
    <3> HIDE DEF near
    <3>2. Max(near) \in near /\ (\A p \in near : p <= Max(near)) /\ Max(near) \in 1..(file.size - 4)
      BY <2>1, <3>1, LastHit
    <3> QED
      BY <3>2
  <2>11. y >= start => y \in hits
    <3> HIDE DEF y
    <3>1. y \in Ends /\ y \in file.ends
      BY <2>10 DEF Ends
    <3>2. y >= start => y \in start..(start + len - 4)
      BY <2>1, <3>1, Covered
    <3> HIDE DEF start, len
    <3> QED
      BY <3>1, <3>2
  <2>12. x = y
    <3>1. x <= y
      <4> HIDE DEF x, y, near
      <4> QED
        BY <2>9, <2>10
    <3>2. y <= x
      <4> HIDE DEF x, y, hits, start
      <4> QED
        BY <2>4, <2>8, <2>9, <2>10, <2>11
    <3> HIDE DEF x, y
    <3> QED
      BY <2>9, <2>10, <3>1, <3>2
  <2>13. near # {}
    <3> HIDE DEF near, x
    <3> QED
      BY <2>9
  <2> HIDE DEF near, hits
  <2> QED
    BY <2>5, <2>7, <2>12, <2>13
<1>6. CASE SearchEnds
  <2> DEFINE near == {p \in Ends : p >= file.size - Back}
  <2>1. /\ append = "addInZip" /\ file' = file /\ narrow' = narrow
        /\ file \in Files /\ pc = "window" /\ back_read >= Back /\ endPos' = 0
    BY <1>6 DEF SearchEnds, Found, Adds, Searching, argVars
  <2>2. file.size \in Nat /\ FileSize \in Nat /\ file.size <= FileSize /\ Back \in Nat
    BY <2>1, FileSizes, SizesAssumption DEF Back
  <2>3. ASSUME FileSize = file.size PROVE near = {} \/ Back <= 4
    <3>1. CASE back_read = 4
      BY <2>1, <3>1
    <3>2. CASE back_read # 4
      <4>1. back_read \in Nat /\ \A p \in Ends : p < file.size - back_read
        BY <2>1, <2>3, <3>2 DEF Sought
      <4>2. ASSUME NEW p \in Ends PROVE ~(p >= file.size - Back)
        <5>1. p \in Nat /\ p < file.size - back_read
          BY <2>1, <4>1, FileFacts DEF Ends
        <5> QED
          BY <2>1, <2>2, <4>1, <5>1
      <4> QED
        BY <4>2
    <3> QED
      BY <3>1, <3>2
  <2> QED
    BY <2>1, <2>3, FileSizes DEF FoundLast, Ends, Back, FileSize, Tell
<1>7. CASE ReadEnd
  BY <1>7 DEF FoundLast, Ends, Back, FileSize, Tell, ReadEnd, Fault, argVars, streamVars, searchVars, dirVars
<1>8. CASE SearchCentralDir64
  BY <1>8 DEF FoundLast, Ends, Back, FileSize, Tell, SearchCentralDir64, Fault, argVars, streamVars, searchVars, dirVars
<1>9. CASE ReadEnd64
  BY <1>9 DEF FoundLast, Ends, Back, FileSize, Tell, ReadEnd64, Fault, argVars, streamVars, searchVars, dirVars
<1>10. CASE CheckPlace
  BY <1>10 DEF FoundLast, Ends, Back, FileSize, Tell, CheckPlace, argVars, streamVars, searchVars, dirVars
<1>11. CASE ReadComment
  BY <1>11 DEF FoundLast, Ends, Back, FileSize, Tell, ReadComment, Read, Fault, argVars, streamVars, searchVars, dirVars
<1>12. CASE GoToDirectory
  BY <1>12 DEF FoundLast, Ends, Back, FileSize, Tell, GoToDirectory, Seek, Fault, ReturnNull, argVars, streamVars, searchVars, dirVars
<1>13. CASE ReadBlock
  BY <1>13 DEF FoundLast, Ends, Back, FileSize, Tell, ReadBlock, Read, Fault, argVars, streamVars, searchVars, dirVars
<1>14. CASE GoBack
  BY <1>14 DEF FoundLast, Ends, Back, FileSize, Tell, GoBack, Seek, Fault, ReturnNull, argVars, streamVars, searchVars, dirVars
<1>15. CASE UNCHANGED vars
  BY <1>15 DEF FoundLast, Ends, Back, FileSize, Tell, vars, argVars, streamVars, searchVars, dirVars
<1> QED
  BY <1>1, <1>2, <1>3, <1>4, <1>5, <1>6, <1>7, <1>8, <1>9, <1>10, <1>11, <1>12, <1>13, <1>14, <1>15 DEF Next, Steps, Returned

\* A place that is found from the end of the directory back is its start.
LEMMA WrapBack ==
    ASSUME NEW m \in Nat \ {0}, NEW o \in Nat, NEW c \in 0..(m - 1)
    PROVE  (o + (c - (o % m))) % m = c
<1> DEFINE r == o % m
           q == o \div m
           x == o + (c - r)
           r2 == x % m
           q2 == x \div m
<1>1. o = m * q + r /\ r \in 0..(m - 1) /\ q \in Int
  OBVIOUS
<1>2. x \in Int
  BY <1>1
<1> HIDE DEF x
<1>3. x = m * q2 + r2 /\ r2 \in 0..(m - 1) /\ q2 \in Int
  BY <1>2
<1> HIDE DEF r, q, r2, q2
<1>4. x = m * q + c
  BY <1>1 DEF x
<1> DEFINE d == q - q2
           y == m * d
<1>5. y = r2 - c /\ d \in Int
  BY <1>1, <1>3, <1>4
<1>6. y \in Int /\ y < m /\ y > -m
  BY <1>3, <1>5
<1> HIDE DEF d
<1>7. ~(d >= 1) /\ ~(d <= -1)
  BY <1>5, <1>6
<1>8. d = 0
  BY <1>5, <1>7
<1>9. y = 0
  BY <1>8
<1> HIDE DEF y
<1>10. r2 = c
  BY <1>3, <1>5, <1>9
<1> QED
  BY <1>10 DEF r2, x, r

\* The directory that is read lies in the file.
LEMMA DirSizes ==
    ASSUME append = "addInZip", Adds, EndFound, DirIs
    PROVE  /\ dir.size \in Nat /\ dir.offset \in Nat /\ DirEnd \in Nat
           /\ central_pos \in Nat /\ file.size \in Nat /\ central_pos <= file.size
           /\ central_pos <= Max64 /\ Max64 \in Nat
<1>1. file \in Files /\ endPos \in file.ends \cup {0} /\ central_pos \in 0..file.size
  BY DEF Adds, EndFound
<1>2. dir.size \in Nat /\ dir.offset \in Nat
  BY <1>1, FileFacts DEF DirIs
<1>3. Max64 \in Nat
  BY SizesAssumption
<1>4. DirEnd \in Nat
  <2> DEFINE x == dir.offset + dir.size
             m == Max64 + 1
  <2>1. x \in Nat /\ m \in Nat \ {0}
    BY <1>2, <1>3
  <2> HIDE DEF x, m
  <2>2. x % m \in Nat
    BY <2>1
  <2> QED
    BY <2>2 DEF DirEnd, Wrap, x, m
<1> QED
  BY <1>1, <1>2, <1>3, <1>4, FileFacts

\* So does the place it is read from; that of an empty one is in front of the
\* record.
LEMMA Places ==
    ASSUME NEW p \in Int, append = "addInZip", Adds, EndFound, DirIs,
           central_pos >= DirEnd, p = central_pos - DirEnd
    PROVE  /\ PlaceBehind(p) \in Nat
           /\ dir.size = 0 => PlaceBehind(p) = central_pos
<1> DEFINE o == dir.offset
           m == Max64 + 1
           c == central_pos
           x == o + p
<1>1. /\ o \in Nat /\ m \in Nat \ {0} /\ c \in 0..(m - 1) /\ p \in Nat /\ x \in Nat
      /\ dir.size \in Nat
  BY DirSizes
<1>2. PlaceBehind(p) = x % m
  BY DEF PlaceBehind, Wrap
<1>3. dir.size = 0 => DirEnd = o % m
  <2>1. dir.size = 0 => dir.offset + dir.size = o
    BY <1>1
  <2> HIDE DEF o, m
  <2> QED
    BY <2>1 DEF DirEnd, Wrap, m
<1>4. x % m \in Nat
  <2> HIDE DEF x, m
  <2> QED
    BY <1>1
<1>5. ASSUME dir.size = 0 PROVE x % m = c
  <2>1. x = o + (c - (o % m))
    BY <1>3, <1>5
  <2> HIDE DEF x, m, o, c
  <2> QED
    BY <1>1, <2>1, WrapBack
<1> QED
  BY <1>2, <1>4, <1>5

LEMMA ReadWellKept ==
    ASSUME ReadWell, Adds, EndFound, NothingYet, [Next]_vars
    PROVE  ReadWell'
<1>1. CASE OpenFile
  BY <1>1 DEF ReadWell, OpenFile, Fault, ReturnNull, argVars, streamVars, searchVars, dirVars
<1>2. CASE CheckMode
  BY <1>2 DEF ReadWell, CheckMode, Seek, ReturnNull, argVars, streamVars, searchVars, dirVars
<1>3. CASE AllocHandle
  BY <1>3 DEF ReadWell, Adds, AllocHandle, Fault, ReturnNull, argVars, streamVars, searchVars, dirVars
<1>4. CASE SearchCentralDir
  BY <1>4 DEF ReadWell, SearchCentralDir, Seek, Fault, argVars, streamVars, searchVars, dirVars
<1>5. CASE SearchWindow
  BY <1>5 DEF ReadWell, SearchWindow, Found, Fault, argVars, streamVars, searchVars, dirVars
<1>6. CASE SearchEnds
  BY <1>6 DEF ReadWell, SearchEnds, Found, argVars, streamVars, searchVars, dirVars
<1>7. CASE ReadEnd
  <2>1. /\ file' = file /\ append' = append /\ endPos' = endPos /\ (Whole' <=> Whole)
        /\ append = "addInZip" /\ file \in Files /\ pc = "end" /\ central_pos = endPos
        /\ pc' \in {"search64", "check"} /\ endPos \in file.ends \cup {0}
    BY <1>7 DEF ReadEnd, EndFound, Adds, Searching, argVars, searchVars, Whole
  <2>2. SUFFICES ASSUME Whole, err' = "ok" PROVE DirIs'
    BY <2>1 DEF ReadWell
  <2>3. dir' = ReadRecord(endPos)
    BY <1>7, <2>1, <2>2 DEF ReadEnd
  <2>4. dir'.size = file.record[endPos].size /\ dir'.offset = file.record[endPos].offset
    BY <2>1, <2>2, <2>3, RecordRead DEF Whole
  <2> QED
    BY <2>1, <2>3, <2>4, RecordFields DEF DirIs
<1>8. CASE SearchCentralDir64
  <2>1. /\ file' = file /\ append' = append /\ endPos' = endPos /\ (Whole' <=> Whole)
        /\ append = "addInZip" /\ dir' = dir /\ pc = "search64"
        /\ pc' \in {"end64", "check"} /\ (err' = "ok" => err = "ok")
    BY <1>8 DEF SearchCentralDir64, Adds, Searching, argVars, searchVars, dirVars, Whole
  <2> QED
    BY <2>1 DEF ReadWell, DirIs
<1>9. CASE ReadEnd64
  <2>1. /\ file' = file /\ append' = append /\ endPos' = endPos /\ (Whole' <=> Whole)
        /\ append = "addInZip" /\ pc = "end64"
        /\ pc' = "check" /\ (err' = "ok" => err = "ok")
    BY <1>9 DEF ReadEnd64, Adds, Searching, argVars, searchVars, Whole
  <2>2. SUFFICES ASSUME Whole, err' = "ok" PROVE DirIs'
    BY <2>1 DEF ReadWell
  <2>3. DirIs
    BY <2>1, <2>2 DEF ReadWell
  <2> DEFINE e == CHOOSE e \in file.ends64 : e.at = central_pos
  <2>4. e \in file.ends64
    BY <2>1 DEF EndFound
  <2>5. dir' = [dir EXCEPT !.entriesOnDisk = e.entriesOnDisk, !.entries = e.entries,
                           !.size = e.size, !.offset = e.offset]
    <3> HIDE DEF e
    <3> QED
      BY <1>9, <2>2 DEF ReadEnd64, e
  <2> HIDE DEF e
  <2>6. dir' = [entriesOnDisk |-> e.entriesOnDisk, entries |-> e.entries,
                size |-> e.size, offset |-> e.offset, comment |-> dir.comment]
    BY <2>3, <2>5 DEF DirIs
  <2> QED
    BY <2>1, <2>4, <2>6 DEF DirIs
<1>10. CASE CheckPlace
  <2>1. /\ file' = file /\ append' = append /\ endPos' = endPos /\ (Whole' <=> Whole)
        /\ append = "addInZip" /\ pc = "check"
        /\ pc' = "comment" /\ dir' = dir /\ central_pos' = central_pos
        /\ (err' = "ok" => err = "ok" /\ ~(central_pos < DirEnd))
    BY <1>10 DEF CheckPlace, Adds, Searching, argVars, searchVars, dirVars, Whole
  <2>2. SUFFICES ASSUME Whole, err' = "ok" PROVE DirPlaced'
    BY <2>1 DEF ReadWell
  <2>3. DirIs
    BY <2>1, <2>2 DEF ReadWell
  <2>4. central_pos >= DirEnd
    BY <2>1, <2>2, <2>3, DirSizes
  <2> QED
    BY <2>1, <2>3, <2>4 DEF DirPlaced, DirIs, DirEnd
<1>11. CASE ReadComment
  <2>1. /\ file' = file /\ append' = append /\ endPos' = endPos /\ (Whole' <=> Whole)
        /\ append = "addInZip" /\ pc = "comment"
        /\ pc' = "place" /\ dir' = dir /\ central_pos' = central_pos
        /\ (err' = "ok" => err = "ok")
    BY <1>11 DEF ReadComment, Adds, Searching, argVars, searchVars, dirVars, Whole
  <2> QED
    BY <2>1 DEF ReadWell, DirPlaced, DirIs, DirEnd
<1>12. CASE GoToDirectory
  <2>1. SUFFICES ASSUME Whole', append' = "addInZip", err' = "ok" PROVE pc' = "read" => Copied'
    BY <1>12 DEF ReadWell, GoToDirectory, ReturnNull
  <2>2. SUFFICES ASSUME pc' = "read" PROVE Copied'
    OBVIOUS
  <2>3. /\ file' = file /\ append = "addInZip" /\ endPos' = endPos /\ Whole
        /\ pc = "place" /\ dir' = dir /\ central_pos' = central_pos
        /\ central_dir' = central_dir /\ err = "ok"
        /\ before' = central_pos - DirEnd
        /\ todo' = dir.size /\ at' = PlaceBehind(before')
    <3>1. /\ file' = file /\ append = "addInZip" /\ endPos' = endPos /\ Whole
          /\ pc = "place" /\ dir' = dir /\ central_pos' = central_pos
          /\ central_dir' = central_dir
      BY <1>12, <2>1, <2>2 DEF GoToDirectory, argVars, searchVars, Whole
    <3>2. err = "ok"
      BY <1>12, <2>2 DEF GoToDirectory, ReturnNull
    <3>3. before' = central_pos - DirEnd /\ todo' = dir.size
      BY <1>12, <3>2 DEF GoToDirectory
    <3>4. at' = PlaceBehind(before')
      BY <1>12, <2>1, <3>2 DEF GoToDirectory, Seek
    <3> QED
      BY <3>1, <3>2, <3>3, <3>4
  <2>4. DirPlaced /\ DirIs /\ central_dir = <<>>
    BY <2>3 DEF ReadWell, DirPlaced, NothingYet
  <2>5. dir.size \in Nat /\ DirEnd \in Nat /\ central_pos \in Nat
    BY <2>3, <2>4, DirSizes
  <2>6. DirPlaced' /\ DirEnd' = DirEnd
    BY <2>3, <2>4 DEF DirPlaced, DirIs, DirEnd
  <2>7. dir.size - dir.size = 0 /\ dir.size \in 0..dir.size
    BY <2>5
  <2>8. Place' = PlaceBehind(before')
    BY <2>3 DEF Place, PlaceBehind
  <2> DEFINE b == before'
             p == PlaceBehind(b)
  <2>9. b \in Int /\ b = central_pos - DirEnd
    BY <2>3, <2>5
  <2>10. p \in Nat
    <3> HIDE DEF b
    <3> QED
      BY <2>3, <2>4, <2>9, Places DEF DirPlaced
  <2>11. at' = p + (dir.size - dir.size)
    <3>1. at' = p
      BY <2>3
    <3> HIDE DEF p
    <3> QED
      BY <2>7, <2>10, <3>1
  <2>12. InBlocks(<<>>, p, 0)
    BY DEF InBlocks
  <2>13. \A i \in 1..Len(central_dir) : Len(central_dir[i]) = BlockSize
    BY <2>4
  <2>14. Place' = p
    BY <2>8
  <2> HIDE DEF p, b
  <2> QED
    BY <2>3, <2>4, <2>6, <2>7, <2>11, <2>12, <2>13, <2>14 DEF Copied
<1>13. CASE ReadBlock
  <2>1. /\ file' = file /\ append' = append /\ endPos' = endPos /\ (Whole' <=> Whole)
        /\ append = "addInZip" /\ pc = "read" /\ pc' = "read"
        /\ dir' = dir /\ central_pos' = central_pos /\ before' = before
        /\ err = "ok" /\ todo > 0
    BY <1>13 DEF ReadBlock, Adds, Searching, argVars, searchVars, Whole
  <2>2. SUFFICES ASSUME Whole, err' = "ok" PROVE Copied'
    BY <2>1 DEF ReadWell
  <2> DEFINE n == IF todo < BlockSize THEN todo ELSE BlockSize
             place == Place
             number == dir.size - todo
  <2>3. /\ todo' = todo - n /\ at' = at + n
        /\ central_dir' = AddData(central_dir, [i \in 1..n |-> at + i])
        /\ at + n <= file.size
    BY <1>13, <2>2 DEF ReadBlock, Read
  <2>4. Copied /\ DirIs
    BY <2>1, <2>2 DEF ReadWell, Copied, DirPlaced
  <2>5. /\ todo \in 0..dir.size /\ central_dir \in Seq(Seq(Int))
        /\ at = place + number
        /\ InBlocks(central_dir, place, number)
        /\ \A i \in 1..Len(central_dir) : Len(central_dir[i]) = BlockSize
        /\ before = central_pos - DirEnd /\ central_pos >= DirEnd
    BY <2>1, <2>4 DEF Copied, DirPlaced
  <2>6. /\ dir.size \in Nat /\ DirEnd \in Nat /\ central_pos \in Nat
        /\ BlockSize \in Nat \ {0}
    BY <2>1, <2>4, DirSizes, SizesAssumption
  <2>p. place \in Nat
    BY <2>1, <2>4, <2>5, <2>6, Places DEF Place
  <2>7. /\ n \in 1..BlockSize /\ n <= todo /\ n \in Nat
        /\ place \in Int /\ number \in Nat
        /\ (todo - n > 0 => n = BlockSize)
    <3> HIDE DEF place
    <3> QED
      BY <2>1, <2>5, <2>6, <2>p
  <2> HIDE DEF n, place, number
  <2>8. /\ central_dir' \in Seq(Seq(Int))
        /\ InBlocks(central_dir', place, number + n)
        /\ n = BlockSize => \A i \in 1..Len(central_dir') : Len(central_dir'[i]) = BlockSize
    <3> DEFINE b == AddData(central_dir, [i \in 1..n |-> place + number + i])
    <3>1. central_dir' = b
      BY <2>3, <2>5
    <3>2. /\ b \in Seq(Seq(Int))
          /\ InBlocks(b, place, number + n)
          /\ n = BlockSize => \A i \in 1..Len(b) : Len(b[i]) = BlockSize
      BY <2>5, <2>7, BlocksGrow
    <3> HIDE DEF b
    <3> QED
      BY <3>1, <3>2
  <2>9. /\ todo' \in 0..dir.size /\ number + n = dir.size - todo'
        /\ at' = place + (dir.size - todo')
        /\ todo' > 0 => n = BlockSize
    <3> DEFINE size == dir.size
               rest == todo - n
    <3>1. todo \in 0..size /\ size \in Nat /\ number = size - todo
      BY <2>5, <2>6 DEF number
    <3> HIDE DEF size
    <3>2. /\ rest \in 0..size /\ number + n = size - rest /\ number + n \in Nat
          /\ rest > 0 => n = BlockSize
      BY <2>7, <3>1
    <3>3. place + number + n = place + (size - rest)
      <4> HIDE DEF rest
      <4> QED
        BY <2>7, <3>1, <3>2
    <3> QED
      BY <2>3, <2>5, <3>2, <3>3 DEF size
  <2>10. DirPlaced' /\ DirEnd' = DirEnd /\ Place' = place
    BY <2>1, <2>4 DEF Copied, DirPlaced, DirIs, DirEnd, Place, PlaceBehind, place
  <2>11. at' <= file.size
    BY <2>3
  <2> QED
    BY <2>1, <2>5, <2>8, <2>9, <2>10, <2>11 DEF Copied
<1>14. CASE GoBack
  <2>1. SUFFICES ASSUME Whole', append' = "addInZip", err' = "ok" PROVE Returning'
    BY <1>14 DEF ReadWell, GoBack, ReturnNull
  <2>2. /\ file' = file /\ append = "addInZip" /\ endPos' = endPos /\ Whole
        /\ pc = "read" /\ dir' = dir /\ central_pos' = central_pos /\ before' = before
        /\ central_dir' = central_dir /\ err = "ok" /\ todo = 0
        /\ at' = Place /\ lastOp' = "seek"
    BY <1>14, <2>1 DEF GoBack, Seek, argVars, searchVars, dirVars, Whole
  <2>3. Copied /\ DirIs
    BY <2>2 DEF ReadWell, Copied, DirPlaced
  <2>4. /\ dir.size \in Nat /\ DirEnd \in Nat /\ central_pos \in Nat /\ central_pos <= file.size
        /\ before = central_pos - DirEnd /\ central_pos >= DirEnd /\ file.size \in Nat
    BY <2>2, <2>3, DirSizes DEF Copied, DirPlaced
  <2>5. before \in Int
    BY <2>4
  <2>6. Place \in Nat /\ (dir.size = 0 => Place = central_pos)
    BY <2>2, <2>3, <2>4, <2>5, Places DEF Place
  <2>7. Place + dir.size <= file.size
    <3>1. at = Place + (dir.size - todo) /\ (todo # dir.size => at <= file.size)
      BY <2>3 DEF Copied
    <3> QED
      BY <2>2, <2>4, <2>6, <3>1
  <2>8. InBlocks(central_dir, Place, dir.size)
    <3>1. dir.size - todo = dir.size
      BY <2>2, <2>4
    <3> QED
      BY <2>3, <3>1 DEF Copied
  <2>9. DirIs' /\ Place' = Place
    BY <2>2, <2>3 DEF DirIs, Place, PlaceBehind
  <2> QED
    BY <2>2, <2>7, <2>8, <2>9 DEF Returning
<1>15. CASE UNCHANGED vars
  BY <1>15 DEF ReadWell, DirIs, DirPlaced, DirEnd, Place, PlaceBehind, Copied, Returning, Whole, vars, argVars, streamVars, searchVars, dirVars
<1> QED
  BY <1>1, <1>2, <1>3, <1>4, <1>5, <1>6, <1>7, <1>8, <1>9, <1>10, <1>11, <1>12, <1>13, <1>14, <1>15 DEF Next, Steps, Returned

\* As long as the file and its end record are the same, so is the rest.
LEMMA SameRecord ==
    ASSUME file' = file, endPos' = endPos
    PROVE  Wide' <=> Wide
  BY DEF Wide, ReadRecord

LEMMA CommentWellKept ==
    ASSUME CommentWell, Adds, EndFound, Sought, NothingYet, [Next]_vars
    PROVE  CommentWell'
<1>1. CASE OpenFile
  BY <1>1 DEF CommentWell, Adds, OpenFile, Fault, ReturnNull, argVars
<1>2. CASE CheckMode
  BY <1>2 DEF CommentWell, Adds, CheckMode, Seek, ReturnNull, argVars
<1>3. CASE AllocHandle
  BY <1>3 DEF CommentWell, Adds, AllocHandle, Fault, ReturnNull, argVars
<1>4. CASE SearchCentralDir
  BY <1>4 DEF CommentWell, Adds, SearchCentralDir, Seek, Fault, argVars
<1>5. CASE SearchWindow
  BY <1>5 DEF CommentWell, Adds, SearchWindow, Found, Fault, argVars
<1>6. CASE SearchEnds
  BY <1>6 DEF CommentWell, Adds, SearchEnds, Found, argVars
<1>7. CASE ReadEnd
  <2>1. /\ pc = "end" /\ central_pos = endPos /\ (Wide' <=> Wide) /\ endPos' = endPos
        /\ pc' \in {"search64", "check"}
    BY <1>7, SameRecord DEF ReadEnd, EndFound, searchVars
  <2>2. err' = "ok" => /\ at' = endPos + EndSize
                       /\ pc' = "search64" => Wide
    BY <1>7, <2>1 DEF ReadEnd, Wide
  <2> QED
    BY <2>1, <2>2 DEF CommentWell
<1>8. CASE SearchCentralDir64
  <2>1. pc = "search64" /\ (Wide' <=> Wide) /\ append' = append
        /\ (err' = "ok" => err = "ok")
    BY <1>8, SameRecord DEF SearchCentralDir64, argVars
  <2> QED
    BY <2>1 DEF CommentWell
<1>9. CASE ReadEnd64
  <2>1. pc = "end64" /\ (Wide' <=> Wide) /\ append' = append
        /\ (err' = "ok" => err = "ok")
    BY <1>9, SameRecord DEF ReadEnd64, argVars, searchVars
  <2> QED
    BY <2>1 DEF CommentWell
<1>10. CASE CheckPlace
  <2>1. /\ pc = "check" /\ pc' = "comment" /\ (Wide' <=> Wide) /\ append' = append
        /\ (err' = "ok" => err = "ok") /\ at' = at /\ endPos' = endPos
    BY <1>10, SameRecord DEF CheckPlace, argVars, searchVars, streamVars
  <2> QED
    BY <2>1 DEF CommentWell
<1>11. CASE ReadComment
  <2>1. /\ pc = "comment" /\ pc' = "place" /\ (Wide' <=> Wide) /\ append' = append
        /\ (err' = "ok" => err = "ok") /\ endPos' = endPos /\ dir' = dir /\ file' = file
        /\ comment = -1
    BY <1>11, SameRecord DEF ReadComment, argVars, searchVars, NothingYet
  <2>2. SUFFICES ASSUME append = "addInZip", ~Wide, err' = "ok"
                 PROVE  CommentIs' /\ (dir.comment > 0 /\ faults' = 0 => comment' # -1)
    BY <2>1 DEF CommentWell
  <2>3. at = endPos + EndSize /\ endPos \in Nat /\ EndSize \in Nat /\ faults \in Nat
    <3>1. file \in Files /\ endPos \in file.ends \cup {0}
      BY <2>1, <2>2 DEF Adds, Searching, EndFound
    <3> QED
      BY <2>1, <2>2, <3>1, FileFacts, SizesAssumption DEF CommentWell, Sought
  <2>4. \/ comment' = at /\ at + dir.comment <= file.size
        \/ comment' = comment /\ faults' = faults + 1
        \/ comment' = comment /\ ~(dir.comment > 0)
    BY <1>11, <2>1, <2>2 DEF ReadComment, Fault
  <2> QED
    BY <2>1, <2>3, <2>4 DEF CommentIs
<1>12. CASE GoToDirectory
  <2>1. /\ pc = "place" /\ pc' \in {"read", "null"} /\ (Wide' <=> Wide) /\ append' = append
        /\ endPos' = endPos /\ dir' = dir /\ file' = file /\ comment' = comment
        /\ (pc' = "read" => err = "ok") /\ (faults' = 0 => faults = 0)
    BY <1>12, SameRecord DEF GoToDirectory, argVars, searchVars, ReturnNull, Fault, Sought
  <2> QED
    BY <2>1 DEF CommentWell, CommentIs
<1>13. CASE ReadBlock
  <2>1. /\ pc = "read" /\ pc' = "read" /\ (Wide' <=> Wide) /\ append' = append
        /\ endPos' = endPos /\ dir' = dir /\ file' = file /\ comment' = comment
        /\ err = "ok" /\ (faults' = 0 => faults = 0)
    BY <1>13, SameRecord DEF ReadBlock, argVars, searchVars, Fault, Sought
  <2> QED
    BY <2>1 DEF CommentWell, CommentIs
<1>14. CASE GoBack
  <2>1. /\ pc = "read" /\ pc' \in {"handle", "null"} /\ (Wide' <=> Wide) /\ append' = append
        /\ endPos' = endPos /\ dir' = dir /\ file' = file /\ comment' = comment
        /\ (err' = "ok" => err = "ok") /\ (faults' = 0 => faults = 0)
    BY <1>14, SameRecord DEF GoBack, argVars, searchVars, dirVars, ReturnNull, Fault, Sought
  <2> QED
    BY <2>1 DEF CommentWell, CommentIs
<1>15. CASE UNCHANGED vars
  BY <1>15, SameRecord DEF CommentWell, CommentIs, vars, argVars, streamVars, searchVars, dirVars
<1> QED
  BY <1>1, <1>2, <1>3, <1>4, <1>5, <1>6, <1>7, <1>8, <1>9, <1>10, <1>11, <1>12, <1>13, <1>14, <1>15 DEF Next, Steps, Returned

-----------------------------------------------------------------------------
(* The theorems.                                                           *)

LEMMA Start == Init => IInv
<1> SUFFICES ASSUME Init PROVE IInv
  OBVIOUS
<1>1. Adds /\ Sought /\ FoundLast
  BY DEF Init, Adds, Searching, Sought, FoundLast
<1>2. EndFound
  <2>1. append = "addInZip" => file.size \in Nat /\ central_pos = 0 /\ endPos = 0
    BY FileFacts DEF Init
  <2> QED
    BY <2>1 DEF Init, EndFound
<1>3. NoError /\ NothingYet /\ ReadWell /\ CommentWell
  BY DEF Init, NoError, NothingYet, ReadWell, CommentWell
<1> QED
  BY <1>1, <1>2, <1>3 DEF IInv

LEMMA Step == IInv /\ [Next]_vars => IInv'
  BY AddsKept, SoughtKept, FoundLastKept, EndFoundKept, NoErrorKept, NothingYetKept,
     ReadWellKept, CommentWellKept DEF IInv

THEOREM Invariance == Spec => []IInv
  BY Start, Step, PTL DEF Spec

\* The search finds the last end record it may find, wherever the windows end
\* (zipSearchCentralDir, lines 527-560): for every file, window and reach, but
\* for one of UINT32_MAX bytes or more and functions with 32-bit offsets.
THEOREM LastEndFound == Spec => []FindsLastEnd
<1>1. IInv => FindsLastEnd
  BY DEF IInv, FoundLast, FindsLastEnd, Ends
<1> QED
  BY <1>1, Invariance, PTL

\* The handle to add with holds the directory of the file, as its records say,
\* in full blocks, with the stream where the directory is (zipOpen4, lines
\* 677-829): for every file, block size and width of the fields.
THEOREM DirectoryIsRead == Spec => []DirectoryRead
<1>1. IInv => DirectoryRead
  <2> SUFFICES ASSUME IInv, pc = "handle", append = "addInZip", Whole
               PROVE  /\ \/ dir.size = file.record[endPos].size
                            /\ dir.offset = file.record[endPos].offset
                         \/ \E e \in file.ends64 : dir.size = e.size /\ dir.offset = e.offset
                      /\ InBlocks(central_dir, Place, dir.size)
                      /\ at = Place /\ lastOp = "seek"
                      /\ at + dir.size <= file.size
    BY DEF DirectoryRead
  <2>1. Returning /\ DirIs
    BY DEF IInv, NoError, ReadWell, Returning
  <2> QED
    BY <2>1 DEF Returning, DirIs
<1> QED
  BY <1>1, Invariance, PTL

\* The comment of the handle is what follows the end record (zipOpen4, lines
\* 669-784): for every file, wherever its directory is and whatever fails.
THEOREM CommentIsRead == Spec => []CommentFollowsEnd
<1>1. IInv => CommentFollowsEnd
  BY DEF IInv, NoError, CommentWell, CommentIs, CommentFollowsEnd
<1> QED
  BY <1>1, Invariance, PTL
=============================================================================
