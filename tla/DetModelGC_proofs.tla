-------------------------- MODULE DetModelGC_proofs --------------------------
(***************************************************************************)
(* Proofs about one replica, for every number of time slices, every block  *)
(* length s below it, every enabled set of global moves and every field.   *)
(***************************************************************************)
EXTENDS DetModelGC, IntervalArithmetic, SequenceTheorems

-----------------------------------------------------------------------------
(* Blocks of time slices *)

LEMMA Blocks ==
  /\ m \in Nat \ {0} /\ s \in Nat \ {0} /\ n \in Nat \ {0}
  /\ BlockTop(0) = 0 /\ BlockTop(n) = m
  /\ \A b \in 0..n : BlockTop(b) \in 0..m
  /\ \A a, b \in 0..n : a < b => BlockTop(a) < BlockTop(b)
<1>1. m \in Nat \ {0} /\ s \in Nat \ {0} /\ s < m
  BY ParametersAssumption
<1> DEFINE r == (m + s - 1) % s
<1>2. n \in Int /\ r \in 0..(s - 1) /\ m + s - 1 = s * n + r
  <2> HIDE DEF r
  <2>1. m + s - 1 \in Int
    BY <1>1
  <2>2. /\ (m + s - 1) \div s \in Int /\ (m + s - 1) % s \in 0..(s - 1)
        /\ m + s - 1 = s * ((m + s - 1) \div s) + ((m + s - 1) % s)
    BY <1>1, <2>1, Division
  <2> QED
    BY <2>2 DEF n, r
<1> HIDE DEF r, n
<1>3. m <= s * n /\ s * n <= m + s - 1
  BY <1>1, <1>2
<1>4. n >= 1
  <2>1. ~(n <= 0)
    <3> SUFFICES ASSUME n <= 0 PROVE FALSE
      OBVIOUS
    <3>1. \A d \in Int : d <= 0 => s * d <= 0
      BY <1>1
    <3> QED
      BY <1>1, <1>2, <1>3, <3>1
  <2> QED
    BY <1>2, <2>1
<1>5. \A b \in 0..(n - 1) : s * b < m /\ s * b \in Nat
  <2> TAKE b \in 0..(n - 1)
  <2>1. s * (n - b) >= s /\ s * (n - b) = s * n - s * b
    BY <1>1, <1>2, ProductAtLeast
  <2> QED
    BY <1>1, <1>2, <1>3, <2>1
<1>6. \A a, b \in 0..(n - 1) : a < b => s * a < s * b
  <2> TAKE a, b \in 0..(n - 1)
  <2> HAVE a < b
  <2>1. s * (b - a) >= s /\ s * (b - a) = s * b - s * a
    BY <1>1, <1>2, ProductAtLeast
  <2> QED
    BY <1>1, <1>5, <2>1
<1>7. s * 0 = 0
  BY <1>1
<1>8. \A b \in 0..n : BlockTop(b) = IF b < n THEN s * b ELSE m
  BY DEF BlockTop
<1>9. \A b \in 0..n : BlockTop(b) \in 0..m
  BY <1>1, <1>2, <1>5, <1>8
<1>10. \A a, b \in 0..n : a < b => BlockTop(a) < BlockTop(b)
  <2> TAKE a, b \in 0..n
  <2> HAVE a < b
  <2>1. a \in 0..(n - 1)
    BY <1>2
  <2>2. CASE b < n
    BY <1>2, <1>6, <1>8, <2>1, <2>2
  <2>3. CASE b = n
    BY <1>2, <1>5, <1>8, <2>1, <2>3
  <2> QED
    BY <1>2, <2>2, <2>3
<1> QED
  BY <1>1, <1>2, <1>4, <1>7, <1>8, <1>9, <1>10

-----------------------------------------------------------------------------
(* Products of B-matrices have no inverses in them                         *)

Plain == [slice : Slices, phi : Bit, cosh : Bit, power : {1}]
Fields == phi \in [Slices -> Bit] /\ coshTermPhi \in [Slices -> Bit]

LEMMA PlainFactors ==
  ASSUME Fields, NEW i \in Slices
  PROVE  B(i) \in Plain
BY DEF Fields, Plain, B, Factor

LEMMA BmatEntries ==
  ASSUME Fields, NEW a \in 0..m, NEW b \in 0..a
  PROVE  /\ Bmat(a, b) \in Seq(Plain) /\ Len(Bmat(a, b)) = a - b
         /\ \A i \in 1..(a - b) : Bmat(a, b)[i] = B(a + 1 - i)
<1>1. \A i \in 1..(a - b) : B(a + 1 - i) \in Plain
  <2> TAKE i \in 1..(a - b)
  <2>1. a + 1 - i \in Slices
    BY Blocks DEF Slices
  <2> QED
    BY <2>1, PlainFactors
<1>2. a - b \in Nat
  BY Blocks
<1>3. Bmat(a, b) \in [1..(a - b) -> Plain]
  BY <1>1 DEF Bmat
<1>4. \A i \in 1..(a - b) : Bmat(a, b)[i] = B(a + 1 - i)
  BY DEF Bmat
<1> HIDE DEF Bmat
<1>5. Bmat(a, b) \in Seq(Plain) /\ Len(Bmat(a, b)) = a - b
  BY <1>2, <1>3
<1> QED
  BY <1>4, <1>5

LEMMA BmatEmpty ==
  ASSUME Fields, NEW a \in 0..m
  PROVE  Bmat(a, a) = <<>>
BY BmatEntries, EmptySeq

(* B(a, b) B(b, c) = B(a, c) *)
LEMMA BmatJoin ==
  ASSUME Fields, NEW a \in 0..m, NEW b \in 0..a, NEW c \in 0..b
  PROVE  Bmat(a, b) \o Bmat(b, c) = Bmat(a, c)
<1>1. /\ Bmat(a, b) \in Seq(Plain) /\ Len(Bmat(a, b)) = a - b
      /\ \A i \in 1..(a - b) : Bmat(a, b)[i] = B(a + 1 - i)
  BY BmatEntries
<1>2. b \in 0..m /\ c \in 0..a
  BY Blocks
<1>3. /\ Bmat(b, c) \in Seq(Plain) /\ Len(Bmat(b, c)) = b - c
      /\ \A i \in 1..(b - c) : Bmat(b, c)[i] = B(b + 1 - i)
  BY <1>2, BmatEntries
<1>4. /\ Bmat(a, c) \in Seq(Plain) /\ Len(Bmat(a, c)) = a - c
      /\ \A i \in 1..(a - c) : Bmat(a, c)[i] = B(a + 1 - i)
  BY <1>2, BmatEntries
<1>5. PICK x \in Seq(Plain), y \in Seq(Plain), z \in Seq(Plain) :
        x = Bmat(a, b) /\ y = Bmat(b, c) /\ z = Bmat(a, c)
  BY <1>1, <1>3, <1>4
<1>6. /\ x \o y \in Seq(Plain) /\ Len(x \o y) = Len(x) + Len(y)
      /\ \A i \in 1..(Len(x) + Len(y)) :
           (x \o y)[i] = IF i <= Len(x) THEN x[i] ELSE y[i - Len(x)]
  BY ConcatProperties
<1>7. \A i \in 1..(a - c) : (x \o y)[i] = z[i]
  <2> TAKE i \in 1..(a - c)
  <2>1. CASE i <= a - b
    <3>1. i \in 1..(a - b) /\ i \in 1..(Len(x) + Len(y)) /\ i <= Len(x)
      BY <1>1, <1>3, <1>5, <2>1
    <3>2. (x \o y)[i] = x[i]
      BY <1>6, <3>1
    <3> QED
      BY <1>1, <1>4, <1>5, <3>1, <3>2
  <2>2. CASE i > a - b
    <3>1. i - (a - b) \in 1..(b - c) /\ b + 1 - (i - (a - b)) = a + 1 - i
      BY <2>2
    <3>2. (x \o y)[i] = y[i - (a - b)]
      BY <1>1, <1>3, <1>5, <1>6, <2>2
    <3> QED
      BY <1>3, <1>4, <1>5, <3>1, <3>2
  <2>3. i <= a - b \/ i > a - b
    BY Blocks
  <2> QED
    BY <2>1, <2>2, <2>3
<1>8. Len(x \o y) = Len(z) /\ Len(z) = a - c
  BY <1>1, <1>3, <1>4, <1>5, <1>6
<1>9. x \o y = z
  BY <1>6, <1>7, <1>8, SeqEqual
<1> QED
  BY <1>5, <1>9

LEMMA BmatSingle ==
  ASSUME Fields, NEW a \in Slices
  PROVE  Bmat(a, a - 1) = <<B(a)>>
<1>1. a \in 0..m /\ a - 1 \in 0..a /\ a - (a - 1) = 1
  BY Blocks DEF Slices
<1>2. /\ Bmat(a, a - 1) \in Seq(Plain) /\ Len(Bmat(a, a - 1)) = 1
      /\ Bmat(a, a - 1)[1] = B(a)
  <2>1. /\ Bmat(a, a - 1) \in Seq(Plain) /\ Len(Bmat(a, a - 1)) = a - (a - 1)
        /\ \A i \in 1..(a - (a - 1)) : Bmat(a, a - 1)[i] = B(a + 1 - i)
    BY <1>1, BmatEntries
  <2>2. 1 \in 1..(a - (a - 1)) /\ a + 1 - 1 = a
    BY <1>1
  <2> QED
    BY <1>1, <2>1, <2>2
<1>3. PICK x \in Seq(Plain) : x = Bmat(a, a - 1)
  BY <1>2
<1>4. PICK y \in Plain : y = B(a)
  BY PlainFactors
<1>5. x = <<y>>
  BY <1>2, <1>3, <1>4
<1> QED
  BY <1>3, <1>4, <1>5

(* What changes in other slices does not matter.                           *)
LEMMA BmatFrame ==
  ASSUME NEW a \in 0..m, NEW b \in 0..a, \A i \in (b + 1)..a : B(i)' = B(i)
  PROVE  Bmat(a, b)' = Bmat(a, b)
<1>1. \A i \in 1..(a - b) : a + 1 - i \in (b + 1)..a
  BY Blocks
<1> QED
  BY <1>1 DEF Bmat

(* A product of factors, none of them inverse, times a factor *)
LEMMA Cancel ==
  ASSUME NEW x \in Plain, NEW rest \in Seq(Plain)
  PROVE  /\ LeftTimes(InverseOf(x), <<x>> \o rest) = rest
         /\ RightTimes(rest, x) = Append(rest, x)
         /\ RightTimes(Append(rest, x), InverseOf(x)) = rest
         /\ LeftTimes(x, rest) = <<x>> \o rest
<1>1. \A y \in Plain : InverseOf(x) # y /\ InverseOf(InverseOf(x)) = x
  <2> TAKE y \in Plain
  <2>1. x.power = 1 /\ y.power = 1 /\ InverseOf(x).power = -1
    BY DEF Plain, InverseOf
  <2>2. InverseOf(InverseOf(x)) = x
    <3>1. PICK a \in Slices, b \in Bit, d \in Bit :
            x = [slice |-> a, phi |-> b, cosh |-> d, power |-> 1]
      BY DEF Plain
    <3>2. \A p \in Int : InverseOf([slice |-> a, phi |-> b, cosh |-> d, power |-> p])
                         = [slice |-> a, phi |-> b, cosh |-> d, power |-> -p]
      BY DEF InverseOf
    <3>3. PICK p \in Int : p = -1 /\ -p = 1
      OBVIOUS
    <3> QED
      BY <3>1, <3>2, <3>3
  <2> QED
    BY <2>1, <2>2
<1>2. rest # <<>> => Head(rest) \in Plain /\ rest[Len(rest)] \in Plain
  <2> SUFFICES ASSUME rest # <<>> PROVE Head(rest) \in Plain /\ rest[Len(rest)] \in Plain
    OBVIOUS
  <2>1. Len(rest) \in Nat /\ Len(rest) # 0
    BY EmptySeq, LenProperties
  <2>2. Len(rest) \in 1..Len(rest) /\ 1 \in 1..Len(rest)
    BY <2>1
  <2> QED
    BY <2>2, ElementOfSeq, HeadTailProperties
<1>3. LeftTimes(x, rest) = <<x>> \o rest
  BY <1>1, <1>2 DEF LeftTimes
<1>4. RightTimes(rest, x) = Append(rest, x)
  BY <1>1, <1>2 DEF RightTimes
<1>5. LeftTimes(InverseOf(x), <<x>> \o rest) = rest
  <2>1. <<x>> \o rest # <<>> /\ Head(<<x>> \o rest) = x /\ Tail(<<x>> \o rest) = rest
    OBVIOUS
  <2> QED
    BY <1>1, <2>1 DEF LeftTimes
<1>6. RightTimes(Append(rest, x), InverseOf(x)) = rest
  <2>1. /\ Append(rest, x) # <<>> /\ Append(rest, x)[Len(Append(rest, x))] = x
        /\ SubSeq(Append(rest, x), 1, Len(Append(rest, x)) - 1) = rest
    BY AppendProperties
  <2> QED
    BY <1>1, <2>1 DEF RightTimes
<1> QED
  BY <1>3, <1>4, <1>5, <1>6

-----------------------------------------------------------------------------
(* The Green's functions of neighbouring slices                            *)

Rest(j) == Bmat(j - 1, 0) \o Bmat(m, j)

LEMMA GreenSplit ==
  ASSUME Fields, NEW j \in Slices
  PROVE  /\ Rest(j) \in Seq(Plain)
         /\ GreenAt(j) = <<B(j)>> \o Rest(j)
         /\ GreenAt(j - 1) = Append(Rest(j), B(j))
<1>1. /\ j \in 0..m /\ j - 1 \in 0..m /\ j - 1 \in 0..j
      /\ 0 \in 0..j /\ 0 \in 0..(j - 1) /\ m \in 0..m /\ j \in 0..m /\ j - 1 \in 0..m
  BY Blocks DEF Slices
<1>2. PICK lower \in Seq(Plain), upper \in Seq(Plain), x \in Plain :
        lower = Bmat(j - 1, 0) /\ upper = Bmat(m, j) /\ x = B(j)
  BY <1>1, BmatEntries, PlainFactors
<1>3. Bmat(j, 0) = <<x>> \o lower
  BY <1>1, <1>2, BmatJoin, BmatSingle
<1>4. Bmat(m, j - 1) = upper \o <<x>>
  BY <1>1, <1>2, BmatJoin, BmatSingle
<1>5. <<x>> \in Seq(Plain) /\ lower \o upper \in Seq(Plain)
  OBVIOUS
<1>6. /\ (<<x>> \o lower) \o upper = <<x>> \o (lower \o upper)
      /\ lower \o (upper \o <<x>>) = (lower \o upper) \o <<x>>
  BY <1>5, ConcatAssociative
<1>7. (lower \o upper) \o <<x>> = Append(lower \o upper, x)
  BY <1>5, AppendIsConcat
<1> QED
  BY <1>2, <1>3, <1>4, <1>5, <1>6, <1>7 DEF GreenAt, Rest

(* Wrapping takes green from a slice to the neighbouring one.              *)
LEMMA Wrapping ==
  ASSUME Fields, k \in Slices
  PROVE  /\ WrappedDown(GreenAt(k)) = GreenAt(k - 1)
         /\ WrappedUp(GreenAt(k - 1)) = GreenAt(k)
<1>1. PICK j \in Slices : j = k
  OBVIOUS
<1>2. PICK rest \in Seq(Plain), x \in Plain :
        /\ rest = Rest(j) /\ x = B(j)
        /\ GreenAt(j) = <<x>> \o rest /\ GreenAt(j - 1) = Append(rest, x)
  BY GreenSplit, PlainFactors
<1>3. /\ LeftTimes(InverseOf(x), <<x>> \o rest) = rest
      /\ RightTimes(rest, x) = Append(rest, x)
      /\ RightTimes(Append(rest, x), InverseOf(x)) = rest
      /\ LeftTimes(x, rest) = <<x>> \o rest
  BY Cancel
<1>4. WrappedDown(GreenAt(k)) = GreenAt(k - 1)
  BY <1>1, <1>2, <1>3 DEF WrappedDown
<1>5. WrappedUp(GreenAt(k - 1)) = GreenAt(k)
  BY <1>1, <1>2, <1>3 DEF WrappedUp
<1> QED
  BY <1>4, <1>5

(* The same of the next state *)
LEMMA GreenSplitNext ==
  (Fields => \A j \in Slices : /\ Rest(j) \in Seq(Plain)
                               /\ GreenAt(j) = <<B(j)>> \o Rest(j))'
<1>1. Fields => \A j \in Slices : /\ Rest(j) \in Seq(Plain)
                                  /\ GreenAt(j) = <<B(j)>> \o Rest(j)
  BY GreenSplit
<1> QED
  BY <1>1, PTL

(* An accepted update turns green into the one of the updated field.       *)
LEMMA Updating ==
  ASSUME Fields, NEW j \in Slices,
         phi' = [phi EXCEPT ![j] = 1 - @], coshTermPhi' = [coshTermPhi EXCEPT ![j] = 1 - phi[j]]
  PROVE  /\ Fields'
         /\ \A i \in Slices : i # j => B(i)' = B(i)
         /\ Replaced(GreenAt(j), B(j), Factor(j, 1 - phi[j], 1 - phi[j])) = GreenAt(j)'
<1>1. Fields'
  BY DEF Fields, Bit
<1>2. \A i \in Slices : i # j => B(i)' = B(i)
  BY DEF Fields, B, Factor
<1>3. B(j)' = Factor(j, 1 - phi[j], 1 - phi[j])
  BY DEF Fields, B, Factor
<1>4. Rest(j)' = Rest(j)
  <2>1. j \in 1..m /\ m \in Nat
    BY Blocks DEF Slices
  <2>2. \A i \in (0 + 1)..(j - 1) : B(i)' = B(i)
    BY <1>2, <2>1 DEF Slices
  <2>3. \A i \in (j + 1)..m : B(i)' = B(i)
    BY <1>2, <2>1 DEF Slices
  <2>4. Bmat(j - 1, 0)' = Bmat(j - 1, 0)
    <3>1. j - 1 \in 0..m /\ 0 \in 0..(j - 1)
      BY <2>1
    <3> QED
      BY <3>1, <2>2, BmatFrame
  <2>5. Bmat(m, j)' = Bmat(m, j)
    <3>1. m \in 0..m /\ j \in 0..m
      BY <2>1
    <3> QED
      BY <3>1, <2>3, BmatFrame
  <2> QED
    BY <2>4, <2>5 DEF Rest
<1>5. /\ Factor(j, 1 - phi[j], 1 - phi[j]) \in Plain
      /\ B(j) \in Plain /\ Rest(j) \in Seq(Plain)
      /\ GreenAt(j) = <<B(j)>> \o Rest(j)
      /\ GreenAt(j)' = <<B(j)'>> \o Rest(j)'
  <2>1. Factor(j, 1 - phi[j], 1 - phi[j]) \in Plain
    BY DEF Fields, Bit, Factor, Plain
  <2>2. GreenAt(j)' = <<B(j)'>> \o Rest(j)'
    BY <1>1, GreenSplitNext
  <2> QED
    BY <2>1, <2>2, GreenSplit, PlainFactors
<1>6. PICK x \in Plain, y \in Plain, rest \in Seq(Plain) :
        /\ x = B(j) /\ y = Factor(j, 1 - phi[j], 1 - phi[j]) /\ rest = Rest(j)
        /\ GreenAt(j) = <<x>> \o rest /\ GreenAt(j)' = <<y>> \o rest
  BY <1>3, <1>4, <1>5
<1>7. LeftTimes(InverseOf(x), <<x>> \o rest) = rest
  BY Cancel
<1>8. LeftTimes(y, rest) = <<y>> \o rest
  BY Cancel
<1> QED
  BY <1>1, <1>2, <1>6, <1>7, <1>8 DEF Replaced

-----------------------------------------------------------------------------
(* Where the loops of a sweep stand: the slice and the block that they are *)
(* at determine currentTimeslice, and which slices were sampled.           *)

IndexTypes ==
  /\ pc \in {"idle", "globalMove", "recompute", "decide", "update", "wrap", "advance",
             "finish", "aborted", "error"}
  /\ k \in 0..(m + 1) /\ l \in 0..n /\ gc \in Components
  /\ pending \in Seq({"shift", "wolff", "wolffShift"})
  /\ takeMeasurements \in BOOLEAN /\ measured \in [Slices -> Bit]
  /\ currentTimeslice \in 0..m /\ lastSweepDir \in {"Up", "Down"}
  /\ performedSweeps \in 0..MaxSweeps

MayMove == {"globalMove", "recompute", "decide"}

Indices ==
  /\ pc \notin {"wrap", "advance", "aborted"} => gc = 0
  /\ pc \notin {"idle", "aborted", "error"} => performedSweeps < MaxSweeps
  /\ pc = "idle" => currentTimeslice = IF Downwards THEN m ELSE 0
  /\ pc \in MayMove => Downwards /\ k = m /\ l = n /\ currentTimeslice = m
  /\ pc \in {"recompute", "decide"} => pending # <<>>
  /\ pc \in {"update", "wrap"} /\ Downwards =>
       /\ l \in 1..n /\ BlockTop(l - 1) < k /\ k <= BlockTop(l)
       /\ currentTimeslice = IF gc = 0 THEN k ELSE k - 1
  /\ pc \in {"update", "wrap"} /\ ~Downwards =>
       /\ l \in 0..(n - 1) /\ BlockTop(l) < k /\ k <= BlockTop(l + 1)
       /\ currentTimeslice = IF pc = "wrap" /\ gc = 0 THEN k - 1 ELSE k
  /\ pc = "advance" /\ Downwards => l \in 1..n /\ k = BlockTop(l - 1) /\ currentTimeslice = k
  /\ pc = "advance" /\ ~Downwards =>
       l \in 0..(n - 1) /\ k = BlockTop(l + 1) /\ currentTimeslice = k
  /\ pc = "finish" /\ Downwards => k = 0 /\ l = 0 /\ currentTimeslice = 0
  /\ pc = "finish" /\ ~Downwards => k = m + 1 /\ l = n /\ currentTimeslice = m

Sampled(i) == IF Downwards THEN (IF pc = "wrap" THEN i >= k ELSE i > k)
                           ELSE (IF pc = "advance" THEN i <= k ELSE i < k)
Samples ==
  takeMeasurements /\ pc \notin {"idle", "aborted", "error"} =>
    \A i \in Slices : measured[i] = IF Sampled(i) THEN 1 ELSE 0

Terms ==
  /\ Fields /\ coshTermPhi = phi /\ pc # "error"
  /\ gmd.phi \in [Slices -> Bit] /\ gmd.coshTermPhi = gmd.phi

Parity == Downwards <=> performedSweeps % 2 = 0

IndexInv == IndexTypes /\ Indices /\ Samples /\ Terms /\ Parity

LEMMA GotoLeads ==
  ASSUME NEW label, Goto(label)
  PROVE  pc' = label \/ pc' = "aborted"
BY DEF Goto

LEMMA EnabledMovesType == EnabledMoves \in Seq({"shift", "wolff", "wolffShift"})
<1> DEFINE M == {"shift", "wolff", "wolffShift"}
<1>1. PICK x \in Seq(M), y \in Seq(M), z \in Seq(M) :
        x = IfEnabled("shift") /\ y = IfEnabled("wolff") /\ z = IfEnabled("wolffShift")
  <2>1. \A move \in M : IfEnabled(move) \in Seq(M)
    <3> TAKE move \in M
    <3>1. <<move>> \in Seq(M) /\ <<>> \in Seq(M)
      OBVIOUS
    <3> QED
      BY <3>1 DEF IfEnabled
  <2> QED
    BY <2>1
<1>2. x \o y \in Seq(M) /\ x \o (y \o z) \in Seq(M) /\ (x \o y) \o z \in Seq(M)
  OBVIOUS
<1> QED
  BY <1>1, <1>2 DEF EnabledMoves

LEMMA IndexInit == Init => IndexInv
<1> SUFFICES ASSUME Init PROVE IndexInv
  OBVIOUS
<1>1. IndexTypes
  <2>1. m \in 0..(m + 1) /\ m \in 0..m /\ n \in 0..n /\ 0 \in Components
    BY Blocks, ParametersAssumption DEF Components
  <2>2. 0 \in 0..MaxSweeps /\ [i \in Slices |-> 0] \in [Slices -> Bit]
    BY ParametersAssumption DEF Bit
  <2>3. <<>> \in Seq({"shift", "wolff", "wolffShift"})
    OBVIOUS
  <2> QED
    BY <2>1, <2>2, <2>3 DEF Init, IndexTypes
<1>2. Indices
  BY DEF Init, Indices, MayMove, Downwards
<1>3. Samples
  BY DEF Init, Samples
<1>4. Terms
  BY DEF Init, Terms, Fields, NoBackup, Bit
<1>5. Parity
  BY DEF Init, Parity, Downwards
<1> QED
  BY <1>1, <1>2, <1>3, <1>4, <1>5 DEF IndexInv

LEMMA IndexStutter ==
  ASSUME IndexInv, UNCHANGED vars
  PROVE  IndexInv'
<1> USE DEF vars, loop, samples, field, fermions
<1>1. IndexTypes' /\ Samples' /\ Parity'
  BY DEF IndexInv, IndexTypes, Samples, Sampled, Parity, Downwards
<1>2. Indices'
  BY DEF IndexInv, Indices, MayMove, Downwards
<1>3. Terms'
  BY DEF IndexInv, Terms, Fields
<1> QED
  BY <1>1, <1>2, <1>3 DEF IndexInv

LEMMA IndexStart ==
  ASSUME IndexInv, NEW take \in BOOLEAN, StartSweepDown(take) \/ StartSweepUp(take)
  PROVE  IndexInv'
<1> USE DEF IndexInv, samples, field, fermions
<1>1. measured' \in [Slices -> Bit] /\ takeMeasurements' \in BOOLEAN
      /\ (takeMeasurements' => \A i \in Slices : measured'[i] = 0)
  BY DEF StartSweepDown, StartSweepUp, InitMeasurements, IndexTypes, Bit
<1>2. Terms' /\ Parity'
  BY DEF StartSweepDown, StartSweepUp, Terms, Fields, Parity, Downwards
<1>3. CASE StartSweepDown(take)
  <2>1. IndexTypes'
    <3>1. pending' \in Seq({"shift", "wolff", "wolffShift"})
      BY <1>3, EnabledMovesType DEF StartSweepDown
    <3>2. k' \in 0..(m + 1) /\ l' \in 0..n /\ gc' \in Components
      BY <1>3, Blocks, ParametersAssumption DEF StartSweepDown, Components
    <3> QED
      BY <1>1, <1>3, <3>1, <3>2 DEF StartSweepDown, IndexTypes
  <2>2. Indices'
    BY <1>3, ParametersAssumption DEF StartSweepDown, IndexTypes, Indices, MayMove, Downwards
  <2>3. Samples'
    <3> HIDE DEF IndexInv
    <3>1. \A i \in Slices : ~(i > m)
      BY Blocks DEF Slices
    <3>2. pc' = "globalMove" /\ k' = m /\ lastSweepDir' = "Up"
      BY <1>3 DEF StartSweepDown
    <3> QED
      BY <1>1, <3>1, <3>2 DEF Samples, Sampled, Downwards
  <2> QED
    BY <1>2, <2>1, <2>2, <2>3
<1>4. CASE StartSweepUp(take)
  <2>1. IndexTypes'
    BY <1>1, <1>4, Blocks, ParametersAssumption DEF StartSweepUp, IndexTypes, Components
  <2>2. Indices'
    <3>1. 0 \in 0..n /\ 1 \in 0..n /\ 0 \in 0..(n - 1) /\ BlockTop(0) < BlockTop(1)
          /\ BlockTop(0) = 0 /\ BlockTop(1) \in 0..m
      BY Blocks
    <3>2. BlockTop(0 + 1) = BlockTop(1)
      OBVIOUS
    <3> QED
      BY <1>4, <3>1, <3>2, ParametersAssumption
         DEF StartSweepUp, IndexTypes, Indices, MayMove, Downwards
  <2>3. Samples'
    <3> HIDE DEF IndexInv
    <3>1. \A i \in Slices : ~(i < 1)
      BY Blocks DEF Slices
    <3>2. pc' = "wrap" /\ k' = 1 /\ lastSweepDir' = "Down"
      BY <1>4 DEF StartSweepUp
    <3> QED
      BY <1>1, <3>1, <3>2 DEF Samples, Sampled, Downwards
  <2> QED
    BY <1>2, <2>1, <2>2, <2>3
<1> QED
  BY <1>3, <1>4

LEMMA IndexMove ==
  ASSUME IndexInv, AttemptMove \/ RecomputeGreen \/ AcceptMove \/ RejectMove \/ BeginDown
  PROVE  IndexInv'
<1> USE DEF IndexInv, samples, field, fermions, SetupUdVStorage
<1>1. /\ pc \in MayMove /\ UNCHANGED <<k, l, gc, samples, performedSweeps>>
      /\ currentTimeslice' = m /\ lastSweepDir' = "Up" /\ lastSweepDir = "Up"
      /\ k = m /\ l = n /\ gc = 0
  BY DEF AttemptMove, RecomputeGreen, AcceptMove, RejectMove, BeginDown, Indices, MayMove,
         Downwards, IndexTypes
<1>2. pc' \in {"globalMove", "recompute", "decide", "update", "aborted"}
  BY GotoLeads DEF AttemptMove, RecomputeGreen, AcceptMove, RejectMove, BeginDown
<1>3. Terms'
  <2>1. CASE AttemptMove
    <3>1. PICK moved \in [Slices -> Bit] : phi' = moved /\ coshTermPhi' = moved
      BY <2>1 DEF AttemptMove, MovedFields, TermsOf, Terms, Fields, Bit
    <3>2. gmd'.phi = phi /\ gmd'.coshTermPhi = coshTermPhi
      BY <2>1 DEF AttemptMove, StoreBackups
    <3> QED
      BY <1>2, <3>1, <3>2 DEF Terms, Fields
  <2>2. CASE RejectMove
    BY <1>2, <2>2 DEF RejectMove, Terms, Fields
  <2>3. CASE RecomputeGreen \/ AcceptMove \/ BeginDown
    BY <1>2, <2>3 DEF RecomputeGreen, AcceptMove, BeginDown, Terms, Fields
  <2> QED
    BY <2>1, <2>2, <2>3
<1>4. /\ pending' \in Seq({"shift", "wolff", "wolffShift"})
      /\ pc' \in {"recompute", "decide"} => pending' # <<>>
  <2>1. pending \in Seq({"shift", "wolff", "wolffShift"})
    BY DEF IndexTypes
  <2>2. CASE AcceptMove \/ RejectMove
    <3>1. pc = "decide" /\ pending' = Tail(pending) /\ pc' = "globalMove"
      BY <2>2 DEF AcceptMove, RejectMove
    <3>2. pending # <<>>
      BY <3>1 DEF Indices
    <3> QED
      BY <2>1, <3>1, <3>2
  <2>3. CASE AttemptMove
    BY <2>1, <2>3 DEF AttemptMove
  <2>4. CASE RecomputeGreen
    <3>1. pc = "recompute" /\ pending' = pending
      BY <2>4 DEF RecomputeGreen
    <3> QED
      BY <2>1, <3>1 DEF Indices
  <2>5. CASE BeginDown
    BY <2>1, <2>5 DEF BeginDown
  <2> QED
    BY <2>2, <2>3, <2>4, <2>5
<1>5. IndexTypes'
  BY <1>1, <1>2, <1>4, Blocks DEF IndexTypes
<1>6. Indices'
  <2>1. /\ n \in 1..n /\ m \in Nat /\ m > 0
        /\ BlockTop(n - 1) < m /\ BlockTop(n) = m
    BY Blocks
  <2> QED
    BY <1>1, <1>2, <1>4, <2>1 DEF Indices, MayMove, Downwards
<1>7. Samples'
  BY <1>1, <1>2 DEF Samples, Sampled, Downwards, MayMove
<1>8. Parity'
  BY <1>1 DEF Parity, Downwards
<1> QED
  BY <1>3, <1>5, <1>6, <1>7, <1>8

LEMMA IndexUpdate ==
  ASSUME IndexInv, NEW accept \in BOOLEAN, UpdateInSliceDown(accept) \/ UpdateInSliceUp(accept)
  PROVE  IndexInv'
<1> USE DEF samples
<1>1. /\ pc = "update" /\ gc = 0 /\ gc' = 0 /\ currentTimeslice = k
      /\ UNCHANGED <<l, pending, takeMeasurements, currentTimeslice, lastSweepDir, gmd,
                     performedSweeps>>
      /\ performedSweeps < MaxSweeps
  BY DEF UpdateInSliceDown, UpdateInSliceUp, IndexInv, Indices, Downwards
<1>2. k \in Slices /\ k \in 1..m
  BY <1>1, Blocks DEF IndexInv, IndexTypes, Indices, Slices, Downwards
<1>3. Terms'
  <2>1. pc' # "error"
    BY GotoLeads DEF UpdateInSliceDown, UpdateInSliceUp
  <2>2. Fields' /\ coshTermPhi' = phi'
    BY <1>2 DEF UpdateInSliceDown, UpdateInSliceUp, UpdateField, IndexInv, Terms, Fields, Bit
  <2> QED
    BY <1>1, <2>1, <2>2 DEF IndexInv, Terms
<1>4. Parity'
  BY <1>1 DEF IndexInv, Parity, Downwards
<1>5. takeMeasurements => measured[k] = 0
  BY <1>1, <1>2 DEF IndexInv, Samples, Sampled, IndexTypes, Slices
<1>6. /\ measured' \in [Slices -> Bit]
      /\ takeMeasurements => \A i \in Slices : measured'[i] = IF i = k THEN 1 ELSE measured[i]
  BY <1>2, <1>5 DEF UpdateInSliceDown, UpdateInSliceUp, Measure, IndexInv, IndexTypes, Bit
<1>7. CASE UpdateInSliceDown(accept)
  <2>1. /\ pc' = "wrap" \/ pc' = "aborted"
        /\ k' = k /\ Downwards /\ Downwards'
    BY <1>7, GotoLeads DEF UpdateInSliceDown, Downwards
  <2>2. IndexTypes'
    BY <1>1, <1>6, <2>1 DEF IndexInv, IndexTypes
  <2>3. Indices'
    BY <1>1, <2>1 DEF IndexInv, Indices, MayMove, Downwards
  <2>4. Samples'
    <3>1. \A i \in Slices : i >= k <=> i > k \/ i = k
      BY <1>2, Blocks DEF Slices
    <3> QED
      BY <1>1, <1>6, <2>1, <3>1 DEF IndexInv, Samples, Sampled
  <2> QED
    BY <1>3, <1>4, <2>2, <2>3, <2>4 DEF IndexInv
<1>8. CASE UpdateInSliceUp(accept)
  <2>1. /\ ~Downwards /\ ~Downwards'
        /\ l \in 0..(n - 1) /\ BlockTop(l) < k /\ k <= BlockTop(l + 1)
        /\ BlockTop(l) \in 0..m /\ BlockTop(l + 1) \in 0..m
    BY <1>1, <1>8, Blocks DEF UpdateInSliceUp, Downwards, IndexInv, Indices
  <2>2. CASE k = BlockTop(l + 1)
    <3>1. /\ pc' = "advance" \/ pc' = "aborted"
          /\ k' = k
      BY <1>8, <2>2, GotoLeads DEF UpdateInSliceUp
    <3>2. IndexTypes'
      BY <1>1, <1>6, <3>1 DEF IndexInv, IndexTypes
    <3>3. Indices'
      BY <1>1, <2>1, <2>2, <3>1 DEF Indices, MayMove
    <3>4. Samples'
      <4>1. \A i \in Slices : i <= k <=> i < k \/ i = k
        BY <1>2, Blocks DEF Slices
      <4> QED
        BY <1>1, <1>6, <2>1, <3>1, <4>1 DEF IndexInv, Samples, Sampled
    <3> QED
      BY <1>3, <1>4, <3>2, <3>3, <3>4 DEF IndexInv
  <2>3. CASE k # BlockTop(l + 1)
    <3>1. /\ pc' = "wrap" \/ pc' = "aborted"
          /\ k' = k + 1
      BY <1>8, <2>3, GotoLeads DEF UpdateInSliceUp
    <3>2. k' \in 0..(m + 1) /\ BlockTop(l) < k' /\ k' <= BlockTop(l + 1) /\ k' - 1 = k
      BY <1>2, <2>1, <2>3, <3>1, Blocks
    <3>3. IndexTypes'
      BY <1>1, <1>6, <3>1, <3>2 DEF IndexInv, IndexTypes
    <3>4. Indices'
      BY <1>1, <2>1, <3>1, <3>2 DEF Indices, MayMove
    <3>5. Samples'
      <4>1. \A i \in Slices : i < k' <=> i < k \/ i = k
        BY <1>2, <3>1, Blocks DEF Slices
      <4> QED
        BY <1>1, <1>6, <2>1, <3>1, <4>1 DEF IndexInv, Samples, Sampled
    <3> QED
      BY <1>3, <1>4, <3>3, <3>4, <3>5 DEF IndexInv
  <2> QED
    BY <2>2, <2>3
<1> QED
  BY <1>7, <1>8

LEMMA IndexWrap ==
  ASSUME IndexInv, WrapDownGreen \/ WrapUpGreen
  PROVE  IndexInv'
<1> USE DEF samples, field
<1>1. /\ pc = "wrap" /\ performedSweeps < MaxSweeps
      /\ UNCHANGED <<l, pending, takeMeasurements, measured, phi, coshTermPhi, lastSweepDir,
                     gmd, performedSweeps>>
      /\ Downwards' <=> Downwards
      /\ gc \in Components /\ gc' \in Components /\ (gc = 0 \/ gc = 1)
  BY ParametersAssumption
     DEF WrapDownGreen, WrapUpGreen, IndexInv, IndexTypes, Indices, Downwards, Components,
         NextComponent
<1>2. k \in Slices /\ k \in 1..m
  BY <1>1, Blocks DEF IndexInv, IndexTypes, Indices, Slices
<1>3. pc' \in {"wrap", "advance", "update", "aborted"}
  BY GotoLeads DEF WrapDownGreen, WrapUpGreen
<1>4. Terms' /\ Parity'
  BY <1>1, <1>3 DEF IndexInv, Terms, Fields, Parity, Downwards
<1>5. CASE WrapDownGreen
  <2>1. /\ Downwards /\ currentTimeslice' = k - 1
        /\ l \in 1..n /\ BlockTop(l - 1) < k /\ k <= BlockTop(l)
        /\ l - 1 \in 0..n /\ BlockTop(l - 1) \in 0..m /\ BlockTop(l) \in 0..m
    BY <1>1, <1>5, Blocks DEF WrapDownGreen, IndexInv, Indices
  <2>2. CASE NextComponent
    <3>1. (pc' = "wrap" \/ pc' = "aborted") /\ k' = k /\ gc' = 1
      BY <1>1, <1>5, <2>2, GotoLeads, ParametersAssumption DEF WrapDownGreen, NextComponent
    <3>2. IndexTypes'
      BY <1>1, <1>2, <2>1, <3>1, Blocks DEF IndexInv, IndexTypes
    <3>3. Indices'
      BY <1>1, <2>1, <3>1 DEF Indices, MayMove
    <3>4. Samples'
      BY <1>1, <2>1, <3>1 DEF IndexInv, Samples, Sampled
    <3> QED
      BY <1>4, <3>2, <3>3, <3>4 DEF IndexInv
  <2>3. CASE ~NextComponent
    <3>1. /\ k' = k - 1 /\ gc' = 0
          /\ pc' = (IF k - 1 = BlockTop(l - 1) THEN "advance" ELSE "update") \/ pc' = "aborted"
      BY <1>5, <2>3, GotoLeads DEF WrapDownGreen
    <3>2. IndexTypes'
      BY <1>1, <1>2, <2>1, <3>1, Blocks DEF IndexInv, IndexTypes
    <3>3. Indices'
      BY <1>1, <1>2, <2>1, <3>1, Blocks DEF Indices, MayMove
    <3>4. Samples'
      <4>1. \A i \in Slices : i > k - 1 <=> i >= k
        BY <1>2, Blocks DEF Slices
      <4> QED
        BY <1>1, <2>1, <3>1, <4>1 DEF IndexInv, Samples, Sampled
    <3> QED
      BY <1>4, <3>2, <3>3, <3>4 DEF IndexInv
  <2> QED
    BY <2>2, <2>3
<1>6. CASE WrapUpGreen
  <2>1. /\ ~Downwards /\ currentTimeslice' = k /\ k' = k
        /\ l \in 0..(n - 1) /\ BlockTop(l) < k /\ k <= BlockTop(l + 1)
    BY <1>1, <1>6, Blocks DEF WrapUpGreen, SliceAbove, IndexInv, Indices
  <2>2. /\ pc' = "aborted" \/ IF NextComponent THEN pc' = "wrap" ELSE pc' = "update"
        /\ gc' = IF NextComponent THEN gc + 1 ELSE 0
    BY <1>6, GotoLeads DEF WrapUpGreen
  <2>3. IndexTypes'
    BY <1>1, <1>2, <1>3, <2>1, Blocks DEF IndexInv, IndexTypes
  <2>4. Indices'
    BY <1>1, <2>1, <2>2 DEF Indices, MayMove
  <2>5. Samples'
    BY <1>1, <1>3, <2>1, <2>2 DEF IndexInv, Samples, Sampled
  <2> QED
    BY <1>4, <2>3, <2>4, <2>5 DEF IndexInv
<1> QED
  BY <1>5, <1>6

LEMMA IndexAdvance ==
  ASSUME IndexInv, AdvanceDownGreen \/ AdvanceUpGreen
  PROVE  IndexInv'
<1> USE DEF samples, field
<1>1. /\ pc = "advance" /\ performedSweeps < MaxSweeps
      /\ UNCHANGED <<pending, takeMeasurements, measured, phi, coshTermPhi, lastSweepDir,
                     gmd, performedSweeps>>
      /\ Downwards' <=> Downwards
      /\ gc \in Components /\ gc' \in Components
  BY ParametersAssumption
     DEF AdvanceDownGreen, AdvanceUpGreen, IndexInv, IndexTypes, Indices, Downwards,
         Components, NextComponent
<1>2. pc' \in {"wrap", "advance", "update", "finish", "aborted"}
  BY GotoLeads DEF AdvanceDownGreen, AdvanceUpGreen
<1>3. Terms' /\ Parity'
  BY <1>1, <1>2 DEF IndexInv, Terms, Fields, Parity, Downwards
<1>4. CASE AdvanceDownGreen
  <2>1. /\ Downwards /\ l \in 1..n /\ k = BlockTop(l - 1) /\ currentTimeslice = k
        /\ currentTimeslice' = k /\ k' = k
        /\ l - 1 \in 0..n /\ BlockTop(l - 1) \in 0..m
    BY <1>1, <1>4, Blocks DEF AdvanceDownGreen, IndexInv, Indices
  <2>2. CASE NextComponent
    <3>1. (pc' = "advance" \/ pc' = "aborted") /\ l' = l
      BY <1>4, <2>2, GotoLeads DEF AdvanceDownGreen
    <3>2. IndexTypes'
      BY <1>1, <2>1, <3>1 DEF IndexInv, IndexTypes
    <3>3. Indices'
      BY <1>1, <2>1, <3>1 DEF Indices, MayMove
    <3>4. Samples'
      BY <1>1, <2>1, <3>1 DEF IndexInv, Samples, Sampled
    <3> QED
      BY <1>3, <3>2, <3>3, <3>4 DEF IndexInv
  <2>3. CASE ~NextComponent
    <3>1. /\ l' = l - 1 /\ gc' = 0
          /\ pc' = (IF l > 1 THEN "update" ELSE "finish") \/ pc' = "aborted"
      BY <1>4, <2>3, GotoLeads DEF AdvanceDownGreen
    <3>2. IndexTypes'
      BY <1>1, <2>1, <3>1 DEF IndexInv, IndexTypes
    <3>3. CASE l > 1
      <4>1. /\ l' \in 1..n /\ l' - 1 \in 0..n /\ l' - 1 < l'
            /\ BlockTop(l' - 1) < k' /\ k' <= BlockTop(l')
        <5>1. l' \in 1..n /\ l' \in 0..n /\ l' - 1 \in 0..n /\ l' - 1 < l'
          BY <2>1, <3>1, <3>3, Blocks
        <5>2. BlockTop(l' - 1) < BlockTop(l')
          BY <5>1, Blocks
        <5>3. k' = BlockTop(l') /\ k' <= k'
          BY <2>1, <3>1, Blocks
        <5> QED
          BY <5>1, <5>2, <5>3
      <4>2. Indices'
        BY <1>1, <2>1, <3>1, <3>3, <4>1 DEF Indices, MayMove
      <4>3. Samples'
        BY <1>1, <2>1, <3>1, <3>3 DEF IndexInv, Samples, Sampled
      <4> QED
        BY <1>3, <3>2, <4>2, <4>3 DEF IndexInv
    <3>4. CASE ~(l > 1)
      <4>1. l = 1 /\ l' = 0 /\ k' = 0
        BY <2>1, <3>1, <3>4, Blocks
      <4>2. Indices'
        BY <1>1, <2>1, <3>1, <3>4, <4>1 DEF Indices, MayMove
      <4>3. Samples'
        BY <1>1, <2>1, <3>1, <3>4 DEF IndexInv, Samples, Sampled
      <4> QED
        BY <1>3, <3>2, <4>2, <4>3 DEF IndexInv
    <3> QED
      BY <3>3, <3>4
  <2> QED
    BY <2>2, <2>3
<1>5. CASE AdvanceUpGreen
  <2>1. /\ ~Downwards /\ l \in 0..(n - 1) /\ k = BlockTop(l + 1) /\ currentTimeslice = k
        /\ currentTimeslice' = k
        /\ l + 1 \in 0..n /\ BlockTop(l + 1) \in 0..m
    BY <1>1, <1>5, Blocks DEF AdvanceUpGreen, IndexInv, Indices
  <2>2. CASE NextComponent
    <3>1. (pc' = "advance" \/ pc' = "aborted") /\ l' = l /\ k' = k
      BY <1>5, <2>2, GotoLeads DEF AdvanceUpGreen
    <3>2. IndexTypes'
      BY <1>1, <2>1, <3>1 DEF IndexInv, IndexTypes
    <3>3. Indices'
      BY <1>1, <2>1, <3>1 DEF Indices, MayMove
    <3>4. Samples'
      BY <1>1, <2>1, <3>1 DEF IndexInv, Samples, Sampled
    <3> QED
      BY <1>3, <3>2, <3>3, <3>4 DEF IndexInv
  <2>3. CASE ~NextComponent
    <3>1. /\ l' = l + 1 /\ k' = k + 1 /\ gc' = 0
          /\ pc' = (IF l < n - 1 THEN "wrap" ELSE "finish") \/ pc' = "aborted"
      BY <1>5, <2>3, GotoLeads DEF AdvanceUpGreen
    <3>2. IndexTypes'
      BY <1>1, <2>1, <3>1, Blocks DEF IndexInv, IndexTypes
    <3>3. Samples'
      <4>1. \A i \in Slices : i < k + 1 <=> i <= k
        BY <2>1, Blocks DEF Slices
      <4> QED
        BY <1>1, <2>1, <3>1, <4>1 DEF IndexInv, Samples, Sampled
    <3>4. CASE l < n - 1
      <4>1. l' \in 0..(n - 1) /\ BlockTop(l') < k' /\ k' <= BlockTop(l' + 1)
        <5>1. l' \in 0..(n - 1) /\ l' \in 0..n /\ l' + 1 \in 0..n /\ l' < l' + 1
          BY <2>1, <3>1, <3>4, Blocks
        <5>2. BlockTop(l') < BlockTop(l' + 1) /\ BlockTop(l' + 1) \in 0..m
          BY <5>1, Blocks
        <5>3. k' = BlockTop(l') + 1 /\ BlockTop(l') \in 0..m
          BY <2>1, <3>1
        <5> QED
          BY <5>1, <5>2, <5>3, Blocks
      <4>2. k' - 1 = k
        BY <2>1, <3>1, Blocks
      <4>3. Indices'
        BY <1>1, <2>1, <3>1, <3>4, <4>1, <4>2 DEF Indices, MayMove
      <4> QED
        BY <1>3, <3>2, <3>3, <4>3 DEF IndexInv
    <3>5. CASE ~(l < n - 1)
      <4>1. l' = n /\ k' = m + 1 /\ k = m
        <5>1. l + 1 = n /\ BlockTop(n) = m
          BY <2>1, <3>5, Blocks
        <5> QED
          BY <2>1, <3>1, <5>1
      <4>2. Indices'
        BY <1>1, <2>1, <3>1, <3>5, <4>1 DEF Indices, MayMove
      <4> QED
        BY <1>3, <3>2, <3>3, <4>2 DEF IndexInv
    <3> QED
      BY <3>4, <3>5
  <2> QED
    BY <2>2, <2>3
<1> QED
  BY <1>4, <1>5

LEMMA IndexIdle ==
  ASSUME IndexInv, FinishSweep \/ Reload
  PROVE  IndexInv'
<1> USE DEF samples, field, loop
<1>1. performedSweeps \in Nat /\ MaxSweeps \in Nat
  BY ParametersAssumption DEF IndexInv, IndexTypes
<1>2. /\ pc' = "idle" /\ gc' = 0 /\ gc' \in Components
      /\ UNCHANGED <<k, l, pending, samples, phi, coshTermPhi>>
  BY DEF FinishSweep, Reload, IndexInv, IndexTypes, Indices, Terms
<1>3. Terms'
  BY <1>2 DEF FinishSweep, Reload, IndexInv, Terms, Fields, NoBackup, Bit
<1>4. Samples'
  BY <1>2 DEF Samples
<1>5. CASE FinishSweep
  <2>1. /\ performedSweeps' = performedSweeps + 1 /\ performedSweeps < MaxSweeps
        /\ currentTimeslice' = currentTimeslice /\ (Downwards' <=> ~Downwards)
        /\ currentTimeslice = (IF Downwards THEN 0 ELSE m)
        /\ lastSweepDir' \in {"Up", "Down"}
    BY <1>5 DEF FinishSweep, IndexInv, IndexTypes, Indices, Downwards
  <2>2. Parity'
    <3>1. (performedSweeps + 1) % 2 = 0 <=> ~(performedSweeps % 2 = 0)
      BY <1>1
    <3> QED
      BY <2>1, <3>1 DEF IndexInv, Parity
  <2>3. IndexTypes'
    BY <1>1, <1>2, <2>1 DEF IndexInv, IndexTypes
  <2>4. Indices'
    BY <1>2, <2>1 DEF Indices, MayMove
  <2> QED
    BY <1>3, <1>4, <2>2, <2>3, <2>4 DEF IndexInv
<1>6. CASE Reload
  <2>1. /\ performedSweeps' = performedSweeps /\ currentTimeslice' = m /\ lastSweepDir' = "Up"
        /\ performedSweeps % 2 = 0
    BY <1>6 DEF Reload, SetupUdVStorage, SavedHere
  <2>2. IndexTypes' /\ Parity'
    BY <1>2, <2>1, Blocks DEF IndexInv, IndexTypes, Parity, Downwards
  <2>3. Indices'
    BY <1>2, <2>1 DEF Indices, MayMove, Downwards
  <2> QED
    BY <1>3, <1>4, <2>2, <2>3 DEF IndexInv
<1> QED
  BY <1>5, <1>6

LEMMA IndexNext == IndexInv /\ [Next]_vars => IndexInv'
BY IndexStutter, IndexStart, IndexMove, IndexUpdate, IndexWrap, IndexAdvance, IndexIdle
   DEF Next, Halt

LEMMA IndexAlways == Spec => []IndexInv
BY IndexInit, IndexNext, PTL DEF Spec

(* consistencyCheck never throws: every term belongs to its field whenever *)
(* a sweep ends, whichever global moves were tried and undone in it.       *)
THEOREM TermsStayConsistent == Spec => []TermsConsistent
<1>1. IndexInv => TermsConsistent
  BY DEF IndexInv, Terms, TermsConsistent
<1> QED
  BY <1>1, IndexAlways, PTL

(* A sweep with measurements samples every slice exactly once, upwards and *)
(* downwards, for any number of slices and any s below it.                 *)
THEOREM SlicesAreMeasured == Spec => []EverySliceMeasured
<1>1. ASSUME IndexInv PROVE EverySliceMeasured
  <2> SUFFICES ASSUME pc = "finish", takeMeasurements
               PROVE  measured = [i \in Slices |-> 1]
    BY DEF EverySliceMeasured
  <2>1. \A i \in Slices : Sampled(i)
    BY <1>1, Blocks DEF IndexInv, Indices, Sampled, Slices, Downwards
  <2>2. \A i \in Slices : measured[i] = 1
    BY <1>1, <2>1 DEF IndexInv, Samples
  <2> QED
    BY <1>1, <2>2 DEF IndexInv, IndexTypes
<1> QED
  BY <1>1, IndexAlways, PTL

-----------------------------------------------------------------------------
(* Types of the words                                                      *)

WordTypes ==
  /\ green \in Greens /\ green_inv_sv \in Greens /\ UdVStorage \in Storage
  /\ gmd \in [phi : [Slices -> Bit], coshTermPhi : [Slices -> Bit], green : Greens,
              green_inv_sv : Greens, UdVStorage : Storage]

LEMMA PlainWords == Seq(Plain) \subseteq Words /\ Plain \subseteq Factors
<1>1. Plain \subseteq Factors
  BY DEF Plain, Factors
<1>2. \A word \in Seq(Plain) : word \in Seq(Factors)
  BY <1>1, SeqMonotonic
<1> QED
  BY <1>1, <1>2 DEF Words

LEMMA BmatWords ==
  ASSUME Fields, NEW a \in 0..m, NEW b \in 0..a
  PROVE  Bmat(a, b) \in Words
BY BmatEntries, PlainWords

LEMMA InverseType ==
  ASSUME NEW x \in Plain
  PROVE  InverseOf(x) \in Factors
<1>1. InverseOf(x) = [slice |-> x.slice, phi |-> x.phi, cosh |-> x.cosh, power |-> -1]
  BY DEF Plain, InverseOf
<1> QED
  BY <1>1 DEF Plain, Factors

LEMMA TimesWords ==
  ASSUME NEW x \in Factors, NEW word \in Words
  PROVE  LeftTimes(x, word) \in Words /\ RightTimes(word, x) \in Words
<1>1. <<x>> \o word \in Words /\ Append(word, x) \in Words
  BY DEF Words
<1>2. word # <<>> => Tail(word) \in Words
  BY HeadTailProperties DEF Words
<1>3. SubSeq(word, 1, Len(word) - 1) \in Words
  <2>1. \A i \in 1..(Len(word) - 1) : word[i] \in Factors
    BY ElementOfSeq, LenProperties DEF Words
  <2>2. 1 \in Int /\ Len(word) - 1 \in Int
    BY LenProperties DEF Words
  <2> QED
    BY <2>1, <2>2, SubSeqProperties DEF Words
<1> QED
  BY <1>1, <1>2, <1>3 DEF LeftTimes, RightTimes

LEMMA BottomTypes ==
  ASSUME Fields
  PROVE  BottomProducts \in [0..n -> Words] /\ BottomProducts[n] \in Words
<1>1. \A b \in 0..n : Bmat(BlockTop(b), 0) \in Words
  <2> TAKE b \in 0..n
  <2>1. BlockTop(b) \in 0..m /\ 0 \in 0..BlockTop(b)
    BY Blocks
  <2> QED
    BY <2>1, BmatWords
<1>2. n \in 0..n
  BY Blocks
<1> QED
  BY <1>1, <1>2 DEF BottomProducts

LEMMA SetupTypes ==
  ASSUME Fields, SetupUdVStorage
  PROVE  green' \in Greens /\ green_inv_sv' \in Greens /\ UdVStorage' \in Storage
BY BottomTypes DEF SetupUdVStorage, Greens, Storage

LEMMA NoBackupType ==
  NoBackup \in [phi : [Slices -> Bit], coshTermPhi : [Slices -> Bit], green : Greens,
                green_inv_sv : Greens, UdVStorage : Storage]
<1>1. <<>> \in Words
  BY DEF Words
<1> QED
  BY <1>1 DEF NoBackup, Bit, Greens, Storage

LEMMA WordTypesInit == Init => WordTypes
<1> SUFFICES ASSUME Init PROVE WordTypes
  OBVIOUS
<1>1. Fields
  BY DEF Init, Fields
<1>2. green \in Greens /\ green_inv_sv \in Greens /\ UdVStorage \in Storage
  BY <1>1, BottomTypes DEF Init, Greens, Storage
<1>3. gmd = NoBackup
  BY DEF Init
<1> QED
  BY <1>2, <1>3, NoBackupType DEF WordTypes

LEMMA WrapTypes ==
  ASSUME Fields, k \in Slices, NEW word \in Words
  PROVE  WrappedDown(word) \in Words /\ WrappedUp(word) \in Words
<1>1. PICK x \in Factors, y \in Factors : x = B(k) /\ y = InverseOf(B(k))
  BY PlainFactors, PlainWords, InverseType
<1>2. LeftTimes(y, word) \in Words /\ RightTimes(word, y) \in Words
  BY TimesWords
<1>3. RightTimes(LeftTimes(y, word), x) \in Words /\ LeftTimes(x, RightTimes(word, y)) \in Words
  BY <1>2, TimesWords
<1> QED
  BY <1>1, <1>3 DEF WrappedDown, WrappedUp

LEMMA ReplacedType ==
  ASSUME NEW old \in Plain, NEW new \in Plain, NEW word \in Words
  PROVE  Replaced(word, old, new) \in Words
<1>1. InverseOf(old) \in Factors /\ new \in Factors
  BY InverseType, PlainWords
<1>2. LeftTimes(InverseOf(old), word) \in Words
  BY <1>1, TimesWords
<1> QED
  BY <1>1, <1>2, TimesWords DEF Replaced

LEMMA WordTypesNext ==
  ASSUME WordTypes, IndexInv, [Next]_vars
  PROVE  WordTypes'
<1> USE DEF WordTypes, samples, field, fermions, loop
<1>1. Fields
  BY DEF IndexInv, Terms
<1>2. CASE UNCHANGED vars
  BY <1>2 DEF vars
<1>3. ASSUME NEW take \in BOOLEAN, StartSweepDown(take) \/ StartSweepUp(take)
      PROVE  WordTypes'
  <2>1. <<>> \in Words /\ 0 \in 0..n
    BY Blocks DEF Words
  <2>2. \A c \in Components : [UdVStorage[c] EXCEPT ![0] = <<>>] \in [0..n -> Words]
    BY <2>1 DEF Storage
  <2>3. UdVStorage' = UdVStorage
        \/ UdVStorage' = [c \in Components |-> [UdVStorage[c] EXCEPT ![0] = <<>>]]
    BY <1>3 DEF StartSweepDown, StartSweepUp
  <2>4. UdVStorage' \in Storage
    <3>1. CASE UdVStorage' = UdVStorage
      BY <3>1
    <3>2. CASE UdVStorage' = [c \in Components |-> [UdVStorage[c] EXCEPT ![0] = <<>>]]
      BY <2>2, <3>2, Zenon DEF Storage
    <3> QED
      BY <2>3, <3>1, <3>2
  <2>5. UNCHANGED <<green, green_inv_sv, gmd>>
    BY <1>3 DEF StartSweepDown, StartSweepUp
  <2> QED
    BY <2>4, <2>5
<1>4. CASE AttemptMove
  BY <1>1, <1>4 DEF AttemptMove, StoreBackups, Fields
<1>5. CASE RecomputeGreen
  BY <1>1, <1>5, SetupTypes DEF RecomputeGreen
<1>6. CASE AcceptMove \/ BeginDown \/ FinishSweep \/ Halt
  BY <1>6 DEF AcceptMove, BeginDown, FinishSweep, Halt, vars
<1>7. CASE RejectMove
  BY <1>1, <1>7 DEF RejectMove, Fields
<1>8. ASSUME NEW accept \in BOOLEAN, UpdateInSliceDown(accept) \/ UpdateInSliceUp(accept)
      PROVE  WordTypes'
  <2>1. UNCHANGED <<green_inv_sv, UdVStorage, gmd>> /\ UpdateField(accept)
    BY <1>8 DEF UpdateInSliceDown, UpdateInSliceUp
  <2>2. k \in Slices
    BY <1>8, Blocks
       DEF UpdateInSliceDown, UpdateInSliceUp, IndexInv, IndexTypes, Indices, Slices
  <2>3. Factor(k, 1 - phi[k], 1 - phi[k]) \in Plain /\ B(k) \in Plain
    BY <1>1, <2>2, PlainFactors DEF Fields, Bit, Factor, Plain
  <2>4. \A c \in Components :
          Replaced(green[c], B(k), Factor(k, 1 - phi[k], 1 - phi[k])) \in Words
    BY <2>3, ReplacedType DEF Greens
  <2>5. green' \in Greens
    BY <2>1, <2>4 DEF UpdateField, Greens
  <2> QED
    BY <2>1, <2>5
<1>9. CASE WrapDownGreen \/ WrapUpGreen
  <2>1. k \in Slices /\ gc \in Components /\ UNCHANGED <<green_inv_sv, UdVStorage, gmd>>
    BY <1>9, Blocks
       DEF WrapDownGreen, WrapUpGreen, IndexInv, IndexTypes, Indices, Slices
  <2>2. green[gc] \in Words
    BY <2>1 DEF Greens
  <2>3. WrappedDown(green[gc]) \in Words /\ WrappedUp(green[gc]) \in Words
    BY <1>1, <2>1, <2>2, WrapTypes
  <2> QED
    BY <1>9, <2>1, <2>3 DEF WrapDownGreen, WrapUpGreen, Greens
<1>10. CASE AdvanceDownGreen
  <2>1. /\ gc \in Components /\ l \in 1..n /\ l \in 0..n /\ l - 1 \in 0..n
        /\ BlockTop(l) \in 0..m /\ BlockTop(l - 1) \in 0..BlockTop(l)
    <3>1. gc \in Components /\ l \in 1..n
      BY <1>10 DEF AdvanceDownGreen, IndexInv, IndexTypes, Indices
    <3>2. l \in 0..n /\ l - 1 \in 0..n /\ l - 1 < l
      BY <3>1, Blocks
    <3> QED
      BY <3>1, <3>2, Blocks
  <2> DEFINE above == IF l < n THEN UdVStorage[gc][l] ELSE <<>>
             UdV_L == rightMultiplyBmat(above, BlockTop(l), BlockTop(l - 1))
             all   == IF l - 1 > 0 THEN UdVStorage[gc][l - 1] \o UdV_L ELSE UdV_L
  <2>2. above \in Words /\ UdVStorage[gc][l - 1] \in Words
    <3>1. <<>> \in Words
      BY DEF Words
    <3>2. UdVStorage[gc][l] \in Words /\ UdVStorage[gc][l - 1] \in Words
      BY <2>1 DEF Storage
    <3> QED
      BY <3>1, <3>2
  <2>3. Bmat(BlockTop(l), BlockTop(l - 1)) \in Words
    BY <1>1, <2>1, BmatWords
  <2>4. UdV_L \in Words
    BY <2>2, <2>3 DEF rightMultiplyBmat, Words
  <2>5. all \in Words
    BY <2>2, <2>4 DEF Words
  <2>6. ComputeGreen(all) /\ Store(l - 1, UdV_L) /\ UNCHANGED gmd
    BY <1>10 DEF AdvanceDownGreen
  <2> HIDE DEF all, UdV_L, above
  <2> QED
    BY <2>1, <2>4, <2>5, <2>6 DEF ComputeGreen, Store, Greens, Storage
<1>11. CASE AdvanceUpGreen
  <2>1. /\ gc \in Components /\ l \in 0..n /\ l + 1 \in 0..n
        /\ BlockTop(l + 1) \in 0..m /\ BlockTop(l) \in 0..BlockTop(l + 1)
    <3>1. gc \in Components /\ l \in 0..(n - 1)
      BY <1>11 DEF AdvanceUpGreen, IndexInv, IndexTypes, Indices
    <3>2. l \in 0..n /\ l + 1 \in 0..n /\ l < l + 1
      BY <3>1, Blocks
    <3> QED
      BY <3>1, <3>2, Blocks
  <2> DEFINE UdV_temp == leftMultiplyBmat(UdVStorage[gc][l], BlockTop(l + 1), BlockTop(l))
             all == IF BlockTop(l + 1) # m THEN UdV_temp \o UdVStorage[gc][l + 1]
                                           ELSE UdV_temp
  <2>2. UdVStorage[gc][l] \in Words /\ UdVStorage[gc][l + 1] \in Words
    BY <2>1 DEF Storage
  <2>3. Bmat(BlockTop(l + 1), BlockTop(l)) \in Words
    BY <1>1, <2>1, BmatWords
  <2>4. UdV_temp \in Words
    BY <2>2, <2>3 DEF leftMultiplyBmat, Words
  <2>5. all \in Words
    BY <2>2, <2>4 DEF Words
  <2>6. ComputeGreen(all) /\ Store(l + 1, UdV_temp) /\ UNCHANGED gmd
    BY <1>11 DEF AdvanceUpGreen
  <2> HIDE DEF all, UdV_temp
  <2> QED
    BY <2>1, <2>4, <2>5, <2>6 DEF ComputeGreen, Store, Greens, Storage
<1>12. CASE Reload
  BY <1>1, <1>12, SetupTypes, NoBackupType DEF Reload
<1> QED
  BY <1>2, <1>3, <1>4, <1>5, <1>6, <1>7, <1>8, <1>9, <1>10, <1>11, <1>12 DEF Next

LEMMA WordTypesAlways == Spec => []WordTypes
BY WordTypesInit, WordTypesNext, IndexAlways, PTL DEF Spec

(* Type correctness; in particular no slice is sampled twice in a sweep.   *)
THEOREM ReplicaTypeCorrect == Spec => []TypeOK
<1>1. IndexInv /\ WordTypes => TypeOK
  BY DEF IndexInv, IndexTypes, Terms, Fields, WordTypes, TypeOK
<1> QED
  BY <1>1, IndexAlways, WordTypesAlways, PTL

-----------------------------------------------------------------------------
(* Which products the words are, wherever a sweep stands.  GreenSlice: the *)
(* slice whose Green's function a component holds.  Split: entries of the  *)
(* storage below it are products up from the bottom, those from it on are  *)
(* products down from the top.                                             *)

Coherent == pc \notin {"recompute", "aborted", "error"}

GreenSlice(c) ==
  IF pc = "wrap" THEN (IF Downwards <=> c < gc THEN k - 1 ELSE k)
  ELSE IF pc \in {"update", "advance"} THEN k
  ELSE IF pc = "finish" THEN (IF Downwards THEN 0 ELSE m)
  ELSE (IF Downwards THEN m ELSE 0)

Split(c) ==
  IF pc \in {"update", "wrap"} THEN (IF Downwards THEN l ELSE l + 1)
  ELSE IF pc = "advance"
    THEN (IF Downwards THEN (IF c < gc THEN l - 1 ELSE l) ELSE (IF c < gc THEN l + 2 ELSE l + 1))
  ELSE IF pc = "finish" THEN (IF Downwards THEN 0 ELSE n + 1)
  ELSE (IF Downwards THEN n + 1 ELSE 0)

GreenWords ==
  Coherent => \A c \in Components, j \in 0..m : j = GreenSlice(c) => green[c] = GreenAt(j)

StoredWords ==
  Coherent => \A c \in Components, b \in 0..n :
    /\ b < Split(c) => UdVStorage[c][b] = Bmat(BlockTop(b), 0)
    /\ Split(c) <= b /\ b < n => UdVStorage[c][b] = Bmat(m, BlockTop(b))

SingularValues ==
  /\ \/ pc \in {"idle", "globalMove", "decide"} /\ Downwards
     \/ pc = "finish" /\ ~Downwards
     => \A c \in Components : green_inv_sv[c] = GreenAt(m)
  /\ pc = "advance" /\ ~Downwards =>
       \A c \in Components, j \in 0..m : c < gc /\ j = k => green_inv_sv[c] = GreenAt(j)

BackupWords ==
  pc \in {"recompute", "decide"} => \A c \in Components :
    /\ gmd.green[c] = BackupProduct(n) /\ gmd.green_inv_sv[c] = BackupProduct(n)
    /\ \A b \in 0..n : gmd.UdVStorage[c][b] = BackupProduct(b)

WordInv == GreenWords /\ StoredWords /\ SingularValues /\ BackupWords

LEMMA SameField ==
  ASSUME UNCHANGED field
  PROVE  /\ \A a, b : Bmat(a, b)' = Bmat(a, b)
         /\ \A j : GreenAt(j)' = GreenAt(j)
BY DEF field, Bmat, B, Factor, GreenAt

LEMMA SameBackup ==
  ASSUME UNCHANGED gmd
  PROVE  \A b : BackupProduct(b)' = BackupProduct(b)
BY DEF BackupProduct, Factor

LEMMA GreenAtEnds ==
  ASSUME Fields
  PROVE  GreenAt(m) = Bmat(m, 0) /\ GreenAt(0) = Bmat(m, 0)
<1>1. m \in 0..m /\ 0 \in 0..m
  BY Blocks
<1>2. PICK word \in Seq(Plain) : word = Bmat(m, 0)
  BY <1>1, BmatEntries
<1>3. Bmat(m, m) = <<>> /\ Bmat(0, 0) = <<>>
  BY <1>1, BmatEmpty
<1>4. word \o <<>> = word /\ <<>> \o word = word
  BY ConcatEmptySeq
<1> QED
  BY <1>2, <1>3, <1>4 DEF GreenAt

LEMMA SetupWords ==
  ASSUME Fields, UNCHANGED field, SetupUdVStorage
  PROVE  \A c \in Components :
           /\ green'[c] = GreenAt(m) /\ green_inv_sv'[c] = GreenAt(m)
           /\ \A b \in 0..n : UdVStorage'[c][b] = Bmat(BlockTop(b), 0)
<1>1. BottomProducts[n] = GreenAt(m)
  BY Blocks, GreenAtEnds DEF BottomProducts
<1> QED
  BY <1>1 DEF SetupUdVStorage, BottomProducts

LEMMA BackupTaken ==
  ASSUME gmd'.phi = phi, gmd'.coshTermPhi = coshTermPhi, NEW b \in 0..n
  PROVE  BackupProduct(b)' = Bmat(BlockTop(b), 0)
<1>1. BlockTop(b) - 0 = BlockTop(b)
  BY Blocks
<1> QED
  BY <1>1 DEF BackupProduct, Bmat, B

LEMMA BackupRestored ==
  ASSUME phi' = gmd.phi, coshTermPhi' = gmd.coshTermPhi, NEW b \in 0..n
  PROVE  Bmat(BlockTop(b), 0)' = BackupProduct(b)
<1>1. BlockTop(b) - 0 = BlockTop(b)
  BY Blocks
<1> QED
  BY <1>1 DEF BackupProduct, Bmat, B

(* Both ends in the next state *)
LEMMA GreenAtEndsNext ==
  ASSUME Fields'
  PROVE  GreenAt(m)' = Bmat(m, 0)' /\ GreenAt(0)' = Bmat(m, 0)'
<1>1. (Fields => GreenAt(m) = Bmat(m, 0) /\ GreenAt(0) = Bmat(m, 0))'
  BY PTL, GreenAtEnds
<1> QED
  BY <1>1

LEMMA WordInit == Init => WordInv
<1> SUFFICES ASSUME Init PROVE WordInv
  OBVIOUS
<1>1. Fields /\ pc = "idle" /\ Downwards /\ n \in 0..n /\ n \in Nat
  BY Blocks DEF Init, Fields, Downwards
<1>2. \A b \in 0..n : BottomProducts[b] = Bmat(BlockTop(b), 0)
  BY DEF BottomProducts
<1>3. BottomProducts[n] = GreenAt(m)
  BY <1>1, <1>2, Blocks, GreenAtEnds
<1>4. \A c \in Components : green[c] = GreenAt(m) /\ green_inv_sv[c] = GreenAt(m)
  BY <1>3 DEF Init
<1>5. \A c \in Components, b \in 0..n : UdVStorage[c][b] = Bmat(BlockTop(b), 0)
  BY <1>2 DEF Init
<1>6. GreenWords
  BY <1>1, <1>4 DEF GreenWords, GreenSlice
<1>7. StoredWords
  BY <1>1, <1>5 DEF StoredWords, Split
<1>8. SingularValues /\ BackupWords
  BY <1>1, <1>4 DEF SingularValues, BackupWords
<1> QED
  BY <1>6, <1>7, <1>8 DEF WordInv

LEMMA WordStart ==
  ASSUME IndexInv, WordTypes, WordInv, NEW take \in BOOLEAN,
         StartSweepDown(take) \/ StartSweepUp(take)
  PROVE  WordInv'
<1>1. /\ pc = "idle" /\ UNCHANGED <<phi, coshTermPhi, green, green_inv_sv, lastSweepDir>>
      /\ pc' = (IF Downwards THEN "globalMove" ELSE "wrap")
      /\ (Downwards' <=> Downwards) /\ Coherent /\ Fields
  BY DEF StartSweepDown, StartSweepUp, field, fermions, Downwards, Coherent, IndexInv, Terms
<1>2. /\ \A a, b : Bmat(a, b)' = Bmat(a, b)
      /\ \A j : GreenAt(j)' = GreenAt(j)
  BY <1>1, SameField DEF field
<1>3. SingularValues' /\ BackupWords'
  BY <1>1, <1>2 DEF WordInv, SingularValues, BackupWords
<1>4. CASE Downwards
  <2>1. UNCHANGED UdVStorage
    BY <1>1, <1>4 DEF StartSweepDown, StartSweepUp, fermions, Downwards
  <2>2. GreenWords'
    BY <1>1, <1>2, <1>4 DEF WordInv, GreenWords, GreenSlice, Coherent
  <2>3. StoredWords'
    BY <1>1, <1>2, <1>4, <2>1 DEF WordInv, StoredWords, Split, Coherent
  <2> QED
    BY <1>3, <2>2, <2>3 DEF WordInv
<1>5. CASE ~Downwards
  <2>1. /\ UdVStorage' = [c \in Components |-> [UdVStorage[c] EXCEPT ![0] = <<>>]]
        /\ k' = 1 /\ l' = 0 /\ gc' = 0
    BY <1>1, <1>5 DEF StartSweepDown, StartSweepUp, Downwards
  <2>2. GreenWords'
    <3>1. \A c \in Components : GreenSlice(c)' = 0 /\ GreenSlice(c) = 0
      BY <1>1, <1>5, <2>1, ParametersAssumption DEF GreenSlice, Components
    <3> QED
      BY <1>1, <1>2, <3>1 DEF WordInv, GreenWords
  <2>3. StoredWords'
    <3>1. \A c \in Components : Split(c)' = 1 /\ Split(c) = 0
      BY <1>1, <1>5, <2>1 DEF Split
    <3>2. Bmat(BlockTop(0), 0) = <<>>
      BY <1>1, Blocks, BmatEmpty
    <3>3. \A c \in Components : UdVStorage[c] \in [0..n -> Words]
      BY DEF WordTypes, Storage
    <3>4. \A c \in Components, b \in 0..n :
            UdVStorage'[c][b] = IF b = 0 THEN <<>> ELSE UdVStorage[c][b]
      BY <2>1, <3>3
    <3>5. \A c \in Components, b \in 0..n :
            /\ b < 1 => UdVStorage'[c][b] = Bmat(BlockTop(b), 0)
            /\ 1 <= b /\ b < n => UdVStorage'[c][b] = Bmat(m, BlockTop(b))
      <4> TAKE c \in Components, b \in 0..n
      <4>1. b < 1 => b = 0
        BY Blocks
      <4>2. 1 <= b => b # 0 /\ 0 <= b
        BY Blocks
      <4>3. 1 <= b /\ b < n => UdVStorage[c][b] = Bmat(m, BlockTop(b))
        BY <1>1, <3>1, <4>2 DEF WordInv, StoredWords
      <4> QED
        BY <3>2, <3>4, <4>1, <4>2, <4>3
    <3> QED
      BY <1>2, <3>1, <3>5 DEF StoredWords
  <2> QED
    BY <1>3, <2>2, <2>3 DEF WordInv
<1> QED
  BY <1>4, <1>5

LEMMA WordAttempt ==
  ASSUME IndexInv, WordTypes, WordInv, AttemptMove
  PROVE  WordInv'
<1>1. /\ pc = "globalMove" /\ Downwards /\ Fields /\ Coherent
      /\ pc' = "recompute" \/ pc' = "aborted"
  BY GotoLeads DEF AttemptMove, IndexInv, Indices, MayMove, Terms, Coherent
<1>2. /\ gmd'.phi = phi /\ gmd'.coshTermPhi = coshTermPhi
      /\ gmd'.green = green /\ gmd'.green_inv_sv = green_inv_sv
      /\ gmd'.UdVStorage = UdVStorage
  BY DEF AttemptMove, StoreBackups
<1>3. \A b \in 0..n : BackupProduct(b)' = Bmat(BlockTop(b), 0)
  BY <1>2, BackupTaken
<1>4. n \in 0..n /\ m \in 0..m /\ BlockTop(n) = m /\ n \in Nat
  BY Blocks
<1>5. \A c \in Components : green[c] = Bmat(m, 0) /\ green_inv_sv[c] = Bmat(m, 0)
  BY <1>1, <1>4, GreenAtEnds DEF WordInv, GreenWords, SingularValues, GreenSlice
<1>6. \A c \in Components, b \in 0..n : UdVStorage[c][b] = Bmat(BlockTop(b), 0)
  BY <1>1, <1>4 DEF WordInv, StoredWords, Split
<1>7. BackupWords'
  BY <1>2, <1>3, <1>4, <1>5, <1>6 DEF BackupWords
<1>8. GreenWords' /\ StoredWords' /\ SingularValues'
  BY <1>1 DEF GreenWords, StoredWords, SingularValues, Coherent
<1> QED
  BY <1>7, <1>8 DEF WordInv

LEMMA WordRecompute ==
  ASSUME IndexInv, WordTypes, WordInv, RecomputeGreen
  PROVE  WordInv'
<1>1. /\ pc = "recompute" /\ pc' = "decide" /\ Fields /\ UNCHANGED <<field, gmd>>
      /\ SetupUdVStorage /\ Downwards'
  BY DEF RecomputeGreen, SetupUdVStorage, IndexInv, Terms, Downwards
<1>2. /\ \A a, b : Bmat(a, b)' = Bmat(a, b)
      /\ \A j : GreenAt(j)' = GreenAt(j)
      /\ \A b : BackupProduct(b)' = BackupProduct(b)
  BY <1>1, SameField, SameBackup
<1>3. \A c \in Components :
        /\ green'[c] = GreenAt(m) /\ green_inv_sv'[c] = GreenAt(m)
        /\ \A b \in 0..n : UdVStorage'[c][b] = Bmat(BlockTop(b), 0)
  BY <1>1, SetupWords
<1>4. GreenWords'
  BY <1>1, <1>2, <1>3 DEF GreenWords, GreenSlice
<1>5. StoredWords'
  BY <1>1, <1>2, <1>3, Blocks DEF StoredWords, Split
<1>6. SingularValues' /\ BackupWords'
  BY <1>1, <1>2, <1>3 DEF WordInv, SingularValues, BackupWords
<1> QED
  BY <1>4, <1>5, <1>6 DEF WordInv

LEMMA WordAccept ==
  ASSUME IndexInv, WordTypes, WordInv, AcceptMove \/ BeginDown
  PROVE  WordInv'
<1>1. /\ pc \in {"decide", "globalMove"} /\ pc' \in {"globalMove", "update"}
      /\ UNCHANGED <<field, k, l, gc, green, green_inv_sv, UdVStorage, lastSweepDir, gmd>>
      /\ Downwards /\ Downwards' /\ Coherent
      /\ k = m /\ l = n
  BY DEF AcceptMove, BeginDown, fermions, IndexInv, Indices, MayMove, Downwards, Coherent
<1>2. /\ \A a, b : Bmat(a, b)' = Bmat(a, b)
      /\ \A j : GreenAt(j)' = GreenAt(j)
  BY <1>1, SameField
<1>3. GreenWords'
  BY <1>1, <1>2 DEF WordInv, GreenWords, GreenSlice
<1>4. StoredWords'
  BY <1>1, <1>2, Blocks DEF WordInv, StoredWords, Split
<1>5. SingularValues' /\ BackupWords'
  BY <1>1, <1>2 DEF WordInv, SingularValues, BackupWords
<1> QED
  BY <1>3, <1>4, <1>5 DEF WordInv

LEMMA WordReject ==
  ASSUME IndexInv, WordTypes, WordInv, RejectMove
  PROVE  WordInv'
<1>1. /\ pc = "decide" /\ pc' = "globalMove" /\ Downwards' /\ UNCHANGED lastSweepDir
      /\ phi' = gmd.phi /\ coshTermPhi' = gmd.coshTermPhi /\ green' = gmd.green
      /\ green_inv_sv' = gmd.green_inv_sv /\ UdVStorage' = gmd.UdVStorage
      /\ Fields'
  BY DEF RejectMove, IndexInv, Indices, MayMove, Downwards, Terms, Fields
<1>2. \A b \in 0..n : Bmat(BlockTop(b), 0)' = BackupProduct(b)
  BY <1>1, BackupRestored
<1>3. n \in 0..n /\ n \in Nat /\ BlockTop(n) = m
  BY Blocks
<1>4. GreenAt(m)' = BackupProduct(n)
  BY <1>1, <1>2, <1>3, GreenAtEndsNext
<1>5. GreenWords'
  BY <1>1, <1>4 DEF WordInv, BackupWords, GreenWords, GreenSlice
<1>6. StoredWords'
  BY <1>1, <1>2, <1>3 DEF WordInv, BackupWords, StoredWords, Split
<1>7. SingularValues' /\ BackupWords'
  BY <1>1, <1>4 DEF WordInv, SingularValues, BackupWords
<1> QED
  BY <1>5, <1>6, <1>7 DEF WordInv

LEMMA WordUpdate ==
  ASSUME IndexInv, WordTypes, WordInv, NEW accept \in BOOLEAN,
         UpdateInSliceDown(accept) \/ UpdateInSliceUp(accept)
  PROVE  WordInv'
<1>1. /\ pc = "update" /\ gc = 0 /\ gc' = 0 /\ UpdateField(accept) /\ Fields /\ Coherent
      /\ UNCHANGED <<l, green_inv_sv, UdVStorage, lastSweepDir, gmd>>
      /\ (Downwards' <=> Downwards)
  BY DEF UpdateInSliceDown, UpdateInSliceUp, IndexInv, Indices, Terms, Coherent, Downwards
<1>2. PICK j \in Slices : j = k
  BY <1>1, Blocks DEF IndexInv, IndexTypes, Indices, Slices
<1>3. j \in 0..m /\ j \in 1..m
  BY <1>2, Blocks DEF Slices
<1>4. \A c \in Components : green[c] = GreenAt(j)
  BY <1>1, <1>2, <1>3 DEF WordInv, GreenWords, GreenSlice
<1>5. \A i \in Slices : i # j => B(i)' = B(i)
  BY <1>1, <1>2, Updating DEF UpdateField, B, Factor
<1>6. \A c \in Components : green'[c] = GreenAt(j)'
  <2>1. CASE accept
    <3>1. Replaced(GreenAt(j), B(j), Factor(j, 1 - phi[j], 1 - phi[j])) = GreenAt(j)'
      BY <1>1, <1>2, <2>1, Updating DEF UpdateField
    <3> QED
      BY <1>1, <1>2, <1>4, <2>1, <3>1 DEF UpdateField
  <2>2. CASE ~accept
    BY <1>1, <1>4, <2>2, SameField DEF UpdateField, field
  <2> QED
    BY <2>1, <2>2
<1>7. \A b \in 0..n : BlockTop(b) < j => Bmat(BlockTop(b), 0)' = Bmat(BlockTop(b), 0)
  <2> SUFFICES ASSUME NEW b \in 0..n, BlockTop(b) < j
               PROVE  Bmat(BlockTop(b), 0)' = Bmat(BlockTop(b), 0)
    OBVIOUS
  <2>1. BlockTop(b) \in 0..m /\ 0 \in 0..BlockTop(b)
    BY Blocks
  <2>2. \A i \in (0 + 1)..BlockTop(b) : B(i)' = B(i)
    BY <1>3, <1>5, <2>1, Blocks DEF Slices
  <2> QED
    BY <2>1, <2>2, BmatFrame
<1>8. \A b \in 0..n : j <= BlockTop(b) => Bmat(m, BlockTop(b))' = Bmat(m, BlockTop(b))
  <2> SUFFICES ASSUME NEW b \in 0..n, j <= BlockTop(b)
               PROVE  Bmat(m, BlockTop(b))' = Bmat(m, BlockTop(b))
    OBVIOUS
  <2>1. BlockTop(b) \in 0..m /\ m \in 0..m
    BY Blocks
  <2>2. \A i \in (BlockTop(b) + 1)..m : B(i)' = B(i)
    BY <1>3, <1>5, <2>1, Blocks DEF Slices
  <2> QED
    BY <2>1, <2>2, BmatFrame
<1>9. (SingularValues' /\ BackupWords') \/ (pc' = "advance" /\ ~Downwards')
  BY GotoLeads, <1>1 DEF UpdateInSliceDown, UpdateInSliceUp, SingularValues, BackupWords
<1>10. SingularValues' /\ BackupWords'
  <2>1. \A c \in Components : ~(c < 0)
    BY ParametersAssumption DEF Components
  <2> QED
    BY <1>1, <1>9, <2>1 DEF SingularValues, BackupWords
<1>11. \A b \in 0..n : /\ BlockTop(b) \in 0..m
                       /\ \A a \in 0..n : a < b => BlockTop(a) < BlockTop(b)
  BY Blocks
<1>12. CASE UpdateInSliceDown(accept)
  <2>1. /\ pc' = "wrap" \/ pc' = "aborted"
        /\ k' = k /\ Downwards
        /\ l \in 1..n /\ BlockTop(l - 1) < k /\ k <= BlockTop(l)
        /\ l \in 0..n /\ l - 1 \in 0..n /\ n \in Nat
    BY <1>1, <1>12, GotoLeads, Blocks DEF UpdateInSliceDown, IndexInv, Indices
  <2>2. GreenWords'
    <3>1. \A c \in Components : ~(c < 0)
      BY ParametersAssumption DEF Components
    <3> QED
      BY <1>1, <1>2, <1>6, <2>1, <3>1 DEF GreenWords, GreenSlice, Coherent
  <2>3. \A b \in 0..n : /\ b < l => BlockTop(b) < j
                        /\ l <= b => j <= BlockTop(b)
    <3> TAKE b \in 0..n
    <3>1. b < l => b = l - 1 \/ b < l - 1
      BY <2>1
    <3>2. l <= b => b = l \/ l < b
      BY <2>1
    <3> QED
      BY <1>2, <1>3, <1>11, <2>1, <3>1, <3>2
  <2>4. StoredWords'
    BY <1>1, <1>7, <1>8, <2>1, <2>3 DEF WordInv, StoredWords, Split, Coherent
  <2> QED
    BY <1>10, <2>2, <2>4 DEF WordInv
<1>13. CASE UpdateInSliceUp(accept)
  <2>1. /\ (pc' = "wrap" /\ k' = k + 1) \/ (pc' = "advance" /\ k' = k) \/ pc' = "aborted"
        /\ ~Downwards
        /\ l \in 0..(n - 1) /\ BlockTop(l) < k /\ k <= BlockTop(l + 1)
        /\ l \in 0..n /\ l + 1 \in 0..n /\ n \in Nat
    <3>1. (pc' = "wrap" /\ k' = k + 1) \/ (pc' = "advance" /\ k' = k) \/ pc' = "aborted"
      BY <1>13 DEF UpdateInSliceUp, Goto
    <3>2. /\ ~Downwards
          /\ l \in 0..(n - 1) /\ BlockTop(l) < k /\ k <= BlockTop(l + 1)
      BY <1>1, <1>13 DEF UpdateInSliceUp, IndexInv, Indices
    <3> QED
      BY <3>1, <3>2, Blocks
  <2>2. GreenWords'
    <3>1. \A c \in Components : ~(c < 0)
      BY ParametersAssumption DEF Components
    <3>2. ASSUME Coherent', NEW c \in Components PROVE GreenSlice(c)' = j
      <4>1. ~Downwards' /\ ~(c < gc')
        BY <1>1, <2>1, <3>1
      <4>2. CASE pc' = "wrap" /\ k' = k + 1
        <5>1. k' = j + 1 /\ j \in Int
          BY <1>2, <1>3, <4>2
        <5>2. GreenSlice(c)' = k' - 1
          BY <4>1, <4>2 DEF GreenSlice
        <5>3. j + 1 - 1 = j
          BY <5>1
        <5> QED
          BY <5>1, <5>2, <5>3
      <4>3. CASE pc' = "advance" /\ k' = k
        BY <1>2, <4>3 DEF GreenSlice
      <4> QED
        BY <2>1, <3>2, <4>2, <4>3 DEF Coherent
    <3> QED
      BY <1>6, <3>2 DEF GreenWords
  <2>3. \A b \in 0..n : /\ b < l + 1 => BlockTop(b) < j
                        /\ l + 1 <= b => j <= BlockTop(b)
    <3> TAKE b \in 0..n
    <3>1. b < l + 1 => b = l \/ b < l
      BY <2>1
    <3>2. l + 1 <= b => b = l + 1 \/ l + 1 < b
      BY <2>1
    <3> QED
      BY <1>2, <1>3, <1>11, <2>1, <3>1, <3>2
  <2>4. StoredWords'
    <3>1. \A c \in Components : ~(c < 0)
      BY ParametersAssumption DEF Components
    <3> QED
      BY <1>1, <1>7, <1>8, <2>1, <2>3, <3>1 DEF WordInv, StoredWords, Split, Coherent
  <2> QED
    BY <1>10, <2>2, <2>4 DEF WordInv
<1> QED
  BY <1>12, <1>13

LEMMA WordWrap ==
  ASSUME IndexInv, WordTypes, WordInv, WrapDownGreen \/ WrapUpGreen
  PROVE  WordInv'
<1>1. /\ pc = "wrap" /\ Fields /\ Coherent
      /\ UNCHANGED <<field, l, green_inv_sv, UdVStorage, lastSweepDir, gmd>>
      /\ (Downwards' <=> Downwards)
      /\ pc' \in {"wrap", "advance", "update", "aborted"}
  BY GotoLeads DEF WrapDownGreen, WrapUpGreen, IndexInv, Terms, Coherent, Downwards
<1>2. /\ \A a, b : Bmat(a, b)' = Bmat(a, b)
      /\ \A j : GreenAt(j)' = GreenAt(j)
  BY <1>1, SameField
<1>3. /\ k \in Slices /\ k \in 0..m /\ k - 1 \in 0..m /\ l \in 0..n /\ n \in Nat
      /\ gc \in Components /\ gc \in Nat
  BY <1>1, Blocks, ParametersAssumption
     DEF IndexInv, IndexTypes, Indices, Slices, Components
<1>4. \A c \in Components : c \in Nat /\ ~(c < 0) /\ (~NextComponent /\ c # gc => c < gc)
  BY <1>3, ParametersAssumption DEF Components, NextComponent
<1>5. green \in [Components -> Words]
  BY DEF WordTypes, Greens
<1>6. BackupWords'
  BY <1>1 DEF BackupWords
<1>7. CASE WrapDownGreen
  <2>1. /\ Downwards /\ l \in 1..n /\ BlockTop(l - 1) < k
        /\ green' = [green EXCEPT ![gc] = WrappedDown(green[gc])]
    BY <1>1, <1>7 DEF WrapDownGreen, IndexInv, Indices
  <2>2. green[gc] = GreenAt(k)
    <3>1. GreenSlice(gc) = k
      BY <1>1, <1>3, <2>1 DEF GreenSlice
    <3> QED
      BY <1>1, <1>3, <3>1 DEF WordInv, GreenWords
  <2>3. \A c \in Components :
          green'[c] = IF c = gc THEN GreenAt(k - 1) ELSE green[c]
    BY <1>1, <1>3, <1>5, <2>1, <2>2, Wrapping
  <2>4. \A c \in Components :
          green'[c] = IF c < gc \/ c = gc THEN GreenAt(k - 1) ELSE GreenAt(k)
    <3> TAKE c \in Components
    <3>1. GreenSlice(c) = IF c < gc THEN k - 1 ELSE k
      BY <1>1, <2>1 DEF GreenSlice
    <3>2. green[c] = IF c < gc THEN GreenAt(k - 1) ELSE GreenAt(k)
      BY <1>1, <1>3, <3>1 DEF WordInv, GreenWords
    <3> QED
      BY <2>3, <3>2
  <2>5. GreenWords'
    <3>1. CASE NextComponent
      <4>1. (pc' = "wrap" \/ pc' = "aborted") /\ k' = k /\ gc' = gc + 1
        BY <1>7, <3>1, GotoLeads DEF WrapDownGreen
      <4>2. \A c \in Components : c < gc + 1 <=> c < gc \/ c = gc
        BY <1>3, <1>4
      <4>3. Coherent' => \A c \in Components :
              GreenSlice(c)' = IF c < gc \/ c = gc THEN k - 1 ELSE k
        BY <1>1, <2>1, <4>1, <4>2 DEF GreenSlice, Coherent
      <4> QED
        BY <1>2, <2>4, <4>3 DEF GreenWords
    <3>2. CASE ~NextComponent
      <4>1. /\ pc' = "update" \/ pc' = "advance" \/ pc' = "aborted"
            /\ k' = k - 1
        BY <1>7, <3>2, GotoLeads DEF WrapDownGreen
      <4>2. Coherent' => \A c \in Components : GreenSlice(c)' = k - 1
        BY <4>1 DEF GreenSlice, Coherent
      <4>3. \A c \in Components : green'[c] = GreenAt(k - 1)
        BY <1>4, <2>4, <3>2
      <4> QED
        BY <1>2, <4>2, <4>3 DEF GreenWords
    <3> QED
      BY <3>1, <3>2
  <2>6. StoredWords'
    <3>1. pc' = "advance" => gc' = 0
      BY <1>7 DEF WrapDownGreen, Goto
    <3>2. Coherent' => \A c \in Components : Split(c)' = l /\ Split(c) = l
      BY <1>1, <1>4, <2>1, <3>1 DEF Split, Coherent
    <3> QED
      BY <1>1, <1>2, <3>2 DEF WordInv, StoredWords
  <2>7. SingularValues'
    BY <1>1, <2>1 DEF SingularValues
  <2> QED
    BY <1>6, <2>5, <2>6, <2>7 DEF WordInv
<1>8. CASE WrapUpGreen
  <2>1. /\ ~Downwards /\ l \in 0..(n - 1) /\ k' = k
        /\ green' = [green EXCEPT ![gc] = WrappedUp(green[gc])]
        /\ pc' = "aborted" \/ IF NextComponent THEN pc' = "wrap" ELSE pc' = "update"
        /\ gc' = IF NextComponent THEN gc + 1 ELSE 0
    BY <1>1, <1>8, GotoLeads DEF WrapUpGreen, IndexInv, Indices
  <2>2. green[gc] = GreenAt(k - 1)
    <3>1. GreenSlice(gc) = k - 1
      BY <1>1, <1>3, <2>1 DEF GreenSlice
    <3> QED
      BY <1>1, <1>3, <3>1 DEF WordInv, GreenWords
  <2>3. \A c \in Components :
          green'[c] = IF c = gc THEN GreenAt(k) ELSE green[c]
    BY <1>1, <1>3, <1>5, <2>1, <2>2, Wrapping
  <2>4. \A c \in Components :
          green'[c] = IF c < gc \/ c = gc THEN GreenAt(k) ELSE GreenAt(k - 1)
    <3> TAKE c \in Components
    <3>1. GreenSlice(c) = IF c < gc THEN k ELSE k - 1
      BY <1>1, <2>1 DEF GreenSlice
    <3>2. green[c] = IF c < gc THEN GreenAt(k) ELSE GreenAt(k - 1)
      BY <1>1, <1>3, <3>1 DEF WordInv, GreenWords
    <3> QED
      BY <2>3, <3>2
  <2>5. GreenWords'
    <3>1. CASE NextComponent
      <4>1. \A c \in Components : c < gc + 1 <=> c < gc \/ c = gc
        BY <1>3, <1>4
      <4>2. Coherent' => \A c \in Components :
              GreenSlice(c)' = IF c < gc \/ c = gc THEN k ELSE k - 1
        BY <1>1, <2>1, <3>1, <4>1 DEF GreenSlice, Coherent
      <4> QED
        BY <1>2, <2>4, <4>2 DEF GreenWords
    <3>2. CASE ~NextComponent
      <4>1. Coherent' => \A c \in Components : GreenSlice(c)' = k
        BY <2>1, <3>2 DEF GreenSlice, Coherent
      <4>2. \A c \in Components : green'[c] = GreenAt(k)
        BY <1>4, <2>4, <3>2
      <4> QED
        BY <1>2, <4>1, <4>2 DEF GreenWords
    <3> QED
      BY <3>1, <3>2
  <2>6. StoredWords'
    <3>1. Coherent' => \A c \in Components : Split(c)' = l + 1 /\ Split(c) = l + 1
      BY <1>1, <2>1 DEF Split, Coherent
    <3> QED
      BY <1>1, <1>2, <3>1 DEF WordInv, StoredWords
  <2>7. SingularValues'
    BY <1>1, <2>1 DEF SingularValues
  <2> QED
    BY <1>6, <2>5, <2>6, <2>7 DEF WordInv
<1> QED
  BY <1>7, <1>8

LEMMA WordAdvanceDown ==
  ASSUME IndexInv, WordTypes, WordInv, AdvanceDownGreen
  PROVE  WordInv'
<1>1. /\ pc = "advance" /\ Fields /\ Coherent /\ Downwards /\ Downwards'
      /\ UNCHANGED <<field, k, lastSweepDir, gmd>>
      /\ l \in 1..n /\ k = BlockTop(l - 1)
      /\ gc \in Components
  BY DEF AdvanceDownGreen, IndexInv, IndexTypes, Indices, Terms, Coherent, Downwards
<1>2. /\ \A a, b : Bmat(a, b)' = Bmat(a, b)
      /\ \A j : GreenAt(j)' = GreenAt(j)
  BY <1>1, SameField
<1>3. /\ l \in 0..n /\ l - 1 \in 0..n /\ l - 1 < l /\ n \in Nat /\ m \in 0..m
      /\ BlockTop(l) \in 0..m /\ BlockTop(l - 1) \in 0..m /\ BlockTop(l - 1) \in 0..BlockTop(l)
      /\ BlockTop(0) = 0 /\ BlockTop(n) = m
  <2>1. l \in 0..n /\ l - 1 \in 0..n /\ l - 1 < l
    BY <1>1, Blocks
  <2> QED
    BY <2>1, Blocks
<1>4. \A c \in Components : /\ (~NextComponent => c < gc \/ c = gc) /\ ~(gc < gc)
                            /\ c < gc + 1 <=> c < gc \/ c = gc
  BY <1>1, ParametersAssumption DEF Components, NextComponent
<1> DEFINE above == IF l < n THEN UdVStorage[gc][l] ELSE <<>>
           UdV_L == rightMultiplyBmat(above, BlockTop(l), BlockTop(l - 1))
           all   == IF l - 1 > 0 THEN UdVStorage[gc][l - 1] \o UdV_L ELSE UdV_L
<1>5. Split(gc) = l
  BY <1>1, <1>4 DEF Split
<1>6. above = Bmat(m, BlockTop(l))
  <2>1. CASE l < n
    BY <1>1, <1>3, <1>5, <2>1 DEF WordInv, StoredWords
  <2>2. CASE ~(l < n)
    <3>1. l = n
      BY <1>1, <1>3, <2>2
    <3> QED
      BY <1>1, <1>3, <2>2, <3>1, BmatEmpty
  <2> QED
    BY <2>1, <2>2
<1>7. UdV_L = Bmat(m, BlockTop(l - 1))
  BY <1>1, <1>3, <1>6, BmatJoin DEF rightMultiplyBmat
<1> HIDE DEF above, UdV_L
<1>8. all = GreenAt(k)
  <2>1. CASE l - 1 > 0
    <3>1. UdVStorage[gc][l - 1] = Bmat(BlockTop(l - 1), 0)
      BY <1>1, <1>3, <1>5 DEF WordInv, StoredWords
    <3> QED
      BY <1>1, <1>7, <2>1, <3>1 DEF GreenAt
  <2>2. CASE ~(l - 1 > 0)
    <3>1. l - 1 = 0
      BY <1>1, <1>3, <2>2
    <3> QED
      BY <1>1, <1>3, <1>7, <2>2, <3>1, GreenAtEnds
  <2> QED
    BY <2>1, <2>2
<1>9. ComputeGreen(all) /\ Store(l - 1, UdV_L)
  BY DEF AdvanceDownGreen, above, UdV_L
<1> HIDE DEF all
<1>10. k \in 0..m /\ \A c \in Components : green[c] = GreenAt(k)
  BY <1>1, <1>3 DEF WordInv, GreenWords, GreenSlice
<1>11. \A c \in Components : green'[c] = GreenAt(k)
  BY <1>1, <1>8, <1>9, <1>10 DEF ComputeGreen, WordTypes, Greens
<1>12. \A c \in Components, b \in 0..n :
         UdVStorage'[c][b] = IF c = gc /\ b = l - 1 THEN Bmat(m, BlockTop(l - 1))
                                                    ELSE UdVStorage[c][b]
  BY <1>1, <1>3, <1>7, <1>9 DEF Store, WordTypes, Storage
<1>13. \/ pc' = "aborted"
       \/ NextComponent /\ pc' = "advance" /\ gc' = gc + 1 /\ l' = l
       \/ ~NextComponent /\ pc' = "update" /\ gc' = 0 /\ l' = l - 1
       \/ ~NextComponent /\ pc' = "finish" /\ gc' = 0 /\ l = 1
  BY <1>1, <1>3 DEF AdvanceDownGreen, Goto
<1>14. GreenWords'
  <2>1. Coherent' => \A c \in Components : GreenSlice(c)' = k
    BY <1>1, <1>3, <1>13 DEF GreenSlice, Coherent
  <2> QED
    BY <1>2, <1>11, <2>1 DEF GreenWords
<1>15. StoredWords'
  <2>1. \A c \in Components, b \in 0..n :
          LET split == IF c < gc \/ c = gc THEN l - 1 ELSE l
          IN  /\ b < split => UdVStorage'[c][b] = Bmat(BlockTop(b), 0)
              /\ split <= b /\ b < n => UdVStorage'[c][b] = Bmat(m, BlockTop(b))
    <3> TAKE c \in Components, b \in 0..n
    <3>1. Split(c) = IF c < gc THEN l - 1 ELSE l
      BY <1>1 DEF Split
    <3>2. /\ b < Split(c) => UdVStorage[c][b] = Bmat(BlockTop(b), 0)
          /\ Split(c) <= b /\ b < n => UdVStorage[c][b] = Bmat(m, BlockTop(b))
      BY <1>1 DEF WordInv, StoredWords
    <3>3. /\ b < l - 1 => b < l /\ b # l - 1
          /\ l - 1 <= b => b = l - 1 \/ l <= b
      BY <1>3
    <3> QED
      BY <1>12, <3>1, <3>2, <3>3
  <2>2. Coherent' => \A c \in Components :
          Split(c)' = IF c < gc \/ c = gc THEN l - 1 ELSE l
    BY <1>1, <1>4, <1>13 DEF Split, Coherent
  <2> QED
    BY <1>2, <2>1, <2>2 DEF StoredWords
<1>16. SingularValues' /\ BackupWords'
  BY <1>1, <1>13 DEF SingularValues, BackupWords
<1> QED
  BY <1>14, <1>15, <1>16 DEF WordInv

LEMMA WordAdvanceUp ==
  ASSUME IndexInv, WordTypes, WordInv, AdvanceUpGreen
  PROVE  WordInv'
<1>1. /\ pc = "advance" /\ Fields /\ Coherent /\ ~Downwards /\ ~Downwards'
      /\ UNCHANGED <<field, lastSweepDir, gmd>>
      /\ l \in 0..(n - 1) /\ k = BlockTop(l + 1)
      /\ gc \in Components
  BY DEF AdvanceUpGreen, IndexInv, IndexTypes, Indices, Terms, Coherent, Downwards
<1>2. /\ \A a, b : Bmat(a, b)' = Bmat(a, b)
      /\ \A j : GreenAt(j)' = GreenAt(j)
  BY <1>1, SameField
<1>3. /\ l \in 0..n /\ l + 1 \in 0..n /\ l < l + 1 /\ n \in Nat /\ m \in 0..m
      /\ BlockTop(l) \in 0..m /\ BlockTop(l + 1) \in 0..m /\ BlockTop(l) \in 0..BlockTop(l + 1)
      /\ 0 \in 0..BlockTop(l) /\ BlockTop(n) = m
  <2>1. l \in 0..n /\ l + 1 \in 0..n /\ l < l + 1
    BY <1>1, Blocks
  <2> QED
    BY <2>1, Blocks
<1>4. \A c \in Components : /\ (~NextComponent => c < gc \/ c = gc) /\ ~(gc < gc)
                            /\ c < gc + 1 <=> c < gc \/ c = gc
  BY <1>1, ParametersAssumption DEF Components, NextComponent
<1> DEFINE UdV_temp == leftMultiplyBmat(UdVStorage[gc][l], BlockTop(l + 1), BlockTop(l))
           all == IF BlockTop(l + 1) # m THEN UdV_temp \o UdVStorage[gc][l + 1] ELSE UdV_temp
<1>5. Split(gc) = l + 1
  BY <1>1, <1>4 DEF Split
<1>6. UdVStorage[gc][l] = Bmat(BlockTop(l), 0)
  BY <1>1, <1>3, <1>5 DEF WordInv, StoredWords
<1>7. UdV_temp = Bmat(BlockTop(l + 1), 0)
  BY <1>1, <1>3, <1>6, BmatJoin DEF leftMultiplyBmat
<1> HIDE DEF UdV_temp
<1>8. all = GreenAt(k)
  <2>1. CASE BlockTop(l + 1) # m
    <3>1. l + 1 < n /\ l + 1 <= l + 1
      BY <1>3, <2>1
    <3>2. UdVStorage[gc][l + 1] = Bmat(m, BlockTop(l + 1))
      BY <1>1, <1>3, <1>5, <3>1 DEF WordInv, StoredWords
    <3> QED
      BY <1>1, <1>7, <2>1, <3>2 DEF GreenAt
  <2>2. CASE BlockTop(l + 1) = m
    BY <1>1, <1>7, <2>2, GreenAtEnds
  <2> QED
    BY <2>1, <2>2
<1>9. ComputeGreen(all) /\ Store(l + 1, UdV_temp)
  BY DEF AdvanceUpGreen, UdV_temp
<1> HIDE DEF all
<1>10. k \in 0..m /\ \A c \in Components : green[c] = GreenAt(k)
  BY <1>1, <1>3 DEF WordInv, GreenWords, GreenSlice
<1>11. \A c \in Components : green'[c] = GreenAt(k)
  BY <1>1, <1>8, <1>9, <1>10 DEF ComputeGreen, WordTypes, Greens
<1>12. \A c \in Components :
         green_inv_sv'[c] = IF c = gc THEN GreenAt(k) ELSE green_inv_sv[c]
  BY <1>1, <1>8, <1>9 DEF ComputeGreen, WordTypes, Greens
<1>13. \A c \in Components, b \in 0..n :
         UdVStorage'[c][b] = IF c = gc /\ b = l + 1 THEN Bmat(BlockTop(l + 1), 0)
                                                    ELSE UdVStorage[c][b]
  BY <1>1, <1>3, <1>7, <1>9 DEF Store, WordTypes, Storage
<1>14. \/ pc' = "aborted"
       \/ NextComponent /\ pc' = "advance" /\ gc' = gc + 1 /\ l' = l /\ k' = k
       \/ ~NextComponent /\ pc' = "wrap" /\ gc' = 0 /\ l' = l + 1 /\ k' = k + 1
       \/ ~NextComponent /\ pc' = "finish" /\ gc' = 0 /\ l + 1 = n /\ k = m
  BY <1>1, <1>3 DEF AdvanceUpGreen, Goto
<1>15. GreenWords'
  <2>1. PICK j \in 0..m : j = k /\ j + 1 - 1 = j
    BY <1>10, Blocks
  <2>2. \A c \in Components : ~(c < 0)
    BY ParametersAssumption DEF Components
  <2>3. ASSUME Coherent', NEW c \in Components PROVE GreenSlice(c)' = k
    <3>1. CASE pc' = "wrap"
      <4>1. k' = j + 1 /\ gc' = 0
        BY <1>14, <2>1, <3>1
      <4>2. GreenSlice(c)' = k' - 1
        BY <1>1, <2>2, <3>1, <4>1 DEF GreenSlice
      <4> QED
        BY <2>1, <4>1, <4>2
    <3>2. CASE pc' # "wrap"
      BY <1>1, <1>14, <2>3, <3>2 DEF GreenSlice, Coherent
    <3> QED
      BY <3>1, <3>2
  <2> QED
    BY <1>2, <1>11, <2>3 DEF GreenWords
<1>16. StoredWords'
  <2>1. \A c \in Components, b \in 0..n :
          LET split == IF c < gc \/ c = gc THEN l + 2 ELSE l + 1
          IN  /\ b < split => UdVStorage'[c][b] = Bmat(BlockTop(b), 0)
              /\ split <= b /\ b < n => UdVStorage'[c][b] = Bmat(m, BlockTop(b))
    <3> TAKE c \in Components, b \in 0..n
    <3>1. Split(c) = IF c < gc THEN l + 2 ELSE l + 1
      BY <1>1 DEF Split
    <3>2. /\ b < Split(c) => UdVStorage[c][b] = Bmat(BlockTop(b), 0)
          /\ Split(c) <= b /\ b < n => UdVStorage[c][b] = Bmat(m, BlockTop(b))
      BY <1>1 DEF WordInv, StoredWords
    <3>3. /\ b < l + 2 => b = l + 1 \/ b < l + 1
          /\ l + 2 <= b => b # l + 1 /\ l + 1 <= b
          /\ b < l + 1 => b # l + 1
      BY <1>3
    <3> QED
      BY <1>4, <1>12, <1>13, <3>1, <3>2, <3>3
  <2>2. l + 1 + 1 = l + 2 /\ (l + 1 = n => n + 1 = l + 2)
    BY <1>3
  <2>3. Coherent' => \A c \in Components :
          Split(c)' = IF c < gc \/ c = gc THEN l + 2 ELSE l + 1
    BY <1>1, <1>4, <1>14, <2>2 DEF Split, Coherent
  <2> QED
    BY <1>2, <2>1, <2>3 DEF StoredWords
<1>17. SingularValues'
  <2>1. \A c \in Components : c < gc => green_inv_sv[c] = GreenAt(k)
    BY <1>1, <1>10 DEF WordInv, SingularValues
  <2> QED
    BY <1>1, <1>2, <1>4, <1>12, <1>14, <2>1 DEF SingularValues
<1>18. BackupWords'
  BY <1>14 DEF BackupWords
<1> QED
  BY <1>15, <1>16, <1>17, <1>18 DEF WordInv

LEMMA WordIdle ==
  ASSUME IndexInv, WordTypes, WordInv, FinishSweep \/ Reload
  PROVE  WordInv'
<1>1. pc' = "idle" /\ Fields /\ UNCHANGED field /\ n \in Nat /\ n \in 0..n
  BY Blocks DEF FinishSweep, Reload, loop, IndexInv, Terms
<1>2. /\ \A a, b : Bmat(a, b)' = Bmat(a, b)
      /\ \A j : GreenAt(j)' = GreenAt(j)
  BY <1>1, SameField
<1>3. BackupWords'
  BY <1>1 DEF BackupWords
<1>4. CASE FinishSweep
  <2>1. /\ pc = "finish" /\ Coherent /\ UNCHANGED <<green, green_inv_sv, UdVStorage>>
        /\ (Downwards' <=> ~Downwards)
    BY <1>4 DEF FinishSweep, Coherent, Downwards
  <2>2. GreenWords'
    BY <1>1, <1>2, <2>1 DEF WordInv, GreenWords, GreenSlice
  <2>3. StoredWords'
    BY <1>1, <1>2, <2>1 DEF WordInv, StoredWords, Split
  <2>4. SingularValues'
    BY <1>1, <1>2, <2>1 DEF WordInv, SingularValues
  <2> QED
    BY <1>3, <2>2, <2>3, <2>4 DEF WordInv
<1>5. CASE Reload
  <2>1. SetupUdVStorage /\ Downwards'
    BY <1>5 DEF Reload, SetupUdVStorage, Downwards
  <2>2. \A c \in Components :
          /\ green'[c] = GreenAt(m) /\ green_inv_sv'[c] = GreenAt(m)
          /\ \A b \in 0..n : UdVStorage'[c][b] = Bmat(BlockTop(b), 0)
    BY <1>1, <2>1, SetupWords
  <2>3. GreenWords'
    BY <1>1, <1>2, <2>1, <2>2 DEF GreenWords, GreenSlice
  <2>4. StoredWords'
    BY <1>1, <1>2, <2>1, <2>2 DEF StoredWords, Split
  <2>5. SingularValues'
    BY <1>1, <1>2, <2>1, <2>2 DEF SingularValues
  <2> QED
    BY <1>3, <2>3, <2>4, <2>5 DEF WordInv
<1> QED
  BY <1>4, <1>5

LEMMA WordStutter ==
  ASSUME WordInv, UNCHANGED vars
  PROVE  WordInv'
<1>1. /\ UNCHANGED <<pc, k, l, gc, green, green_inv_sv, UdVStorage, lastSweepDir, gmd>>
      /\ UNCHANGED field
  BY DEF vars, loop, field, fermions
<1>2. /\ \A a, b : Bmat(a, b)' = Bmat(a, b)
      /\ \A j : GreenAt(j)' = GreenAt(j)
      /\ \A b : BackupProduct(b)' = BackupProduct(b)
  BY <1>1, SameField, SameBackup
<1>3. (Coherent' <=> Coherent) /\ (Downwards' <=> Downwards)
  BY <1>1 DEF Coherent, Downwards
<1>4. GreenWords'
  BY <1>1, <1>2, <1>3 DEF WordInv, GreenWords, GreenSlice
<1>5. StoredWords'
  BY <1>1, <1>2, <1>3 DEF WordInv, StoredWords, Split
<1>6. SingularValues' /\ BackupWords'
  BY <1>1, <1>2, <1>3 DEF WordInv, SingularValues, BackupWords
<1> QED
  BY <1>4, <1>5, <1>6 DEF WordInv

LEMMA WordNext == IndexInv /\ WordTypes /\ WordInv /\ [Next]_vars => WordInv'
BY WordStutter, WordStart, WordAttempt, WordRecompute, WordAccept, WordReject, WordUpdate,
   WordWrap, WordAdvanceDown, WordAdvanceUp, WordIdle DEF Next, Halt

LEMMA WordAlways == Spec => []WordInv
BY WordInit, WordNext, IndexAlways, WordTypesAlways, PTL DEF Spec

-----------------------------------------------------------------------------
(* The Green's function that a slice is updated and measured with is that  *)
(* of the slice for the field in all slices: wrapping, the products stored *)
(* by the previous sweep and the recomputation at the end of each block    *)
(* never disagree with the field, whatever updates and global moves were   *)
(* accepted, rejected or undone before.                                    *)
THEOREM GreenStaysCurrent == Spec => []GreenIsCurrent
<1>1. ASSUME IndexInv, WordInv PROVE GreenIsCurrent
  <2> SUFFICES ASSUME pc = "update", NEW c \in Components PROVE green[c] = GreenAt(k)
    BY DEF GreenIsCurrent
  <2>1. k \in 0..m /\ GreenSlice(c) = k /\ Coherent
    BY <1>1, Blocks DEF IndexInv, IndexTypes, Indices, GreenSlice, Coherent
  <2> QED
    BY <1>1, <2>1 DEF WordInv, GreenWords
<1> QED
  BY <1>1, IndexAlways, WordAlways, PTL

(* advanceDownGreen and advanceUpGreen find the preconditions they state:  *)
(* the stored products they combine are those of the current field.        *)
THEOREM AdvanceFindsItsProducts == Spec => []AdvancePreconditions
<1>1. ASSUME IndexInv, WordInv PROVE AdvancePreconditions
  <2> SUFFICES ASSUME pc = "advance" PROVE AdvancePreconditions
    BY DEF AdvancePreconditions
  <2>1. gc \in Components /\ Coherent /\ ~(gc < gc)
    BY <1>1, ParametersAssumption DEF IndexInv, IndexTypes, Coherent, Components
  <2>2. CASE Downwards
    <3>1. l \in 0..n /\ l - 1 \in 0..n /\ l - 1 < l /\ l <= l /\ Split(gc) = l
      BY <1>1, <2>1, <2>2, Blocks DEF IndexInv, Indices, Split
    <3> QED
      BY <1>1, <2>1, <2>2, <3>1 DEF WordInv, StoredWords, AdvancePreconditions
  <2>3. CASE ~Downwards
    <3>1. /\ l \in 0..n /\ l + 1 \in 0..n /\ l < l + 1 /\ l + 1 <= l + 1
          /\ Split(gc) = l + 1
      BY <1>1, <2>1, <2>3, Blocks DEF IndexInv, Indices, Split
    <3> QED
      BY <1>1, <2>1, <2>3, <3>1 DEF WordInv, StoredWords, AdvancePreconditions
  <2> QED
    BY <2>2, <2>3
<1> QED
  BY <1>1, IndexAlways, WordAlways, PTL

(* A global move is decided upon with the determinants of the field before *)
(* and after it, and what a rejection restores is complete and coherent.   *)
THEOREM MovesAreDecidedCorrectly == Spec => []MoveDecidedOnCurrentDeterminants
<1>1. ASSUME IndexInv, WordInv PROVE MoveDecidedOnCurrentDeterminants
  BY <1>1, Blocks DEF MoveDecidedOnCurrentDeterminants, WordInv, SingularValues, BackupWords,
                      IndexInv, Indices, MayMove
<1> QED
  BY <1>1, IndexAlways, WordAlways, PTL

(* A resumed simulation continues with the same Green's functions, stored  *)
(* products and direction as the one that was saved.                       *)
THEOREM ResumingIsSeamless == Spec => ResumeIsSeamless
<1>1. ASSUME IndexInv, WordTypes, WordInv, Reload PROVE UNCHANGED <<field, fermions>>
  <2>1. /\ pc = "idle" /\ UNCHANGED field /\ SetupUdVStorage /\ Fields /\ Coherent
        /\ performedSweeps % 2 = 0
    BY <1>1 DEF Reload, SavedHere, IndexInv, Terms, Coherent
  <2>2. Downwards /\ currentTimeslice = m
    BY <1>1, <2>1 DEF IndexInv, Parity, Indices
  <2>3. lastSweepDir' = lastSweepDir /\ currentTimeslice' = currentTimeslice
    BY <2>1, <2>2 DEF SetupUdVStorage, Downwards
  <2>4. n \in 0..n /\ n \in Nat /\ m \in 0..m /\ BlockTop(n) = m
    BY Blocks
  <2>5. BottomProducts[n] = GreenAt(m)
    BY <2>1, <2>4, GreenAtEnds DEF BottomProducts
  <2>6. green \in [Components -> Words] /\ green_inv_sv \in [Components -> Words]
    BY <1>1 DEF WordTypes, Greens
  <2>7. \A c \in Components : green[c] = GreenAt(m) /\ green_inv_sv[c] = GreenAt(m)
    BY <1>1, <2>1, <2>2, <2>4 DEF WordInv, GreenWords, SingularValues, GreenSlice
  <2>8. green' = green /\ green_inv_sv' = green_inv_sv
    BY <2>1, <2>5, <2>6, <2>7 DEF SetupUdVStorage
  <2>9. UdVStorage' = UdVStorage
    <3>1. \A c \in Components, b \in 0..n : UdVStorage[c][b] = Bmat(BlockTop(b), 0)
      BY <1>1, <2>1, <2>2, <2>4 DEF WordInv, StoredWords, Split
    <3>2. UdVStorage \in [Components -> [0..n -> Words]]
      BY <1>1 DEF WordTypes, Storage
    <3>3. \A c \in Components : UdVStorage[c] = BottomProducts
      BY <3>1, <3>2 DEF BottomProducts
    <3> QED
      BY <2>1, <3>2, <3>3 DEF SetupUdVStorage
  <2> QED
    BY <2>1, <2>3, <2>8, <2>9 DEF fermions
<1>2. IndexInv /\ WordTypes /\ WordInv /\ [Next]_vars
        => [Reload => UNCHANGED <<field, fermions>>]_vars
  BY <1>1
<1> QED
  BY <1>2, IndexAlways, WordTypesAlways, WordAlways, PTL DEF Spec, ResumeIsSeamless

(* With one Green's function (GREEN_COMPONENTS = 1, the SDW model) no      *)
(* assertion on currentTimeslice can fail.  With two it does.              *)
THEOREM OneComponentNeverAborts ==
  ASSUME GreenComponents = 1
  PROVE  Spec => []NoAssertionFails
<1>1. Init => NoAssertionFails
  BY DEF Init, NoAssertionFails
<1>2. ASSUME IndexInv, NoAssertionFails, [Next]_vars PROVE NoAssertionFails'
  <2>1. gc = 0
    BY <1>2 DEF IndexInv, IndexTypes, Components
  <2>2. pc \in {"globalMove", "update", "wrap", "advance"} =>
          currentTimeslice = AssertedTimeslice
    BY <1>2, <2>1 DEF IndexInv, IndexTypes, Indices, MayMove, AssertedTimeslice
  <2>3. ASSUME NEW take \in BOOLEAN, StartSweepDown(take) \/ StartSweepUp(take)
        PROVE  pc' # "aborted"
    BY <2>3 DEF StartSweepDown, StartSweepUp
  <2>4. ASSUME AttemptMove \/ RecomputeGreen \/ AcceptMove \/ RejectMove \/ BeginDown
        PROVE  pc' # "aborted"
    BY <2>2, <2>4
       DEF AttemptMove, RecomputeGreen, AcceptMove, RejectMove, BeginDown, Goto
  <2>5. ASSUME NEW accept \in BOOLEAN, UpdateInSliceDown(accept) \/ UpdateInSliceUp(accept)
        PROVE  pc' # "aborted"
    BY <2>2, <2>5 DEF UpdateInSliceDown, UpdateInSliceUp, Goto
  <2>6. ASSUME WrapDownGreen \/ WrapUpGreen PROVE pc' # "aborted"
    BY <2>2, <2>6 DEF WrapDownGreen, WrapUpGreen, Goto
  <2>7. ASSUME AdvanceDownGreen \/ AdvanceUpGreen PROVE pc' # "aborted"
    BY <2>2, <2>7 DEF AdvanceDownGreen, AdvanceUpGreen, Goto
  <2>8. ASSUME FinishSweep \/ Reload PROVE pc' # "aborted"
    BY <2>8 DEF FinishSweep, Reload, loop
  <2>9. ASSUME UNCHANGED vars PROVE pc' # "aborted"
    BY <1>2, <2>9 DEF NoAssertionFails, vars, loop
  <2> QED
    BY <1>2, <2>3, <2>4, <2>5, <2>6, <2>7, <2>8, <2>9 DEF NoAssertionFails, Next, Halt
<1> QED
  BY <1>1, <1>2, IndexAlways, PTL DEF Spec
=============================================================================
