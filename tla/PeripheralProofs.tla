---------------------------- MODULE PeripheralProofs ----------------------------
(***************************************************************************)
(* The two ends of the chip: the serial link and the display.              *)
(*                                                                         *)
(* The timing signals are right for every resolution and every porch of at *)
(* least one pixel and one line, not only for 720p: the registers of       *)
(* vsg.sv, set and cleared one edge ahead, always agree with the counters. *)
(*                                                                         *)
(* The encoder's recursion over the bits of a byte is finite, and is       *)
(* unrolled.  Its tally is the running disparity because a character's     *)
(* balance is counted bit by bit (CharBalance), and it fits five bits      *)
(* because each character works against what there is (TallyStep).         *)
(*                                                                         *)
(* The display shows the picture because the registers between the buffer  *)
(* and the encoder are in step with the counters: each holds what was      *)
(* asked for one edge before the one before it (PipelineFollows).          *)
(*                                                                         *)
(* The link is a byte channel for all bit periods that are Compatible.     *)
(* While a byte is in flight, RxTime and TxTime count the edges since the  *)
(* receiver and the transmitter began, and they differ by -1 (the receiver *)
(* began with the start bit) up to half a bit less one (it began with a    *)
(* dip).  Each sample then falls into the bit it is meant for, whatever    *)
(* the difference: that is what Compatible says, and SampleInSlot proves.  *)
(***************************************************************************)
EXTENDS Display, UartLink, FiniteSetTheorems, TLAPS

-----------------------------------------------------------------------------
(* The timing signals.                                                     *)


\* The counters in range and the registers in step with them: inductive as it is.
IInv == TypeOK /\ SignalsMatchCounters

\* The sizes as numbers, in the order in which the counters meet them.
LEMMA Sizes ==
    /\ TOTAL_PIXELS \in Nat /\ H_SYNC_HI \in Nat /\ H_SYNC_LO \in Nat
    /\ ACTIVE_H_PIXELS \in Nat /\ 0 < ACTIVE_H_PIXELS /\ ACTIVE_H_PIXELS <= H_SYNC_HI
    /\ H_SYNC_HI < H_SYNC_LO /\ H_SYNC_LO < TOTAL_PIXELS - 1
    /\ TOTAL_LINES \in Nat /\ V_SYNC_HI \in Nat /\ V_SYNC_LO \in Nat
    /\ ACTIVE_LINES \in Nat /\ 0 < ACTIVE_LINES /\ ACTIVE_LINES < V_SYNC_HI
    /\ V_SYNC_HI < V_SYNC_LO /\ V_SYNC_LO < TOTAL_LINES
  BY TimingAssumption, SMTT(30)
     DEF TOTAL_PIXELS, TOTAL_LINES, H_SYNC_HI, H_SYNC_LO, V_SYNC_HI, V_SYNC_LO

LEMMA InitInv == Init => IInv
  BY Sizes DEF Init, IInv, TypeOK, SignalsMatchCounters, Level,
                Drawing, InHSync, InVSync, AtNewFrame

LEMMA StepInv == IInv /\ [Next]_vars => IInv'
<1> SUFFICES ASSUME IInv, [Next]_vars PROVE IInv'
  OBVIOUS
<1> USE Sizes DEF IInv, TypeOK, SignalsMatchCounters, Level, Drawing, InHSync, InVSync, AtNewFrame
<1>1. CASE DrawPixel
  BY <1>1 DEF DrawPixel
<1>2. CASE BlankRight
  <2>1. CASE ~EndOfLine
    BY <1>2, <2>1 DEF BlankRight, HSync, NextPixel, NextLine, EndOfLine
  <2>2. CASE EndOfLine
    BY <1>2, <2>2 DEF BlankRight, HSync, NextPixel, NextLine, EndOfLine
  <2> QED
    BY <2>1, <2>2
<1>3. CASE LastLine
  BY <1>3 DEF LastLine, TopLeft, HSync, NextPixel, EndOfLine
<1>4. CASE FirstBlankLine
  <2>1. CASE ~EndOfLine
    BY <1>4, <2>1 DEF FirstBlankLine, NewFrame, HSync, NextPixel, EndOfLine
  <2>2. CASE EndOfLine
    BY <1>4, <2>2 DEF FirstBlankLine, NewFrame, HSync, NextLine, EndOfLine
  <2> QED
    BY <2>1, <2>2
<1>5. CASE BlankLine
  <2>1. CASE ~EndOfLine
    BY <1>5, <2>1 DEF BlankLine, HSync, NextPixel, EndOfLine
  <2>2. CASE EndOfLine
    BY <1>5, <2>2 DEF BlankLine, HSync, EndOfLine
  <2> QED
    BY <2>1, <2>2
<1>6. CASE Reset
  BY <1>6 DEF Reset
<1>7. CASE UNCHANGED vars
  BY <1>7 DEF vars
<1> QED
  BY <1>1, <1>2, <1>3, <1>4, <1>5, <1>6, <1>7 DEF Next, Step

LEMMA Invariance == Spec => []IInv
  BY InitInv, StepInv, PTL DEF Spec

\* The counters stay on the raster: no line is a pixel too long and no frame a line.
THEOREM CountersInRange == Spec => []TypeOK
<1>1. IInv => TypeOK
  BY DEF IInv
<1> QED
  BY <1>1, Invariance, PTL

\* Drawing, both syncs and the new-frame pulse are right at every pixel of every
\* frame, whenever resets come.
THEOREM SignalsRight == Spec => []SignalsMatchCounters
<1>1. IInv => SignalsMatchCounters
  BY DEF IInv
<1> QED
  BY <1>1, Invariance, PTL

\* The cases of the code leave no pixel out: every edge is a pixel further on.
THEOREM ScansEveryPixel == Spec => BeamScans
<1>1. IInv /\ [Next]_vars => [Scan]_vars
  <2> SUFFICES ASSUME IInv, Next PROVE Scan
    BY DEF vars
  <2> USE Sizes DEF IInv, TypeOK, SignalsMatchCounters, Level, Drawing, Scan, NextPosition, EndOfLine
  <2>1. CASE DrawPixel
    BY <2>1 DEF DrawPixel
  <2>2. CASE BlankRight
    BY <2>2 DEF BlankRight, NextPixel, NextLine
  <2>3. CASE LastLine
    BY <2>3 DEF LastLine, TopLeft, NextPixel
  <2>4. CASE FirstBlankLine
    BY <2>4 DEF FirstBlankLine, NewFrame, NextPixel, NextLine
  <2>5. CASE BlankLine
    BY <2>5 DEF BlankLine, NextPixel
  <2>6. CASE Reset
    BY <2>6 DEF Reset
  <2> QED
    BY <2>1, <2>2, <2>3, <2>4, <2>5, <2>6 DEF Next, Step
<1> QED
  BY <1>1, Invariance, PTL DEF Spec, BeamScans

-----------------------------------------------------------------------------
(* The encoder.                                                            *)

\* On bits, Xor is exclusive or.
LEMMA XorOfBits ==
    \A a, b \in {0, 1} : Xor(a, b) = IF a = b THEN 0 ELSE 1
BY DEF Xor

\* The recursion of qm_out, with its option.
Chain(d, opt) ==
    CHOOSE q : q = [i \in 0 .. 7 |-> IF i = 0 THEN d[0] ELSE Xor(Xor(d[i], q[i - 1]), 1 - opt)]

LEMMA QmOut ==
    ASSUME NEW d
    PROVE  LET opt == IF ChoosesXor(d) THEN 1 ELSE 0
           IN  qm_out(d) = [i \in 0 .. 8 |-> IF i = 8 THEN opt ELSE Chain(d, opt)[i]]
BY Zenon DEF qm_out, Chain

\* The recursion has a solution: eight bits, each from the one before.
LEMMA ChainExists ==
    ASSUME NEW d, NEW opt
    PROVE  Chain(d, opt) = [i \in 0 .. 7 |-> IF i = 0 THEN d[0] ELSE Xor(Xor(d[i], Chain(d, opt)[i - 1]), 1 - opt)]
<1> DEFINE X(i, b) == Xor(Xor(d[i], b), 1 - opt)
           b0 == d[0]
           b1 == X(1, b0)
           b2 == X(2, b1)
           b3 == X(3, b2)
           b4 == X(4, b3)
           b5 == X(5, b4)
           b6 == X(6, b5)
           b7 == X(7, b6)
           w == [i \in 0 .. 7 |-> IF i = 0 THEN b0 ELSE IF i = 1 THEN b1 ELSE IF i = 2 THEN b2
                    ELSE IF i = 3 THEN b3 ELSE IF i = 4 THEN b4 ELSE IF i = 5 THEN b5
                    ELSE IF i = 6 THEN b6 ELSE b7]
<1>1. /\ w[0] = b0 /\ w[1] = b1 /\ w[2] = b2 /\ w[3] = b3
      /\ w[4] = b4 /\ w[5] = b5 /\ w[6] = b6 /\ w[7] = b7
  <2> HIDE DEF b0, b1, b2, b3, b4, b5, b6, b7
  <2> QED OBVIOUS
<1>2. b1 = X(1, b0) /\ b2 = X(2, b1) /\ b3 = X(3, b2) /\ b4 = X(4, b3) /\ b5 = X(5, b4)
      /\ b6 = X(6, b5) /\ b7 = X(7, b6) BY Zenon
<1>3. \A i \in 0 .. 7 : w[i] = IF i = 0 THEN d[0] ELSE X(i, w[i - 1])
  <2> b0 = d[0] OBVIOUS
  <2> HIDE DEF b0, b1, b2, b3, b4, b5, b6, b7, X, w
  <2> QED BY <1>1, <1>2
<1>4. w = [i \in 0 .. 7 |-> IF i = 0 THEN d[0] ELSE X(i, w[i - 1])]
  <2>1. w = [i \in 0 .. 7 |-> w[i]]
    <3> HIDE DEF b0, b1, b2, b3, b4, b5, b6, b7
    <3> QED OBVIOUS
  <2> HIDE DEF w, X
  <2> QED BY <1>3, <2>1
<1>5. \E q : q = [i \in 0 .. 7 |-> IF i = 0 THEN d[0] ELSE X(i, q[i - 1])]
  <2> HIDE DEF w
  <2> QED BY <1>4, Zenon
<1> QED BY <1>5, Zenon DEF Chain

LEMMA ChainBits ==
    ASSUME NEW d \in [0 .. 7 -> {0, 1}], NEW opt \in {0, 1}
    PROVE  /\ Chain(d, opt) \in [0 .. 7 -> {0, 1}]
           /\ Chain(d, opt)[0] = d[0]
           /\ \A i \in 1 .. 7 :
                  Chain(d, opt)[i] = Xor(Xor(d[i], Chain(d, opt)[i - 1]), 1 - opt)
<1> DEFINE q == Chain(d, opt)
<1>1. q = [i \in 0 .. 7 |-> IF i = 0 THEN d[0] ELSE Xor(Xor(d[i], q[i - 1]), 1 - opt)]
      BY ChainExists
<1>2. \A a, b \in {0, 1} : Xor(a, b) \in {0, 1} BY XorOfBits
<1>3. 1 - opt \in {0, 1} OBVIOUS
<1> HIDE DEF q
<1>4. q[0] = d[0] BY <1>1
<1>5. \A i \in 1 .. 7 : q[i] = Xor(Xor(d[i], q[i - 1]), 1 - opt)
  <2> SUFFICES ASSUME NEW i \in 1 .. 7
               PROVE  q[i] = Xor(Xor(d[i], q[i - 1]), 1 - opt)
      OBVIOUS
  <2>1. i \in 0 .. 7 /\ i # 0 OBVIOUS
  <2>2. q[i] = IF i = 0 THEN d[0] ELSE Xor(Xor(d[i], q[i - 1]), 1 - opt) BY <1>1, <2>1, Zenon
  <2> QED BY <2>1, <2>2
<1>6. \A i \in 1 .. 7 : q[i - 1] \in {0, 1} => q[i] \in {0, 1} BY <1>2, <1>3, <1>5
<1>7. q[0] \in {0, 1} BY <1>4
<1>8. q[1] \in {0, 1} BY <1>6, <1>7
<1>9. q[2] \in {0, 1} BY <1>6, <1>8
<1>10. q[3] \in {0, 1} BY <1>6, <1>9
<1>11. q[4] \in {0, 1} BY <1>6, <1>10
<1>12. q[5] \in {0, 1} BY <1>6, <1>11
<1>13. q[6] \in {0, 1} BY <1>6, <1>12
<1>14. q[7] \in {0, 1} BY <1>6, <1>13
<1>15. q \in [0 .. 7 -> {0, 1}] BY <1>1, <1>7, <1>8, <1>9, <1>10, <1>11, <1>12, <1>13, <1>14
<1> QED BY <1>4, <1>5, <1>15 DEF q

\* What tm_choice hands on: bits, the eighth of which names the chain.
LEMMA QmBits ==
    ASSUME NEW d \in [0 .. 7 -> {0, 1}]
    PROVE  LET q_m == qm_out(d)
           IN  /\ q_m \in [0 .. 8 -> {0, 1}]
               /\ q_m[0] = d[0]
               /\ \A i \in 1 .. 7 : q_m[i] = Xor(Xor(d[i], q_m[i - 1]), 1 - q_m[8])
<1> DEFINE q_m == qm_out(d)
<1>1. PICK opt \in {0, 1} : opt = IF ChoosesXor(d) THEN 1 ELSE 0 OBVIOUS
<1>2. q_m = [i \in 0 .. 8 |-> IF i = 8 THEN opt ELSE Chain(d, opt)[i]] BY <1>1, QmOut, Zenon
<1> HIDE DEF q_m
<1>3. q_m[8] = opt BY <1>2
<1>4. \A i \in 0 .. 7 : q_m[i] = Chain(d, opt)[i] BY <1>2
<1>5. q_m \in [0 .. 8 -> {0, 1}] BY <1>2, ChainBits
<1>6. \A i \in 1 .. 7 : i \in 0 .. 7 /\ i - 1 \in 0 .. 7 OBVIOUS
<1> QED BY <1>3, <1>4, <1>5, <1>6, ChainBits DEF q_m

LEMMA BytesAreBits == VideoBytes \subseteq [0 .. 7 -> {0, 1}]
<1>1. \A n \in Int : n % 2 \in {0, 1} OBVIOUS
<1>2. \A d \in 0 .. 255, i \in 0 .. 7 : d \div 2 ^ i \in Int
  <2>1. \A i \in 0 .. 7 : 2 ^ i \in Nat \ {0}
    <3>1. /\ 2 ^ 0 \in Nat \ {0} /\ 2 ^ 1 \in Nat \ {0} /\ 2 ^ 2 \in Nat \ {0} /\ 2 ^ 3 \in Nat \ {0}
          /\ 2 ^ 4 \in Nat \ {0} /\ 2 ^ 5 \in Nat \ {0} /\ 2 ^ 6 \in Nat \ {0} /\ 2 ^ 7 \in Nat \ {0}
          OBVIOUS
    <3> SUFFICES ASSUME NEW i \in 0 .. 7 PROVE 2 ^ i \in Nat \ {0} OBVIOUS
    <3>2. i = 0 \/ i = 1 \/ i = 2 \/ i = 3 \/ i = 4 \/ i = 5 \/ i = 6 \/ i = 7 OBVIOUS
    <3> QED BY <3>1, <3>2, Zenon
  <2>2. \A d \in 0 .. 255, m \in Nat \ {0} : d \div m \in Int OBVIOUS
  <2> QED BY <2>1, <2>2
<1> QED BY <1>1, <1>2, DataAssumption DEF VideoBytes, Bits

\* A character: the data bits, inverted or not, and its two flags.
LEMMA CharBits ==
    ASSUME NEW inverted \in {0, 1}, NEW q_m \in [0 .. 8 -> {0, 1}]
    PROVE  LET w == Char(inverted, q_m)
           IN  /\ w \in [0 .. 9 -> {0, 1}] /\ w[9] = inverted /\ w[8] = q_m[8]
               /\ \A i \in 0 .. 7 : w[i] = Xor(q_m[i], inverted)
<1> DEFINE w == Char(inverted, q_m)
<1>1. w = [i \in 0 .. 9 |-> CASE i = 9 -> inverted [] i = 8 -> q_m[8] [] OTHER -> Xor(q_m[i], inverted)]
      BY DEF Char
<1> HIDE DEF w
<1>2. w[9] = inverted /\ w[8] = q_m[8] BY <1>1
<1>3. \A i \in 0 .. 7 : w[i] = Xor(q_m[i], inverted) BY <1>1
<1>4. \A i \in 0 .. 7 : Xor(q_m[i], inverted) \in {0, 1} BY XorOfBits
<1>5. \A i \in 0 .. 9 : w[i] \in {0, 1}
  <2>1. \A i \in 0 .. 9 : i = 9 \/ i = 8 \/ i \in 0 .. 7 OBVIOUS
  <2> QED BY <1>2, <1>3, <1>4, <2>1
<1>6. w \in [0 .. 9 -> {0, 1}] BY <1>1, <1>5
<1> QED BY <1>2, <1>3, <1>6 DEF w

\* Decoding undoes the inversion and the chain.
LEMMA DecodeChar ==
    ASSUME NEW d \in [0 .. 7 -> {0, 1}], NEW inverted \in {0, 1}
    PROVE  Decode(Char(inverted, qm_out(d))) = d
<1> DEFINE q_m == qm_out(d)
           w == Char(inverted, q_m)
           p == [i \in 0 .. 7 |-> Xor(w[i], w[9])]
<1>1. /\ q_m \in [0 .. 8 -> {0, 1}] /\ q_m[0] = d[0]
      /\ \A i \in 1 .. 7 : q_m[i] = Xor(Xor(d[i], q_m[i - 1]), 1 - q_m[8])
      BY QmBits
<1>2. Decode(w) = [i \in 0 .. 7 |-> IF i = 0 THEN p[0] ELSE Xor(Xor(p[i], p[i - 1]), 1 - w[8])]
      BY DEF Decode
<1> HIDE DEF q_m
<1>3. /\ w[9] = inverted /\ w[8] = q_m[8]
      /\ \A i \in 0 .. 7 : w[i] = Xor(q_m[i], inverted)
      BY <1>1, CharBits
<1> HIDE DEF w
<1>4. \A i \in 0 .. 7 : p[i] = q_m[i]
  <2>1. \A a, b \in {0, 1} : Xor(Xor(a, b), b) = a BY XorOfBits
  <2>2. \A i \in 0 .. 7 : q_m[i] \in {0, 1} BY <1>1
  <2> QED BY <1>3, <2>1, <2>2
<1> HIDE DEF p
<1>5. \A i \in 1 .. 7 : Xor(Xor(p[i], p[i - 1]), 1 - w[8]) = d[i]
  <2> SUFFICES ASSUME NEW i \in 1 .. 7
               PROVE  Xor(Xor(p[i], p[i - 1]), 1 - w[8]) = d[i]
      OBVIOUS
  <2>1. \A a, b, c \in {0, 1} :
            Xor(Xor(Xor(Xor(a, b), c), b), c) = a
        BY XorOfBits
  <2>2. PICK a, b, c \in {0, 1} : a = d[i] /\ b = q_m[i - 1] /\ c = 1 - q_m[8]
    <3>1. d[i] \in {0, 1} /\ q_m[i - 1] \in {0, 1} /\ q_m[8] \in {0, 1} BY <1>1
    <3>2. 1 - q_m[8] \in {0, 1} BY <3>1
    <3> QED BY <3>1, <3>2
  <2>3. p[i] = q_m[i] /\ p[i - 1] = b /\ 1 - w[8] = c BY <1>3, <1>4, <2>2
  <2>4. p[i] = Xor(Xor(a, b), c) BY <1>1, <2>2, <2>3
  <2> QED BY <2>1, <2>2, <2>3, <2>4
<1>6. p[0] = d[0] BY <1>1, <1>4
<1>7. \A i \in 0 .. 7 : (IF i = 0 THEN p[0] ELSE Xor(Xor(p[i], p[i - 1]), 1 - w[8])) = d[i]
  <2>1. \A i \in 0 .. 7 : i = 0 \/ i \in 1 .. 7 OBVIOUS
  <2> QED BY <1>5, <1>6, <2>1
<1>8. Decode(w) = d BY <1>2, <1>7
<1> QED BY <1>8 DEF w, q_m

LEMMA Interval == \A n \in Nat : IsFiniteSet(0 .. n) /\ Cardinality(0 .. n) = n + 1
<1>1. \A a, b \in Int : IsFiniteSet(a .. b) /\ Cardinality(a .. b) = IF a > b THEN 0 ELSE b - a + 1
      BY FS_Interval
<1>2. \A n \in Nat : n \in Int /\ 0 \in Int /\ ~(0 > n) /\ n - 0 + 1 = n + 1 OBVIOUS
<1> QED BY <1>1, <1>2, Zenon

\* Ones among the data bits, as they are and inverted.
LEMMA DataOnes ==
    ASSUME NEW q_m \in [0 .. 8 -> {0, 1}]
    PROVE  /\ n1(q_m) \in 0 .. 8 /\ n0(q_m) = 8 - n1(q_m)
           /\ IsFiniteSet({i \in 0 .. 7 : q_m[i] = 1}) /\ IsFiniteSet({i \in 0 .. 7 : q_m[i] # 1})
           /\ Cardinality({i \in 0 .. 7 : q_m[i] # 1}) = n0(q_m)
<1> DEFINE A == {i \in 0 .. 7 : q_m[i] = 1}
           S == 0 .. 7
<1>1. IsFiniteSet(S) /\ Cardinality(S) = 8
  <2>1. 7 \in Nat /\ 7 + 1 = 8 OBVIOUS
  <2> QED BY <2>1, Interval, Zenon
<1>2. A \subseteq S OBVIOUS
<1>3. {i \in 0 .. 7 : q_m[i] # 1} = S \ A OBVIOUS
<1>4. n1(q_m) = Cardinality(A) BY Zenon DEF n1
<1>5. n0(q_m) = 8 - n1(q_m) BY Zenon DEF n0
<1>6. A = S \cap A BY <1>2
<1> HIDE DEF A, S
<1>7. IsFiniteSet(A) /\ Cardinality(A) <= Cardinality(S) BY <1>1, <1>2, FS_Subset
<1>8. Cardinality(A) \in Nat BY <1>7, FS_CardinalityType
<1>9. IsFiniteSet(S \ A) /\ Cardinality(S \ A) = Cardinality(S) - Cardinality(S \cap A)
      BY <1>1, FS_Difference
<1>10. Cardinality(S \ A) = 8 - Cardinality(A) BY <1>1, <1>6, <1>9
<1>11. Cardinality(A) \in 0 .. 8 BY <1>1, <1>7, <1>8
<1> QED BY <1>3, <1>4, <1>5, <1>7, <1>9, <1>10, <1>11 DEF A

\* Ones minus zeros in a character: those of the data bits and of the two flags.
LEMMA CharBalance ==
    ASSUME NEW inverted \in {0, 1}, NEW q_m \in [0 .. 8 -> {0, 1}]
    PROVE  Balance(Char(inverted, q_m)) =
               (IF inverted = 1 THEN n0(q_m) - n1(q_m)
                                ELSE n1(q_m) - n0(q_m))
               + 2 * q_m[8] + 2 * inverted - 2
<1> DEFINE w == Char(inverted, q_m)
           D == {i \in 0 .. 7 : w[i] = 1}
           C == {i \in DOMAIN w : w[i] = 1}
<1>1. /\ w \in [0 .. 9 -> {0, 1}] /\ w[9] = inverted /\ w[8] = q_m[8]
      /\ \A i \in 0 .. 7 : w[i] = Xor(q_m[i], inverted)
      BY CharBits
<1>2. Balance(w) = 2 * Cardinality(C) - Cardinality(DOMAIN w)
      BY Zenon DEF Balance, Ones
<1> HIDE DEF w
<1>3. /\ n1(q_m) \in 0 .. 8 /\ n0(q_m) \in 0 .. 8
       /\ n0(q_m) = 8 - n1(q_m)
  <2>1. \A x \in 0 .. 8 : 8 - x \in 0 .. 8 OBVIOUS
  <2> QED BY <2>1, DataOnes, Zenon
<1>4. PICK ones \in 0 .. 8 : /\ IsFiniteSet(D) /\ Cardinality(D) = ones
                             /\ ones = IF inverted = 1 THEN n0(q_m) ELSE n1(q_m)
  <2>1. CASE inverted = 1
    <3>1. \A a \in {0, 1} : Xor(a, 1) = 1 <=> a # 1 BY XorOfBits
    <3>2. \A i \in 0 .. 7 : q_m[i] \in {0, 1} OBVIOUS
    <3>3. \A i \in 0 .. 7 : w[i] = 1 <=> q_m[i] # 1 BY <1>1, <2>1, <3>1, <3>2
    <3>4. D = {i \in 0 .. 7 : q_m[i] # 1} BY <3>3
    <3>5. IsFiniteSet(D) /\ Cardinality(D) = n0(q_m) BY <3>4, DataOnes, Zenon
    <3> QED BY <1>3, <2>1, <3>5, Zenon
  <2>2. CASE inverted = 0
    <3>1. \A a \in {0, 1} : Xor(a, 0) = a BY XorOfBits
    <3>2. \A i \in 0 .. 7 : q_m[i] \in {0, 1} OBVIOUS
    <3>3. \A i \in 0 .. 7 : w[i] = q_m[i] BY <1>1, <2>2, <3>1, <3>2
    <3>4. D = {i \in 0 .. 7 : q_m[i] = 1} BY <3>3
    <3>5. IsFiniteSet(D) /\ Cardinality(D) = n1(q_m)
          BY <3>4, DataOnes, Zenon DEF n1
    <3>6. ~(inverted = 1) BY <2>2
    <3> QED BY <1>3, <3>5, <3>6, Zenon
  <2> QED BY <2>1, <2>2
<1>5. 8 \notin D /\ 9 \notin D /\ 9 \notin D \cup {8} OBVIOUS
<1>6. /\ q_m[8] = 0 /\ inverted = 0 => C = D
      /\ q_m[8] = 1 /\ inverted = 0 => C = D \cup {8}
      /\ q_m[8] = 0 /\ inverted = 1 => C = D \cup {9}
      /\ q_m[8] = 1 /\ inverted = 1 => C = (D \cup {8}) \cup {9}
      BY <1>1
<1>7. DOMAIN w = 0 .. 9 /\ Cardinality(0 .. 9) = 10
  <2>1. 9 \in Nat /\ 9 + 1 = 10 OBVIOUS
  <2>2. Cardinality(0 .. 9) = 10 BY <2>1, Interval, Zenon
  <2> QED BY <1>1, <2>2, Zenon
<1> HIDE DEF C, D
<1>8. /\ IsFiniteSet(D \cup {8}) /\ Cardinality(D \cup {8}) = ones + 1
      /\ Cardinality(D \cup {9}) = ones + 1
      BY <1>4, <1>5, FS_AddElement
<1>9. Cardinality((D \cup {8}) \cup {9}) = ones + 2 BY <1>5, <1>8, FS_AddElement
<1>10. q_m[8] \in {0, 1} OBVIOUS
<1>11. Cardinality(C) = ones + q_m[8] + inverted
  <2>1. CASE q_m[8] = 0 /\ inverted = 0 BY <1>4, <1>6, <2>1
  <2>2. CASE q_m[8] = 1 /\ inverted = 0 BY <1>6, <1>8, <2>2
  <2>3. CASE q_m[8] = 0 /\ inverted = 1 BY <1>6, <1>8, <2>3
  <2>4. CASE q_m[8] = 1 /\ inverted = 1 BY <1>6, <1>9, <2>4
  <2> QED BY <1>10, <2>1, <2>2, <2>3, <2>4
<1>12. Balance(w) = 2 * (ones + q_m[8] + inverted) - 10 BY <1>2, <1>7, <1>11
<1> QED BY <1>4, <1>10, <1>12, <1>3 DEF w

\* The line is balanced: after a byte of video the ones and the zeros sent since the
\* last control character differ by eight at most, and by an even number.
Balanced == \E h \in -4 .. 4 : disparity = 2 * h

TallyInv == tally \in 0 .. 31 /\ TallyIsDisparity /\ Balanced

\* Adding to the five bits adds to the number they stand for, if that fits.
LEMMA SignedAdd ==
    ASSUME NEW t \in 0 .. 31, NEW k \in -16 .. 16, Signed(t) + k \in -16 .. 15
    PROVE  (t + k) % 32 \in 0 .. 31 /\ Signed((t + k) % 32) = Signed(t) + k
<1>1. Signed(t) = IF t >= 16 THEN t - 32 ELSE t BY DEF Signed
<1>2. PICK r \in Int : r = (t + k) % 32 OBVIOUS
<1>3. r \in 0 .. 31 /\ (r = t + k \/ r = t + k - 32 \/ r = t + k + 32)
  <2>1. CASE t + k \in 0 .. 31 BY <1>2, <2>1
  <2>2. CASE t + k < 0 BY <1>2, <2>2
  <2>3. CASE t + k > 31 BY <1>2, <2>3
  <2> QED BY <2>1, <2>2, <2>3
<1>4. Signed(r) = IF r >= 16 THEN r - 32 ELSE r BY DEF Signed
<1>5. (IF r >= 16 THEN r - 32 ELSE r) = (IF t >= 16 THEN t - 32 ELSE t) + k BY <1>1, <1>3
<1> QED BY <1>1, <1>2, <1>3, <1>4, <1>5

\* What the encoder adds to its tally is the balance of the character it sends.
LEMMA TallyStep ==
    ASSUME TallyInv, NEW q_m \in [0 .. 8 -> {0, 1}],
           NEW inverted \in {0, 1}, inverted = IF Inverts(q_m) THEN 1 ELSE 0
    PROVE  /\ TallyAfter(q_m) \in 0 .. 31
           /\ Signed(TallyAfter(q_m)) =
                  disparity + Balance(Char(inverted, q_m))
           /\ \E h \in -4 .. 4 : disparity + Balance(Char(inverted, q_m)) = 2 * h
<1>1. PICK ones \in 0 .. 8 : ones = n1(q_m) /\ n0(q_m) = 8 - ones
  <2>1. /\ n1(q_m) \in 0 .. 8 /\ n0(q_m) = 8 - n1(q_m) BY DataOnes, Zenon
  <2> QED BY <2>1, Zenon
<1>2. PICK q8 \in {0, 1} : q8 = q_m[8] OBVIOUS
<1>3. PICK half \in -4 .. 4 : disparity = 2 * half BY DEF TallyInv, Balanced
<1>4. PICK t \in 0 .. 31 : t = tally BY DEF TallyInv
<1>5. /\ Signed(t) = 2 * half
      /\ 2 * half = IF t >= 16 THEN t - 32 ELSE t
  <2>1. Signed(t) = disparity BY <1>4, Zenon DEF TallyInv, TallyIsDisparity
  <2> QED BY <1>3, <2>1 DEF Signed
<1> DEFINE data == IF inverted = 1 THEN 8 - 2 * ones ELSE 2 * ones - 8
           flags == IF t = 0 \/ ones = 4 THEN 0 ELSE IF inverted = 1 THEN 2 * q8 ELSE 2 * q8 - 2
<1>6. inverted = 1 <=> IF t = 0 \/ ones = 4 THEN q8 = 0
                       ELSE IF t >= 16 THEN ones < 4 ELSE ones > 4
  <2>1. /\ 8 - ones = ones <=> ones = 4
        /\ 8 - ones > ones <=> ones < 4
        /\ ones > 8 - ones <=> ones > 4
        OBVIOUS
  <2>2. Inverts(q_m) <=> IF t = 0 \/ 8 - ones = ones THEN q8 = 0
                                 ELSE IF t >= 16 THEN 8 - ones > ones ELSE ones > 8 - ones
        BY <1>1, <1>2, <1>4, Zenon DEF Inverts, Negative
  <2>3. inverted = 1 <=> Inverts(q_m) OBVIOUS
  <2> QED BY <2>1, <2>2, <2>3
<1>7. TallyAfter(q_m) = (t + flags + data) % 32
  <2>1. inverted = 1 <=> Inverts(q_m) OBVIOUS
  <2>2. TallyAfter(q_m) =
           (t + (IF t = 0 \/ 8 - ones = ones THEN 0
                 ELSE IF Inverts(q_m) THEN 2 * q8 ELSE -2 * (1 - q8))
              + (IF Inverts(q_m) THEN 8 - ones - ones ELSE ones - (8 - ones))) % 32
        BY <1>1, <1>2, <1>4, Zenon DEF TallyAfter
  <2>3. /\ 8 - ones = ones <=> ones = 4
        /\ 8 - ones - ones = 8 - 2 * ones /\ ones - (8 - ones) = 2 * ones - 8
        /\ -2 * (1 - q8) = 2 * q8 - 2
        OBVIOUS
  <2> QED BY <2>1, <2>2, <2>3
<1>8. Balance(Char(inverted, q_m)) = flags + data
  <2>1. Balance(Char(inverted, q_m)) =
           (IF inverted = 1 THEN 8 - ones - ones ELSE ones - (8 - ones)) + 2 * q8 + 2 * inverted - 2
        BY <1>1, <1>2, CharBalance, Zenon
  <2>2. (t = 0 \/ ones = 4) => 2 * q8 + 2 * inverted - 2 = 0 BY <1>6
  <2>3. ~(t = 0 \/ ones = 4) => 2 * q8 + 2 * inverted - 2 = flags OBVIOUS
  <2> QED BY <2>1, <2>2, <2>3
<1>9. PICK k \in -10 .. 10 : k = flags + data OBVIOUS
<1>10. \E h \in -4 .. 4 : 2 * half + k = 2 * h
  <2>1. CASE inverted = 1
    <3>1. CASE t = 0 \/ ones = 4
      <4>1. k = 2 * (4 - ones) BY <1>9, <2>1, <3>1
      <4>2. half + (4 - ones) \in -4 .. 4 BY <1>5, <3>1
      <4> QED BY <4>1, <4>2
    <3>2. CASE ~(t = 0 \/ ones = 4)
      <4>1. k = 2 * (4 - ones + q8) BY <1>9, <2>1, <3>2
      <4>2. half + (4 - ones + q8) \in -4 .. 4 BY <1>5, <1>6, <2>1, <3>2
      <4> QED BY <4>1, <4>2
    <3> QED BY <3>1, <3>2
  <2>2. CASE inverted # 1
    <3>1. CASE t = 0 \/ ones = 4
      <4>1. k = 2 * (ones - 4) BY <1>9, <2>2, <3>1
      <4>2. half + (ones - 4) \in -4 .. 4 BY <1>5, <3>1
      <4> QED BY <4>1, <4>2
    <3>2. CASE ~(t = 0 \/ ones = 4)
      <4>1. k = 2 * (ones - 4 + q8 - 1) BY <1>9, <2>2, <3>2
      <4>2. half + (ones - 4 + q8 - 1) \in -4 .. 4 BY <1>5, <1>6, <2>2, <3>2
      <4> QED BY <4>1, <4>2
    <3> QED BY <3>1, <3>2
  <2> QED BY <2>1, <2>2
<1>11. t + flags + data = t + k BY <1>9
<1> HIDE DEF flags, data
<1>12. /\ Signed(t) + k \in -16 .. 15 /\ k \in -16 .. 16 BY <1>5, <1>10
<1>13. (t + k) % 32 \in 0 .. 31 /\ Signed((t + k) % 32) = 2 * half + k
       BY <1>5, <1>12, SignedAdd
<1> QED BY <1>3, <1>7, <1>8, <1>9, <1>10, <1>11, <1>13, Zenon

EncoderInv ==
    /\ TallyInv
    /\ last[1] = "video" => last[2] \in VideoBytes /\ Decode(q_out) = last[2]

\* Video of byte d: balanced, and decodable.
LEMMA VideoStep ==
    ASSUME TallyInv, NEW d \in VideoBytes, Video(d)
    PROVE  EncoderInv' /\ Decode(q_out') = d
<1>1. d \in [0 .. 7 -> {0, 1}] BY BytesAreBits
<1>2. PICK q_m \in [0 .. 8 -> {0, 1}] : q_m = qm_out(d) BY <1>1, QmBits
<1>3. q_m_of[d] = q_m BY <1>2, Zenon DEF q_m_of
<1>4. PICK inverted \in {0, 1} : inverted = IF Inverts(q_m) THEN 1 ELSE 0 OBVIOUS
<1>5. /\ q_out' = Char(inverted, q_m) /\ tally' = TallyAfter(q_m)
      /\ last' = <<"video", d>> /\ disparity' = disparity + Balance(q_out')
      BY <1>3, <1>4, Zenon DEF Video
<1>6. /\ tally' \in 0 .. 31 /\ Signed(tally') = disparity'
      /\ \E h \in -4 .. 4 : disparity' = 2 * h
      BY <1>4, <1>5, TallyStep, Zenon
<1>7. TallyInv'
  <2>1. TallyIsDisparity' BY <1>6, Zenon DEF TallyIsDisparity, Signed
  <2> QED BY <1>6, <2>1, Zenon DEF TallyInv, Balanced
<1>8. Decode(q_out') = d BY <1>1, <1>2, <1>5, DecodeChar, Zenon
<1>9. last'[2] = d BY <1>5
<1> QED BY <1>7, <1>8, <1>9, Zenon DEF EncoderInv, Decode

\* Reset and blanking start afresh.
LEMMA ZeroTally ==
    /\ 0 \in 0 .. 31 /\ Signed(0) = 0 /\ \E h \in -4 .. 4 : 0 = 2 * h
<1>1. 0 = 2 * 0 /\ 0 \in -4 .. 4 /\ 0 \in 0 .. 31 /\ ~(0 >= 16) OBVIOUS
<1> QED BY <1>1, Zenon DEF Signed

LEMMA QuietStep ==
    ASSUME tally' = 0, disparity' = 0, last'[1] # "video"
    PROVE  EncoderInv'
<1>1. TallyInv' BY ZeroTally, Zenon DEF TallyInv, Balanced, TallyIsDisparity, Signed
<1> QED BY <1>1, Zenon DEF EncoderInv

LEMMA EncoderStep == EncoderInv /\ [EncoderNext]_encodervars => EncoderInv'
<1> SUFFICES ASSUME EncoderInv, [EncoderNext]_encodervars PROVE EncoderInv' OBVIOUS
<1>1. CASE EncoderReset
  <2>1. tally' = 0 /\ disparity' = 0 /\ last' = <<"none", 0>> BY <1>1, Zenon DEF EncoderReset
  <2> QED BY <2>1, QuietStep
<1>2. ASSUME NEW c \in 0 .. 3, Blank(c) PROVE EncoderInv'
  <2>1. tally' = 0 /\ disparity' = 0 /\ last' = <<"control", c>> BY <1>2, Zenon DEF Blank
  <2> QED BY <2>1, QuietStep
<1>3. ASSUME NEW d \in VideoBytes, Video(d) PROVE EncoderInv'
      BY <1>3, VideoStep, Zenon DEF EncoderInv
<1>4. CASE UNCHANGED encodervars
  <2>1. UNCHANGED <<tally, q_out, last, disparity>> BY <1>4, Zenon DEF encodervars
  <2> QED BY <2>1, Zenon DEF EncoderInv, TallyInv, Balanced, TallyIsDisparity, Signed, Decode
<1> QED BY <1>1, <1>2, <1>3, <1>4, Zenon DEF EncoderNext

LEMMA EncoderStart == EncoderInit => EncoderInv
<1> SUFFICES ASSUME EncoderInit PROVE EncoderInv OBVIOUS
<1>1. tally = 0 /\ disparity = 0 /\ last = <<"none", 0>> BY Zenon DEF EncoderInit
<1>2. last[1] # "video" BY <1>1
<1>3. TallyInv BY <1>1, ZeroTally, Zenon DEF TallyInv, Balanced, TallyIsDisparity, Signed
<1> QED BY <1>2, <1>3, Zenon DEF EncoderInv

LEMMA EncoderAlways == EncoderSpec => []EncoderInv
BY EncoderStart, EncoderStep, PTL DEF EncoderSpec

\* The five bits of tally in tmds_encoder.sv never overflow, whatever bytes are
\* sent: read as a signed number they are the running disparity, which stays
\* within eight.
THEOREM TallyNeverOverflows == EncoderSpec => [](TallyIsDisparity /\ Balanced)
<1>1. EncoderInv => TallyIsDisparity /\ Balanced BY Zenon DEF EncoderInv, TallyInv
<1> QED BY <1>1, EncoderAlways, PTL

\* tm_choice.sv and the inversion lose nothing: what the display decodes is what
\* was sent.
THEOREM EveryByteDecodes == EncoderSpec => []VideoDecodes
<1>1. EncoderInv => VideoDecodes BY Zenon DEF EncoderInv, VideoDecodes
<1> QED BY <1>1, EncoderAlways, PTL

-----------------------------------------------------------------------------
(* The display.                                                            *)

\* The position k edges ago, when no reset came since: on this line, or at the end
\* of the line above.
Known(k) == hcount_out >= k \/ vcount_out > 0
ColumnBefore(k) == IF hcount_out >= k THEN hcount_out - k ELSE TOTAL_PIXELS + hcount_out - k
LineBefore(k) == IF hcount_out >= k THEN vcount_out ELSE vcount_out - 1
AddrBefore(k) == ScaledAddr(ColumnBefore(k), LineBefore(k))
ValidBefore(k) == Level(ColumnBefore(k) < ACTIVE_H_PIXELS /\ LineBefore(k) < ACTIVE_LINES)

BufferTypeOK ==
    /\ sbuf_r_addr \in 0 .. FRAME_AREA - 1
    /\ ram_data \in Data /\ sbuf_r_data \in Data /\ blue \in Data

\* Each register of the pipeline holds what was asked one edge earlier than the one
\* before it.
PipelineFollows ==
    /\ Known(1) => sbuf_r_addr = AddrBefore(1) /\ sbuf_r_valid = ValidBefore(1)
    /\ Known(2) => ram_data = Picture(AddrBefore(2))
    /\ Known(3) => sbuf_r_data = Picture(AddrBefore(3))
    /\ Known(4) => blue = IF ValidBefore(2) = 1 THEN Picture(AddrBefore(4)) ELSE 0

\* The timing, the encoder and the registers between them.
DisplayInv == IInv /\ EncoderInv /\ BufferTypeOK /\ PipelineFollows

\* The address is cut to the size of the buffer.
LEMMA AddrInBuffer == \A h, v \in Nat : ScaledAddr(h, v) \in 0 .. FRAME_AREA - 1
<1> SUFFICES ASSUME NEW h \in Nat, NEW v \in Nat PROVE ScaledAddr(h, v) \in 0 .. FRAME_AREA - 1 OBVIOUS
<1>1. PICK width \in Nat \ {0}, area \in Nat \ {0} : width = FRAME_WIDTH /\ area = FRAME_AREA
      BY DisplayAssumption
<1>2. PICK x \in Nat, y \in Nat : x = h \div 4 /\ y = v \div 4 OBVIOUS
<1>3. width * y \in Nat OBVIOUS
<1>4. PICK a \in Nat : a = x + width * y BY <1>3
<1>5. ScaledAddr(h, v) = a % area BY <1>1, <1>2, <1>4 DEF ScaledAddr
<1>6. \A l \in Nat, m \in Nat \ {0} : l % m \in 0 .. m - 1 OBVIOUS
<1> QED BY <1>1, <1>5, <1>6

\* The scan, one edge on: a pixel further, a line further, or at the top left.
Moves ==
    \/ hcount_out' = hcount_out + 1 /\ vcount_out' = vcount_out
    \/ hcount_out = TOTAL_PIXELS - 1 /\ hcount_out' = 0 /\ vcount_out' = vcount_out + 1
    \/ hcount_out' = 0 /\ vcount_out' = 0

LEMMA NextMoves == IInv /\ Next => Moves
<1> SUFFICES ASSUME IInv, Next PROVE Moves OBVIOUS
<1> USE DEF Moves
<1>1. CASE DrawPixel BY <1>1 DEF DrawPixel
<1>2. CASE BlankRight BY <1>2 DEF BlankRight, NextPixel, NextLine, EndOfLine
<1>3. CASE LastLine BY <1>3 DEF LastLine, TopLeft, NextPixel
<1>4. CASE FirstBlankLine BY <1>4 DEF FirstBlankLine, NewFrame, NextPixel, NextLine, EndOfLine
<1>5. CASE BlankLine BY <1>5 DEF BlankLine, NextPixel, EndOfLine
<1>6. CASE Reset BY <1>6 DEF Reset
<1> QED BY <1>1, <1>2, <1>3, <1>4, <1>5, <1>6 DEF Next, Step

\* What was k edges ago is k + 1 edges ago.
LEMMA OneEdgeLater ==
    ASSUME IInv, IInv', Moves, NEW k \in 0 .. 3, Known(k + 1)'
    PROVE  Known(k) /\ AddrBefore(k + 1)' = AddrBefore(k) /\ ValidBefore(k + 1)' = ValidBefore(k)
<1>1. /\ hcount_out \in 0 .. TOTAL_PIXELS - 1 /\ vcount_out \in Nat
      /\ hcount_out' \in 0 .. TOTAL_PIXELS - 1 /\ vcount_out' \in Nat
      /\ TOTAL_PIXELS \in Nat /\ TOTAL_PIXELS > 3
      BY Sizes DEF IInv, TypeOK
<1>2. (hcount_out' >= k + 1 \/ vcount_out' > 0) BY DEF Known
<1>3. Known(k) BY <1>1, <1>2 DEF Known, Moves
<1>4. ColumnBefore(k + 1)' = ColumnBefore(k) /\ LineBefore(k + 1)' = LineBefore(k)
  <2> DEFINE T == TOTAL_PIXELS
             h == hcount_out
             v == vcount_out
  <2>1. PICK g, u \in Nat : g = hcount_out' /\ u = vcount_out' BY <1>1
  <2>2. /\ ColumnBefore(k + 1)' = IF g >= k + 1 THEN g - (k + 1) ELSE T + g - (k + 1)
        /\ LineBefore(k + 1)' = IF g >= k + 1 THEN u ELSE u - 1
        BY <2>1 DEF ColumnBefore, LineBefore
  <2>3. /\ ColumnBefore(k) = IF h >= k THEN h - k ELSE T + h - k
        /\ LineBefore(k) = IF h >= k THEN v ELSE v - 1
        BY DEF ColumnBefore, LineBefore
  <2>4. \/ g = h + 1 /\ u = v
        \/ h = T - 1 /\ g = 0 /\ u = v + 1
        BY <1>2, <2>1 DEF Moves
  <2>5. CASE g = h + 1 /\ u = v
    <3>1. g >= k + 1 <=> h >= k BY <1>1, <2>5
    <3>2. g - (k + 1) = h - k /\ T + g - (k + 1) = T + h - k BY <1>1, <2>5
    <3> QED BY <2>2, <2>3, <2>5, <3>1, <3>2
  <2>6. CASE h = T - 1 /\ g = 0 /\ u = v + 1
    <3>1. ~(g >= k + 1) /\ h >= k BY <1>1, <2>6
    <3>2. T + g - (k + 1) = h - k /\ u - 1 = v BY <1>1, <2>6
    <3> QED BY <2>2, <2>3, <3>1, <3>2
  <2> QED BY <2>4, <2>5, <2>6
<1> QED BY <1>3, <1>4 DEF AddrBefore, ValidBefore

\* The registers take what the one before them held, whether it is an edge or a reset.
LEMMA ReadKeeps ==
    ASSUME DisplayInv, IInv', Moves, ReadBuffer
    PROVE  BufferTypeOK' /\ PipelineFollows'
<1>1. /\ sbuf_r_addr' = ScaledAddr(hcount_out, vcount_out)
      /\ sbuf_r_valid' = Level(hcount_out < ACTIVE_H_PIXELS /\ vcount_out < ACTIVE_LINES)
      /\ ram_data' = Picture(sbuf_r_addr) /\ sbuf_r_data' = ram_data
      /\ blue' = IF sbuf_r_valid = 1 THEN sbuf_r_data ELSE 0
      BY DEF ReadBuffer
<1>2. hcount_out \in Nat /\ vcount_out \in Nat BY Sizes DEF DisplayInv, IInv, TypeOK
<1>3. BufferTypeOK /\ PipelineFollows /\ IInv BY DEF DisplayInv
<1>4. BufferTypeOK' BY <1>1, <1>2, <1>3, AddrInBuffer, DisplayAssumption DEF BufferTypeOK
<1>5. AddrBefore(0) = ScaledAddr(hcount_out, vcount_out)
      /\ ValidBefore(0) = Level(hcount_out < ACTIVE_H_PIXELS /\ vcount_out < ACTIVE_LINES)
      BY <1>2 DEF AddrBefore, ValidBefore, ColumnBefore, LineBefore
<1>6. Known(1)' => sbuf_r_addr' = AddrBefore(1)' /\ sbuf_r_valid' = ValidBefore(1)'
  <2>1. 0 \in 0 .. 3 /\ 0 + 1 = 1 OBVIOUS
  <2>2. Known(1)' => AddrBefore(1)' = AddrBefore(0) /\ ValidBefore(1)' = ValidBefore(0)
        BY <1>3, <2>1, OneEdgeLater, Zenon
  <2> QED BY <1>1, <1>5, <2>2, Zenon
<1>7. Known(2)' => Known(1) /\ AddrBefore(2)' = AddrBefore(1) /\ ValidBefore(2)' = ValidBefore(1)
  <2>1. 1 \in 0 .. 3 /\ 1 + 1 = 2 OBVIOUS
  <2> QED BY <1>3, <2>1, OneEdgeLater, Zenon
<1>8. Known(3)' => Known(2) /\ AddrBefore(3)' = AddrBefore(2)
  <2>1. 2 \in 0 .. 3 /\ 2 + 1 = 3 OBVIOUS
  <2> QED BY <1>3, <2>1, OneEdgeLater, Zenon
<1>9. Known(4)' => Known(3) /\ AddrBefore(4)' = AddrBefore(3)
  <2>1. 3 \in 0 .. 3 /\ 3 + 1 = 4 OBVIOUS
  <2> QED BY <1>3, <2>1, OneEdgeLater, Zenon
<1>10. Known(4)' => Known(2)'
  <2>1. hcount_out' \in Nat BY Sizes DEF IInv, TypeOK
  <2> QED BY <2>1 DEF Known
<1>11. Known(4)' => blue' = IF ValidBefore(2)' = 1 THEN Picture(AddrBefore(4)') ELSE 0
       BY <1>1, <1>3, <1>7, <1>9, <1>10, Zenon DEF PipelineFollows
<1>12. Known(2)' => ram_data' = Picture(AddrBefore(2)') BY <1>1, <1>3, <1>7, Zenon DEF PipelineFollows
<1>13. Known(3)' => sbuf_r_data' = Picture(AddrBefore(3)') BY <1>1, <1>3, <1>8, Zenon DEF PipelineFollows
<1> QED BY <1>4, <1>6, <1>11, <1>12, <1>13, Zenon DEF PipelineFollows

\* A byte of blue is one of the bytes that the encoder is given.
LEMMA BlueIsByte == BufferTypeOK => Bits(blue) \in VideoBytes
BY Zenon DEF BufferTypeOK, VideoBytes

\* An edge sends the position's pixel, or its syncs.
LEMMA EdgeSends ==
    ASSUME DisplayInv, DisplayEdge
    PROVE  PixelSent /\ EncoderInv'
<1>1. Encode /\ SignalsMatchCounters /\ BufferTypeOK /\ PipelineFollows /\ EncoderInv
      BY DEF DisplayInv, DisplayEdge, IInv
<1>2. ad_out = Level(Drawing) /\ hs_out = Level(InHSync) /\ vs_out = Level(InVSync)
      BY <1>1 DEF SignalsMatchCounters
<1>3. CASE ~Drawing
  <2>1. ad_out # 1 BY <1>2, <1>3 DEF Level
  <2>2. Blank(2 * vs_out + hs_out) BY <1>1, <2>1, Zenon DEF Encode
  <2>3. /\ q_out' = Control(2 * Level(InVSync) + Level(InHSync))
        /\ tally' = 0 /\ disparity' = 0 /\ last' = <<"control", 2 * vs_out + hs_out>>
        BY <1>2, <2>2, Zenon DEF Blank
  <2>4. last'[1] # "video"
    <3>1. PICK c : c = 2 * vs_out + hs_out OBVIOUS
    <3>2. last' = <<"control", c>> BY <2>3, <3>1, Zenon
    <3> QED BY <3>2
  <2>5. EncoderInv' BY <2>3, <2>4, QuietStep, Zenon
  <2> QED BY <1>3, <2>3, <2>5, Zenon DEF PixelSent
<1>4. CASE Drawing
  <2>1. ad_out = 1 BY <1>2, <1>4 DEF Level
  <2>2. Video(Bits(blue)) /\ Bits(blue) \in VideoBytes
        BY <1>1, <2>1, BlueIsByte, Zenon DEF Encode
  <2>3. EncoderInv' /\ Decode(q_out') = Bits(blue)
        BY <1>1, <2>2, VideoStep, Zenon DEF EncoderInv
  <2>4. /\ hcount_out \in Nat /\ vcount_out \in Nat
        /\ hcount_out < ACTIVE_H_PIXELS /\ vcount_out < ACTIVE_LINES
        /\ TOTAL_PIXELS \in Nat /\ ACTIVE_H_PIXELS \in Nat /\ ACTIVE_H_PIXELS + 2 < TOTAL_PIXELS
        /\ ACTIVE_LINES \in Nat
        BY <1>4, Sizes DEF DisplayInv, IInv, TypeOK, Drawing
  <2>5. hcount_out >= 4 => blue = Picture(ScaledAddr(hcount_out - 4, vcount_out))
    <3> SUFFICES ASSUME hcount_out >= 4 PROVE blue = Picture(ScaledAddr(hcount_out - 4, vcount_out)) OBVIOUS
    <3>1. ValidBefore(2) = 1 BY <2>4 DEF ValidBefore, ColumnBefore, LineBefore, Level
    <3>2. AddrBefore(4) = ScaledAddr(hcount_out - 4, vcount_out)
          BY Zenon DEF AddrBefore, ColumnBefore, LineBefore
    <3> QED BY <1>1, <3>1, <3>2, Zenon DEF PipelineFollows, Known
  <2>6. hcount_out \in 0 .. 1 /\ vcount_out > 0 => blue = 0
    <3> SUFFICES ASSUME hcount_out \in 0 .. 1, vcount_out > 0 PROVE blue = 0 OBVIOUS
    <3>1. ValidBefore(2) # 1
      <4>1. ~(hcount_out >= 2) /\ ~(TOTAL_PIXELS + hcount_out - 2 < ACTIVE_H_PIXELS) BY <2>4
      <4>2. ColumnBefore(2) = TOTAL_PIXELS + hcount_out - 2 BY <4>1, Zenon DEF ColumnBefore
      <4>3. ValidBefore(2) = 0 BY <4>1, <4>2, Zenon DEF ValidBefore, Level
      <4> QED BY <4>3
    <3> QED BY <1>1, <3>1, Zenon DEF PipelineFollows, Known
  <2>7. hcount_out \in 2 .. 3 /\ vcount_out > 0 =>
            blue = Picture(ScaledAddr(TOTAL_PIXELS + hcount_out - 4, vcount_out - 1))
    <3> SUFFICES ASSUME hcount_out \in 2 .. 3, vcount_out > 0
                 PROVE  blue = Picture(ScaledAddr(TOTAL_PIXELS + hcount_out - 4, vcount_out - 1))
        OBVIOUS
    <3>1. ValidBefore(2) = 1 BY <2>4 DEF ValidBefore, ColumnBefore, LineBefore, Level
    <3>2. ~(hcount_out >= 4) OBVIOUS
    <3>3. AddrBefore(4) = ScaledAddr(TOTAL_PIXELS + hcount_out - 4, vcount_out - 1)
          BY <3>2, Zenon DEF AddrBefore, ColumnBefore, LineBefore
    <3> QED BY <1>1, <3>1, <3>3, Zenon DEF PipelineFollows, Known
  <2>8. PixelSent BY <1>4, <2>3, <2>5, <2>6, <2>7, Zenon DEF PixelSent, Asked
  <2> QED BY <2>3, <2>8
<1> QED BY <1>3, <1>4

LEMMA DisplayStart == DisplayInit => DisplayInv
<1> SUFFICES ASSUME DisplayInit PROVE DisplayInv OBVIOUS
<1>1. IInv /\ EncoderInv BY InitInv, EncoderStart, Zenon DEF DisplayInit
<1>2. BufferTypeOK BY DisplayAssumption DEF DisplayInit, BufferTypeOK
<1>3. hcount_out = 0 /\ vcount_out = 0 BY DEF DisplayInit, Init
<1>4. ~Known(1) /\ ~Known(2) /\ ~Known(3) /\ ~Known(4) BY <1>3 DEF Known
<1> QED BY <1>1, <1>2, <1>4, Zenon DEF DisplayInv, PipelineFollows

DisplaySends == [PixelSent \/ q_out' = [i \in 0 .. 9 |-> 0]]_displayvars

LEMMA DisplayStep == DisplayInv /\ [DisplayNext]_displayvars => DisplayInv' /\ DisplaySends
<1> SUFFICES ASSUME DisplayInv, [DisplayNext]_displayvars PROVE DisplayInv' /\ DisplaySends OBVIOUS
<1>1. CASE DisplayEdge
  <2>1. Next /\ ReadBuffer /\ IInv BY <1>1, Zenon DEF DisplayEdge, Next, DisplayInv
  <2>2. IInv' /\ Moves BY <2>1, StepInv, NextMoves, Zenon
  <2>3. BufferTypeOK' /\ PipelineFollows' BY <2>1, <2>2, ReadKeeps, Zenon
  <2>4. PixelSent /\ EncoderInv' BY <1>1, EdgeSends, Zenon
  <2> QED BY <2>2, <2>3, <2>4, Zenon DEF DisplayInv, DisplaySends
<1>2. CASE DisplayReset
  <2>1. Next /\ ReadBuffer /\ IInv /\ EncoderReset BY <1>2, Zenon DEF DisplayReset, Next, DisplayInv
  <2>2. IInv' /\ Moves BY <2>1, StepInv, NextMoves, Zenon
  <2>3. BufferTypeOK' /\ PipelineFollows' BY <2>1, <2>2, ReadKeeps, Zenon
  <2>4. /\ q_out' = [i \in 0 .. 9 |-> 0]
        /\ tally' = 0 /\ disparity' = 0 /\ last' = <<"none", 0>>
        BY <2>1, Zenon DEF EncoderReset
  <2>5. last'[1] # "video" BY <2>4
  <2>6. EncoderInv' BY <2>4, <2>5, QuietStep, Zenon
  <2> QED BY <2>2, <2>3, <2>4, <2>6, Zenon DEF DisplayInv, DisplaySends
<1>3. CASE UNCHANGED displayvars
  <2>1. UNCHANGED vars /\ UNCHANGED buffervars /\ UNCHANGED encodervars BY <1>3 DEF displayvars
  <2>2. IInv' BY <2>1, StepInv, Zenon DEF DisplayInv
  <2>3. EncoderInv'
    <3>1. UNCHANGED encodervars BY <2>1, Zenon DEF encodervars, encodervars
    <3> QED BY <3>1, EncoderStep, Zenon DEF DisplayInv
  <2>4. BufferTypeOK' BY <2>1 DEF buffervars, BufferTypeOK, DisplayInv
  <2>5. PipelineFollows'
        BY <2>1, Zenon DEF vars, buffervars, PipelineFollows, DisplayInv, Known, AddrBefore, ValidBefore,
           ColumnBefore, LineBefore
  <2> QED BY <1>3, <2>2, <2>3, <2>4, <2>5, Zenon DEF DisplayInv, DisplaySends
<1> QED BY <1>1, <1>2, <1>3, Zenon DEF DisplayNext

\* top_level.sv: whatever the resolution, the porches, the picture and the resets,
\* every edge sends the right one of the buffer's pixels, or the right syncs.
THEOREM DisplayShowsThePicture == DisplaySpec => PictureOnScreen
<1>1. DisplayInv /\ [DisplayNext]_displayvars =>
          DisplayInv' /\ [PixelSent \/ q_out' = [i \in 0 .. 9 |-> 0]]_displayvars
      BY DisplayStep, Zenon DEF DisplaySends
<1> QED BY <1>1, DisplayStart, PTL DEF DisplaySpec, PictureOnScreen

\* The display never drives the generator or the encoder otherwise than they are
\* specified alone, so that what holds of them holds in it.
THEOREM DisplayRunsBoth == DisplaySpec => Spec /\ EncoderSpec
<1>1. DisplayInit => Init /\ EncoderInit BY Zenon DEF DisplayInit
<1>2. DisplayInv /\ [DisplayNext]_displayvars =>
          DisplayInv' /\ [Next]_vars /\ [EncoderNext]_encodervars
  <2> SUFFICES ASSUME DisplayInv, [DisplayNext]_displayvars
               PROVE  [Next]_vars /\ [EncoderNext]_encodervars
      BY DisplayStep, Zenon
  <2>1. CASE DisplayEdge
    <3>1. Next /\ Encode BY <2>1, Zenon DEF DisplayEdge, Next
    <3>2. CASE ad_out = 1
      <4>1. Video(Bits(blue)) /\ Bits(blue) \in VideoBytes
            BY <3>1, <3>2, BlueIsByte, Zenon DEF Encode, DisplayInv
      <4> QED BY <3>1, <4>1, Zenon DEF EncoderNext
    <3>3. CASE ad_out # 1
      <4>1. 2 * vs_out + hs_out \in 0 .. 3 BY DEF DisplayInv, IInv, TypeOK
      <4>2. Blank(2 * vs_out + hs_out) BY <3>1, <3>3, Zenon DEF Encode
      <4> QED BY <3>1, <4>1, <4>2, Zenon DEF EncoderNext
    <3> QED BY <3>2, <3>3
  <2>2. CASE DisplayReset BY <2>2, Zenon DEF DisplayReset, Next, EncoderNext
  <2>3. CASE UNCHANGED displayvars
    <3>1. UNCHANGED vars /\ UNCHANGED encodervars BY <2>3 DEF displayvars
    <3> QED BY <3>1, Zenon DEF encodervars, encodervars
  <2> QED BY <2>1, <2>2, <2>3, Zenon DEF DisplayNext
<1> QED BY <1>1, <1>2, DisplayStart, PTL DEF DisplaySpec, Spec, EncoderSpec

-----------------------------------------------------------------------------
(* The link.                                                               *)


Half == RxPeriod \div 2

\* Edges since the start bit went out, and since the receiver left idle.
TxTime == bit_count * TxPeriod + tx_cycle_count
RxTime == IF check_start_bit THEN Half + bit_index * RxPeriod + rx_cycle_count
          ELSE rx_cycle_count

LinkTypeOK ==
    /\ TransmitterTypeOK /\ ReceiverTypeOK
    /\ inflight \in {<<>>} \cup {<<b>> : b \in Bytes}

\* What is on the wire in each of the ten bits.
WireInSlot ==
    IF ~busy_out THEN tx_wire_out = 1 /\ bit_count = 0
    ELSE /\ bit_count = 0 => tx_wire_out = 0
         /\ bit_count \in 1 .. 8 => tx_wire_out = data_in_buffer[bit_count - 1]
         /\ bit_count = 9 => tx_wire_out = 1

ReceiverAtRest ==
    /\ idle => ~check_start_bit /\ rx_cycle_count = 0
    /\ ~check_start_bit => bit_index = 0 /\ rx_cycle_count < Half
    /\ new_data_out => idle

\* Without a byte in flight the receiver waits, or looks at a dip.
NothingInFlight ==
    inflight = <<>> => /\ ~check_start_bit
                       /\ busy_out => idle /\ bit_count = 9

InStep ==
    inflight # <<>> =>
        /\ busy_out /\ inflight = <<data_in_buffer>>
        /\ idle => TxTime = 0
        /\ ~idle => RxTime - TxTime \in -1 .. Half - 1
        /\ \A i \in 0 .. 7 : i < bit_index => data_out_buffer[i] = data_in_buffer[i]

LinkInv == LinkTypeOK /\ WireInSlot /\ ReceiverAtRest /\ NothingInFlight /\ InStep

-----------------------------------------------------------------------------
(* Arithmetic: periods, slots and samples.                                  *)

\* Both periods are whole and a start bit is longer than half a bit.
LEMMA Periods ==
    /\ TxPeriod \in Nat /\ RxPeriod \in Nat /\ Half \in Nat /\ Half >= 1
    /\ TxPeriod > Half /\ TxPeriod <= RxPeriod /\ Half + 9 * RxPeriod < 10 * TxPeriod
<1>1. Half \in Nat /\ Half >= 1 BY RxAssumption DEF Half
<1> QED BY <1>1, TxAssumption, RxAssumption, LinkAssumption DEF Compatible, Half

\* A time between two multiples of the period lies in the slot between them.
LEMMA SlotOf ==
    ASSUME NEW p \in Nat, NEW k \in 0 .. 9, NEW m \in 0 .. 9, NEW c \in 0 .. p - 1,
           m * p <= k * p + c, k * p + c < (m + 1) * p
    PROVE  k = m
<1>1. CASE k < m
  <2>1. PICK j \in 1 .. 9 : m = k + j BY <1>1, SMT
  <2>2. j * p >= p BY SMT
  <2>3. m * p = k * p + j * p BY <2>1, SMT
  <2> QED BY <2>2, <2>3, SMT
<1>2. CASE k > m
  <2>1. PICK j \in 1 .. 9 : k = m + j BY <1>2, SMT
  <2>2. j * p >= p BY SMT
  <2>3. k * p = m * p + j * p BY <2>1, SMT
  <2>4. (m + 1) * p = m * p + p BY SMT
  <2> QED BY <2>2, <2>3, <2>4, SMT
<1> QED BY <1>1, <1>2

\* The sample of bit i, whose slot is i + 1, is taken within that slot.
LEMMA SampleInSlot ==
    ASSUME LinkInv, inflight # <<>>, ~idle, check_start_bit, SampleDue
    PROVE  bit_count = bit_index + 1
<1> DEFINE m == bit_index + 1
<1>1. /\ bit_index \in 0 .. 8 /\ bit_count \in 0 .. 9 /\ tx_cycle_count \in 0 .. TxPeriod - 1
      /\ rx_cycle_count = RxPeriod - 1
      BY DEF LinkInv, LinkTypeOK, TransmitterTypeOK, ReceiverTypeOK, SampleDue
<1>2. RxTime = Half + m * RxPeriod - 1
  <2>1. m * RxPeriod = bit_index * RxPeriod + RxPeriod BY <1>1, Periods, SMT
  <2> QED BY <1>1, <2>1, Periods, SMT DEF RxTime
<1>3. RxTime - TxTime >= -1 /\ RxTime - TxTime <= Half - 1 /\ TxTime \in Int
      BY <1>1, Periods DEF LinkInv, InStep, TxTime
<1>4. m * RxPeriod >= m * TxPeriod BY <1>1, Periods, SMT
<1>5. Half + m * RxPeriod < (m + 1) * TxPeriod
  <2> DEFINE j == 9 - m
  <2>1. j \in 0 .. 8 /\ m = 9 - j BY <1>1, SMT
  <2>2. j * RxPeriod >= j * TxPeriod BY <2>1, Periods, SMT
  <2>3. m * RxPeriod = 9 * RxPeriod - j * RxPeriod BY <2>1, Periods, SMT
  <2>4. (m + 1) * TxPeriod = 10 * TxPeriod - j * TxPeriod BY <2>1, Periods, SMT
  <2>5. m * RxPeriod \in Int /\ j * RxPeriod \in Int /\ j * TxPeriod \in Int /\ (m + 1) * TxPeriod \in Int
        BY <1>1, <2>1, Periods, SMT
  <2> HIDE DEF j, m
  <2> QED BY <2>2, <2>3, <2>4, <2>5, Periods, SMT
<1>6. m * RxPeriod \in Int /\ m * TxPeriod \in Int /\ (m + 1) * TxPeriod \in Int /\ m \in 1 .. 9
      BY <1>1, Periods, SMT
<1> HIDE DEF m
<1>7. m * TxPeriod <= TxTime /\ TxTime < (m + 1) * TxPeriod
      BY <1>2, <1>3, <1>4, <1>5, <1>6, Periods, SMT
<1>8. bit_count = m BY <1>1, <1>6, <1>7, SlotOf, Periods DEF TxTime
<1> QED BY <1>8 DEF m

\* The middle of the start bit is looked at before the start bit ends.
LEMMA StartInSlot ==
    ASSUME LinkInv, inflight # <<>>, ~idle, ~check_start_bit, SampleDue
    PROVE  bit_count = 0
<1>1. /\ bit_count \in 0 .. 9 /\ tx_cycle_count \in 0 .. TxPeriod - 1
      /\ rx_cycle_count = Half - 1
      BY DEF LinkInv, LinkTypeOK, TransmitterTypeOK, ReceiverTypeOK, SampleDue, Half
<1>2. RxTime = Half - 1 /\ RxTime - TxTime >= -1 BY <1>1 DEF LinkInv, InStep, RxTime
<1>3. bit_count * TxPeriod \in Nat BY <1>1, Periods, SMT
<1>4. TxTime <= Half BY <1>1, <1>2, <1>3, Periods, SMT DEF TxTime
<1>5. 0 * TxPeriod = 0 /\ (0 + 1) * TxPeriod = TxPeriod BY Periods, SMT
<1>6. 0 * TxPeriod <= bit_count * TxPeriod + tx_cycle_count
      BY <1>1, <1>3, <1>5, Periods, SMT
<1>7. bit_count * TxPeriod + tx_cycle_count < (0 + 1) * TxPeriod
  <2>1. TxTime \in Nat BY <1>1, <1>3, SMT DEF TxTime
  <2>2. TxTime < TxPeriod BY <1>4, <2>1, Periods, SMT
  <2> QED BY <1>5, <2>2 DEF TxTime
<1> QED BY <1>1, <1>6, <1>7, SlotOf, Periods

\* The transmitter counts on, and its wire follows, until the byte ends.
LEMMA TransmitKeeps ==
    ASSUME LinkInv, Transmit
    PROVE  /\ TransmitterTypeOK' /\ WireInSlot'
           /\ \/ ~busy_out' /\ TxTime = 10 * TxPeriod - 1
              \/ busy_out' /\ TxTime' = TxTime + 1 /\ UNCHANGED data_in_buffer
           /\ bit_count = 9 /\ busy_out' => bit_count' = 9
<1> USE DEF LinkInv, LinkTypeOK, TransmitterTypeOK, WireInSlot, Byte
<1>1. CASE HoldBit
  <2>1. TxTime' = TxTime + 1
    <3>1. bit_count * TxPeriod \in Int BY Periods, SMT
    <3> QED BY <1>1, <3>1, Periods, SMT DEF HoldBit, TxTime
  <2>2. /\ tx_cycle_count' \in 0 .. TxPeriod - 1
        /\ UNCHANGED <<busy_out, tx_wire_out, bit_count, data_in_buffer>>
        BY <1>1, Periods, SMT DEF HoldBit
  <2>3. TransmitterTypeOK' BY <2>2, Zenon
  <2>4. WireInSlot' BY <2>2, Zenon
  <2>5. busy_out BY <1>1, Zenon DEF HoldBit
  <2> QED BY <2>1, <2>2, <2>3, <2>4, <2>5, Zenon
<1>2. CASE ShiftBit
  <2>1. (bit_count + 1) * TxPeriod = bit_count * TxPeriod + TxPeriod /\ bit_count * TxPeriod \in Int
        BY Periods, SMT
  <2>2. TxTime' = TxTime + 1
    <3>1. bit_count' * TxPeriod = (bit_count + 1) * TxPeriod BY <1>2 DEF ShiftBit
    <3> QED BY <1>2, <2>1, <3>1, Periods, SMT DEF ShiftBit, TxTime
  <2>3. bit_count \in 0 .. 8 BY <1>2, SMT DEF ShiftBit
  <2>4. tx_wire_out' \in {0, 1} BY <1>2, <2>3, SMT DEF ShiftBit
  <2>5. TransmitterTypeOK' BY <1>2, <2>3, <2>4, Periods, SMT DEF ShiftBit
  <2>6. WireInSlot' BY <1>2, <2>3, SMT DEF ShiftBit
  <2> QED BY <1>2, <2>2, <2>3, <2>5, <2>6 DEF ShiftBit
<1>3. CASE EndByte
  <2>1. TxTime = 10 * TxPeriod - 1
    <3>1. bit_count * TxPeriod = 9 * TxPeriod BY <1>3 DEF EndByte
    <3> QED BY <1>3, <3>1, Periods, SMT DEF EndByte, TxTime
  <2>2. NoByte \in Byte BY DEF NoByte
  <2>3. /\ busy_out' = FALSE /\ tx_wire_out' = 1
        /\ tx_cycle_count' = 0 /\ bit_count' = 0 /\ data_in_buffer' \in Byte
        BY <1>3, <2>2, Zenon DEF EndByte
  <2>4. 0 \in 0 .. TxPeriod - 1 /\ 0 \in 0 .. 9 BY Periods, SMT
  <2>5. TransmitterTypeOK' BY <2>3, <2>4, Zenon
  <2>6. WireInSlot' BY <2>3, Zenon
  <2> QED BY <2>1, <2>3, <2>5, <2>6, Zenon
<1> QED BY <1>1, <1>2, <1>3 DEF Transmit

\* A receiver that is not done with its byte keeps its type and counts on.
LEMMA ReceiverTypeStep ==
    ASSUME LinkInv, NEW wire \in {0, 1}, Receive(wire)
    PROVE  /\ ReceiverTypeOK' /\ ReceiverAtRest'
           /\ ~idle /\ ~idle' => RxTime' = RxTime + 1
           /\ idle => RxTime' = 0
<1> USE DEF LinkInv, LinkTypeOK, ReceiverTypeOK, ReceiverAtRest
<1>0. (bit_index + 1) * RxPeriod = bit_index * RxPeriod + RxPeriod /\ bit_index * RxPeriod \in Int
      BY Periods, SMT
<1>1. CASE Idle(wire) BY <1>1, Periods DEF Idle, RxTime
<1>2. CASE WaitForSample
  <2>1. ReceiverTypeOK' /\ ReceiverAtRest'
        BY <1>2, Periods, SMT DEF WaitForSample, SampleDue, Half
  <2>2. RxTime' = RxTime + 1 BY <1>0, <1>2, Periods, SMT DEF WaitForSample, RxTime
  <2> QED BY <1>2, <2>1, <2>2 DEF WaitForSample
<1>3. CASE CheckStart(wire)
  <2>1. ReceiverTypeOK' /\ ReceiverAtRest'
        BY <1>3, Periods, SMT DEF CheckStart
  <2>2. ~idle' => RxTime' = RxTime + 1
    <3> SUFFICES ASSUME ~idle' PROVE RxTime' = RxTime + 1 OBVIOUS
    <3>1. check_start_bit' /\ bit_index' = 0 /\ rx_cycle_count' = 0 BY <1>3 DEF CheckStart
    <3>2. RxTime' = Half
      <4>1. bit_index' * RxPeriod = 0 BY <3>1, Periods, SMT
      <4> QED BY <3>1, <4>1, Periods, SMT DEF RxTime, Half
    <3>3. RxTime = Half - 1 BY <1>3, SMT DEF CheckStart, SampleDue, RxTime, Half
    <3> QED BY <3>2, <3>3, Periods, SMT
  <2> QED BY <1>3, <2>1, <2>2 DEF CheckStart
<1>4. CASE SampleBit(wire)
  <2>1. ReceiverTypeOK' /\ ReceiverAtRest'
    <3>1. bit_index \in 0 .. 7 /\ bit_index' \in 0 .. 8 BY <1>4, SMT DEF SampleBit
    <3>2. data_out_buffer' \in [0 .. 7 -> {0, 1}] BY <1>4, <3>1 DEF SampleBit
    <3>3. /\ check_start_bit /\ rx_cycle_count' = 0
          /\ UNCHANGED <<new_data_out, data_byte_out, busy_in, idle, check_start_bit>>
          BY <1>4, Zenon DEF SampleBit
    <3>4. 0 \in 0 .. RxPeriod - 1 BY Periods, SMT
    <3>5. ReceiverTypeOK' BY <3>1, <3>2, <3>3, <3>4, Zenon
    <3>6. ReceiverAtRest' BY <3>3, Zenon
    <3> QED BY <3>5, <3>6
  <2>2. RxTime' = RxTime + 1
    <3>1. rx_cycle_count = RxPeriod - 1 /\ rx_cycle_count' = 0 /\ check_start_bit' = check_start_bit
          BY <1>4, SMT DEF SampleBit, SampleDue
    <3>2. bit_index' * RxPeriod = (bit_index + 1) * RxPeriod BY <1>4 DEF SampleBit
    <3>3. check_start_bit BY <1>4 DEF SampleBit
    <3> QED BY <1>0, <3>1, <3>2, <3>3, Periods, SMT DEF RxTime, Half
  <2> QED BY <1>4, <2>1, <2>2 DEF SampleBit
<1>5. CASE CheckStop(wire)
  <2>1. Zeros \in [0 .. 7 -> {0, 1}] BY DEF Zeros
  <2>2. ReceiverTypeOK' /\ ReceiverAtRest'
    <3>1. /\ busy_in' = FALSE /\ idle' = TRUE /\ check_start_bit' = FALSE
          /\ rx_cycle_count' = 0 /\ bit_index' = 0
          /\ data_out_buffer' \in [0 .. 7 -> {0, 1}]
          BY <1>5, <2>1, Zenon DEF CheckStop
    <3>2. new_data_out' \in BOOLEAN /\ data_byte_out' \in [0 .. 7 -> {0, 1}]
          BY <1>5, Zenon DEF CheckStop
    <3>3. 0 \in 0 .. RxPeriod - 1 /\ 0 \in 0 .. 8 BY Periods, SMT
    <3>4. ReceiverTypeOK' BY <3>1, <3>2, <3>3, Zenon
    <3>5. ReceiverAtRest' BY <3>1, Periods, SMT
    <3> QED BY <3>4, <3>5
  <2> QED BY <1>5, <2>2 DEF CheckStop
<1> QED BY <1>1, <1>2, <1>3, <1>4, <1>5 DEF Receive

-----------------------------------------------------------------------------
(* Every action keeps the invariant and is a step of the channel.           *)

ChannelStep == [Channel!ChannelNext]_(Channel!channelvars)

LEMMA QuietChannel ==
    ASSUME inflight' = inflight, data_byte_out' = data_byte_out,
           new_data_out' = new_data_out \/ new_data_out' = FALSE
    PROVE  ChannelStep
BY DEF ChannelStep, Channel!ChannelNext, Channel!Withdraw, Channel!channelvars

\* The byte ends after its stop bit has been looked at: no sample is left then.
LEMMA NotYetOver ==
    ASSUME LinkInv, inflight # <<>>, ~idle, ~(check_start_bit /\ bit_index = 8 /\ SampleDue)
    PROVE  TxTime # 10 * TxPeriod - 1
<1>1. /\ bit_index \in 0 .. 8 /\ rx_cycle_count \in 0 .. RxPeriod - 1
      /\ bit_count \in 0 .. 9 /\ tx_cycle_count \in 0 .. TxPeriod - 1
      /\ ~check_start_bit => rx_cycle_count < Half
      BY DEF LinkInv, LinkTypeOK, TransmitterTypeOK, ReceiverTypeOK, ReceiverAtRest
<1>2. RxTime - TxTime >= -1 /\ TxTime \in Int BY <1>1, Periods DEF LinkInv, InStep, TxTime
<1>3. RxTime \in Int /\ RxTime <= Half + 9 * RxPeriod - 2
  <2>1. CASE ~check_start_bit BY <1>1, <2>1, Periods, SMT DEF RxTime
  <2>2. CASE check_start_bit /\ bit_index = 8
    <3>1. rx_cycle_count # RxPeriod - 1 BY <2>2, Zenon DEF SampleDue
    <3>2. bit_index * RxPeriod = 8 * RxPeriod BY <2>2
    <3>3. RxTime = Half + 8 * RxPeriod + rx_cycle_count BY <2>2, <3>2 DEF RxTime
    <3> QED BY <1>1, <3>1, <3>3, Periods, SMT
  <2>3. CASE check_start_bit /\ bit_index # 8
    <3>1. bit_index * RxPeriod \in Int /\ bit_index * RxPeriod <= 7 * RxPeriod
          BY <1>1, <2>3, Periods, SMT
    <3>2. RxTime = Half + bit_index * RxPeriod + rx_cycle_count BY <2>3 DEF RxTime
    <3> QED BY <1>1, <3>1, <3>2, Periods, SMT
  <2> QED BY <2>1, <2>2, <2>3
<1> QED BY <1>2, <1>3, Periods, SMT

\* While the receiver is still at a byte in flight both count on together.
LEMMA StillInFlight ==
    ASSUME LinkInv, Busy, inflight # <<>>, ~idle,
           WaitForSample \/ CheckStart(tx_wire_out) \/ SampleBit(tx_wire_out)
    PROVE  LinkInv' /\ ChannelStep
<1>1. ~(check_start_bit /\ bit_index = 8 /\ SampleDue)
      BY Zenon DEF WaitForSample, CheckStart, SampleBit
<1>2. Transmit /\ Receive(tx_wire_out) /\ tx_wire_out \in {0, 1}
      BY DEF Busy, Receive, LinkInv, LinkTypeOK, TransmitterTypeOK
<1>3. /\ busy_out' /\ TxTime' = TxTime + 1 /\ UNCHANGED data_in_buffer
      /\ TransmitterTypeOK' /\ WireInSlot'
      BY <1>1, <1>2, NotYetOver, TransmitKeeps, Zenon
<1>4. new_data_out' = new_data_out /\ data_byte_out' = data_byte_out
      BY DEF WaitForSample, CheckStart, SampleBit
<1>5. inflight' = inflight BY <1>4 DEF Busy, Announced
<1>6. ~idle'
  <2>1. CASE CheckStart(tx_wire_out)
    <3>1. bit_count = 0 BY <2>1, StartInSlot, Zenon DEF CheckStart
    <3>2. busy_out BY DEF LinkInv, InStep
    <3>3. tx_wire_out = 0 BY <3>1, <3>2 DEF LinkInv, WireInSlot
    <3>4. idle' = (tx_wire_out = 1) BY <2>1, Zenon DEF CheckStart
    <3>5. ~(tx_wire_out = 1) BY <3>3, SMT
    <3> QED BY <3>4, <3>5, Zenon
  <2>2. CASE WaitForSample \/ SampleBit(tx_wire_out) BY <2>2, Zenon DEF WaitForSample, SampleBit
  <2> QED BY <2>1, <2>2
<1>7. ReceiverTypeOK' /\ ReceiverAtRest' /\ RxTime' = RxTime + 1
      BY <1>2, <1>6, ReceiverTypeStep, Zenon
<1>8. \A i \in 0 .. 7 : i < bit_index' => data_out_buffer'[i] = data_in_buffer'[i]
  <2> USE DEF LinkInv, InStep
  <2>1. CASE WaitForSample \/ CheckStart(tx_wire_out)
        BY <1>3, <2>1 DEF WaitForSample, CheckStart
  <2>2. CASE SampleBit(tx_wire_out)
    <3>1. bit_count = bit_index + 1 BY <2>2, SampleInSlot, Zenon DEF SampleBit
    <3>2. bit_index \in 0 .. 7 BY <2>2, SMT DEF SampleBit, LinkTypeOK, ReceiverTypeOK
    <3>3. tx_wire_out = data_in_buffer[bit_index] BY <3>1, <3>2, SMT DEF WireInSlot
    <3>4. data_out_buffer \in [0 .. 7 -> {0, 1}] BY DEF LinkTypeOK, ReceiverTypeOK
    <3>5. bit_index' = bit_index + 1 /\ data_out_buffer' = [data_out_buffer EXCEPT ![bit_index] = tx_wire_out]
          BY <2>2 DEF SampleBit
    <3> QED BY <1>3, <3>2, <3>3, <3>4, <3>5, SMT
  <2> QED BY <2>1, <2>2
<1>9. RxTime' - TxTime' \in -1 .. Half - 1
  <2>1. RxTime - TxTime \in -1 .. Half - 1 BY DEF LinkInv, InStep
  <2>2. /\ bit_index \in 0 .. 8 /\ rx_cycle_count \in 0 .. RxPeriod - 1
        /\ bit_count \in 0 .. 9 /\ tx_cycle_count \in 0 .. TxPeriod - 1
        BY DEF LinkInv, LinkTypeOK, TransmitterTypeOK, ReceiverTypeOK
  <2>3. TxTime \in Int /\ RxTime \in Int BY <2>2, Periods, SMT DEF TxTime, RxTime
  <2> QED BY <1>3, <1>7, <2>1, <2>3, Periods, SMT
<1>10. InStep' BY <1>3, <1>5, <1>6, <1>8, <1>9, Zenon DEF LinkInv, InStep
<1>11. NothingInFlight' BY <1>5, Zenon DEF NothingInFlight
<1>12. LinkTypeOK' BY <1>3, <1>5, <1>7 DEF LinkInv, LinkTypeOK
<1> QED BY <1>3, <1>4, <1>5, <1>7, <1>10, <1>11, <1>12, QuietChannel, Zenon DEF LinkInv

\* The edge at which the receiver sees the start bit.
LEMMA SeenInFlight ==
    ASSUME LinkInv, Busy, inflight # <<>>, Idle(tx_wire_out)
    PROVE  LinkInv' /\ ChannelStep
<1>1. idle /\ TxTime = 0 /\ busy_out BY DEF Idle, LinkInv, InStep
<1>2. Transmit /\ Receive(tx_wire_out) /\ tx_wire_out \in {0, 1}
      BY DEF Busy, Receive, LinkInv, LinkTypeOK, TransmitterTypeOK
<1>3. bit_count = 0
  <2>1. bit_count \in 0 .. 9 /\ tx_cycle_count \in Nat
        BY Periods DEF LinkInv, LinkTypeOK, TransmitterTypeOK
  <2>2. bit_count # 0 => bit_count * TxPeriod >= TxPeriod BY <2>1, Periods, SMT
  <2>3. bit_count * TxPeriod \in Int BY <2>1, Periods, SMT
  <2> QED BY <1>1, <2>1, <2>2, <2>3, Periods, SMT DEF TxTime
<1>4. tx_wire_out = 0 BY <1>1, <1>3 DEF LinkInv, WireInSlot
<1>5. TxTime # 10 * TxPeriod - 1 BY <1>1, Periods, SMT
<1>6. /\ busy_out' /\ TxTime' = TxTime + 1 /\ UNCHANGED data_in_buffer
      /\ TransmitterTypeOK' /\ WireInSlot'
      BY <1>2, <1>5, TransmitKeeps, Zenon
<1>7. ReceiverTypeOK' /\ ReceiverAtRest' /\ RxTime' = 0
      BY <1>1, <1>2, ReceiverTypeStep, Zenon
<1>8. /\ new_data_out' = FALSE /\ data_byte_out' = data_byte_out
      /\ bit_index' = bit_index /\ data_out_buffer' = data_out_buffer
      /\ idle' = (tx_wire_out = 1)
      BY Zenon DEF Idle
<1>9. ~idle'
  <2>1. ~(tx_wire_out = 1) BY <1>4, SMT
  <2> QED BY <1>8, <2>1, Zenon
<1>10. inflight' = inflight BY <1>8, Zenon DEF Busy, Announced
<1>11. RxTime' - TxTime' \in -1 .. Half - 1 BY <1>1, <1>6, <1>7, Periods, SMT
<1>12. \A i \in 0 .. 7 : i < bit_index' => data_out_buffer'[i] = data_in_buffer'[i]
       BY <1>6, <1>8, Zenon DEF LinkInv, InStep
<1>13. InStep' BY <1>6, <1>9, <1>10, <1>11, <1>12, Zenon DEF LinkInv, InStep
<1>14. NothingInFlight' BY <1>10, Zenon DEF NothingInFlight
<1>15. LinkTypeOK' BY <1>6, <1>7, <1>10 DEF LinkInv, LinkTypeOK
<1> QED BY <1>6, <1>7, <1>8, <1>10, <1>13, <1>14, <1>15, QuietChannel, Zenon DEF LinkInv

\* The stop bit: the byte is announced as it was accepted.
LEMMA StopAnnounces ==
    ASSUME LinkInv, Busy, inflight # <<>>, CheckStop(tx_wire_out)
    PROVE  LinkInv' /\ ChannelStep
<1>1. Transmit /\ Receive(tx_wire_out) /\ tx_wire_out \in {0, 1}
      BY DEF Busy, Receive, LinkInv, LinkTypeOK, TransmitterTypeOK
<1>2. /\ busy_out /\ inflight = <<data_in_buffer>>
      /\ \A i \in 0 .. 7 : i < bit_index => data_out_buffer[i] = data_in_buffer[i]
      BY DEF LinkInv, InStep
<1>3. bit_count = 9
  <2>1. bit_count = bit_index + 1 BY SampleInSlot, Zenon DEF CheckStop
  <2>2. bit_index = 8 BY Zenon DEF CheckStop
  <2> QED BY <2>1, <2>2, SMT
<1>4. tx_wire_out = 1 BY <1>2, <1>3 DEF LinkInv, WireInSlot
<1>5. /\ new_data_out' = TRUE /\ data_byte_out' = data_out_buffer
      /\ idle' = TRUE /\ check_start_bit' = FALSE
      BY <1>4, Zenon DEF CheckStop
<1>6. data_out_buffer = data_in_buffer
  <2>1. data_out_buffer \in [0 .. 7 -> {0, 1}] /\ data_in_buffer \in [0 .. 7 -> {0, 1}]
        BY DEF LinkInv, LinkTypeOK, TransmitterTypeOK, ReceiverTypeOK, Byte
  <2>2. bit_index = 8 BY Zenon DEF CheckStop
  <2>3. \A i \in 0 .. 7 : data_out_buffer[i] = data_in_buffer[i] BY <1>2, <2>2, SMT
  <2> QED BY <2>1, <2>3, SMT
<1>7. ~new_data_out BY Zenon DEF CheckStop, LinkInv, ReceiverAtRest
<1>8. inflight' = <<>> BY <1>5, <1>7, Zenon DEF Busy, Announced
<1>9. TransmitterTypeOK' /\ WireInSlot' /\ (busy_out' => bit_count' = 9)
      BY <1>1, <1>3, TransmitKeeps, Zenon
<1>10. ReceiverTypeOK' /\ ReceiverAtRest' BY <1>1, ReceiverTypeStep, Zenon
<1>11. LinkTypeOK' BY <1>8, <1>9, <1>10 DEF LinkTypeOK
<1>12. NothingInFlight' BY <1>5, <1>9, Zenon DEF NothingInFlight
<1>13. InStep' BY <1>8, Zenon DEF InStep
<1>14. ChannelStep
  <2>1. data_byte_out' = inflight[1] BY <1>2, <1>5, <1>6, SMT
  <2>2. Channel!Announce BY <1>5, <1>8, <2>1, Zenon DEF Channel!Announce
  <2> QED BY <2>2, Zenon DEF ChannelStep, Channel!ChannelNext
<1> QED BY <1>9, <1>10, <1>11, <1>12, <1>13, <1>14, Zenon DEF LinkInv

LEMMA BusyKeeps == LinkInv /\ Busy => LinkInv' /\ ChannelStep
<1> SUFFICES ASSUME LinkInv, Busy PROVE LinkInv' /\ ChannelStep OBVIOUS
<1>1. CASE inflight = <<>>
  <2>1. Transmit /\ Receive(tx_wire_out) /\ tx_wire_out \in {0, 1}
        BY DEF Busy, LinkInv, LinkTypeOK, TransmitterTypeOK
  <2>2. busy_out BY <2>1, Zenon DEF Transmit, HoldBit, ShiftBit, EndByte
  <2>3. ~check_start_bit /\ idle /\ bit_count = 9 BY <1>1, <2>2, Zenon DEF LinkInv, NothingInFlight
  <2>4. tx_wire_out = 1 BY <2>2, <2>3 DEF LinkInv, WireInSlot
  <2>5. Idle(tx_wire_out)
        BY <2>1, <2>3, Zenon DEF Receive, WaitForSample, CheckStart, SampleBit, CheckStop
  <2>6. /\ idle' = (tx_wire_out = 1) /\ new_data_out' = FALSE
        /\ data_byte_out' = data_byte_out /\ check_start_bit' = check_start_bit
        BY <2>5, Zenon DEF Idle
  <2>7. idle' BY <2>4, <2>6, Zenon
  <2>8. inflight' = inflight BY <2>6, Zenon DEF Busy, Announced
  <2>9. TransmitterTypeOK' /\ WireInSlot' /\ (busy_out' => bit_count' = 9)
        BY <2>1, <2>3, TransmitKeeps, Zenon
  <2>10. ReceiverTypeOK' /\ ReceiverAtRest' BY <2>1, ReceiverTypeStep, Zenon
  <2>11. LinkTypeOK' BY <2>8, <2>9, <2>10 DEF LinkInv, LinkTypeOK
  <2>12. NothingInFlight' BY <2>3, <2>6, <2>7, <2>9, Zenon DEF NothingInFlight
  <2>13. InStep' BY <1>1, <2>8, Zenon DEF InStep
  <2> QED BY <2>6, <2>8, <2>9, <2>10, <2>11, <2>12, <2>13, QuietChannel, Zenon DEF LinkInv
<1>2. CASE inflight # <<>>
  <2>1. \/ Idle(tx_wire_out) \/ CheckStop(tx_wire_out)
        \/ ~idle /\ (WaitForSample \/ CheckStart(tx_wire_out) \/ SampleBit(tx_wire_out))
        BY Zenon DEF Busy, Receive, WaitForSample, CheckStart, SampleBit
  <2> QED BY <1>2, <2>1, SeenInFlight, StopAnnounces, StillInFlight, Zenon
<1> QED BY <1>1, <1>2

\* The idle transmitter: the receiver waits, looks at a dip, or sees one.
LEMMA RestingReceiver ==
    ASSUME LinkInv, ~busy_out, NEW wire \in {0, 1}, Receive(wire), wire = 1 \/ idle
    PROVE  /\ inflight = <<>> /\ ReceiverTypeOK' /\ ReceiverAtRest' /\ ~check_start_bit'
           /\ new_data_out' = FALSE /\ data_byte_out' = data_byte_out
           /\ bit_index' = 0
           /\ ~idle' /\ ~idle => RxTime' = RxTime + 1
           /\ idle /\ wire = 1 => idle'
<1>1. inflight = <<>> BY DEF LinkInv, InStep
<1>2. ~check_start_bit BY <1>1, Zenon DEF LinkInv, NothingInFlight
<1>3. /\ ReceiverTypeOK' /\ ReceiverAtRest'
      /\ ~idle' /\ ~idle => RxTime' = RxTime + 1
      BY ReceiverTypeStep, Zenon
<1>4. Idle(wire) \/ WaitForSample \/ CheckStart(wire)
      BY <1>2, Zenon DEF Receive, SampleBit, CheckStop
<1>5. ~idle => wire = 1 OBVIOUS
<1>6. wire = 1 => ~(wire = 0) BY SMT
<1>7. ~check_start_bit' BY <1>2, <1>4, <1>5, <1>6, Zenon DEF Idle, WaitForSample, CheckStart
<1>8. new_data_out' = FALSE /\ data_byte_out' = data_byte_out
  <2>1. ~idle => new_data_out = FALSE
        BY Zenon DEF LinkInv, LinkTypeOK, ReceiverAtRest, ReceiverTypeOK
  <2> QED BY <1>4, <2>1, Zenon DEF Idle, WaitForSample, CheckStart
<1>9. bit_index' = 0 BY <1>3, <1>7, Zenon DEF ReceiverAtRest
<1>10. idle /\ wire = 1 => idle' BY <1>4, Zenon DEF Idle, WaitForSample, CheckStart
<1> QED BY <1>1, <1>3, <1>7, <1>8, <1>9, <1>10

LEMMA SendingKeeps ==
    ASSUME LinkInv, NEW byte \in Bytes, Sending(byte)
    PROVE  LinkInv' /\ ChannelStep
<1>1. Accept(byte) /\ Receive(tx_wire_out) /\ ~busy_out BY Zenon DEF Sending, Accept
<1>2. tx_wire_out = 1 /\ bit_count = 0 /\ tx_wire_out \in {0, 1}
      BY <1>1, Zenon DEF LinkInv, WireInSlot, LinkTypeOK, TransmitterTypeOK
<1>3. /\ inflight = <<>> /\ ReceiverTypeOK' /\ ReceiverAtRest' /\ ~check_start_bit'
      /\ new_data_out' = FALSE /\ data_byte_out' = data_byte_out /\ bit_index' = 0
      /\ ~idle' /\ ~idle => RxTime' = RxTime + 1
      /\ idle => idle'
      BY <1>1, <1>2, RestingReceiver, Zenon
<1>4. /\ busy_out' = TRUE /\ tx_wire_out' = 0 /\ tx_cycle_count' = 0
      /\ data_in_buffer' = byte /\ bit_count' = 0 /\ inflight' = <<byte>>
      BY <1>1, <1>2, Zenon DEF Accept, Sending
<1>5. byte \in Byte BY LinkAssumption
<1>6. TransmitterTypeOK' BY <1>4, <1>5, Periods, SMT DEF TransmitterTypeOK
<1>7. WireInSlot' BY <1>4, SMT DEF WireInSlot
<1>8. LinkTypeOK' BY <1>3, <1>4, <1>6 DEF LinkTypeOK
<1>9. inflight' # <<>> BY <1>4
<1>10. NothingInFlight' BY <1>9, Zenon DEF NothingInFlight
<1>11. InStep'
  <2>1. TxTime' = 0
    <3>1. bit_count' * TxPeriod = 0 BY <1>4, Periods, SMT
    <3> QED BY <1>4, <3>1, SMT DEF TxTime
  <2>2. ~idle' => RxTime' - TxTime' \in -1 .. Half - 1
    <3> SUFFICES ASSUME ~idle' PROVE RxTime' - TxTime' \in -1 .. Half - 1 OBVIOUS
    <3>1. RxTime' = rx_cycle_count' BY <1>3, Zenon DEF RxTime
    <3>2. rx_cycle_count' \in Nat /\ rx_cycle_count' < Half
          BY <1>3, Periods DEF ReceiverTypeOK, ReceiverAtRest
    <3>3. \A x \in Nat : x < Half => x - 0 \in -1 .. Half - 1 BY Periods, SMT
    <3>4. rx_cycle_count' - 0 \in -1 .. Half - 1 BY <3>2, <3>3, Zenon
    <3> QED BY <2>1, <3>1, <3>4, Zenon
  <2>3. \A i \in 0 .. 7 : ~(i < bit_index') BY <1>3, SMT
  <2> QED BY <1>4, <2>1, <2>2, <2>3, Zenon DEF InStep
<1>12. ChannelStep
  <2>1. Channel!Send(byte) BY <1>3, <1>4, Zenon DEF Channel!Send
  <2> QED BY <2>1, Zenon DEF ChannelStep, Channel!ChannelNext
<1> QED BY <1>3, <1>7, <1>8, <1>10, <1>11, <1>12, Zenon DEF LinkInv

LEMMA RestingKeeps == LinkInv /\ (Quiet \/ Dip) => LinkInv' /\ ChannelStep
<1> SUFFICES ASSUME LinkInv, NEW wire \in {0, 1}, wire = 1 \/ idle,
                    ~busy_out, UNCHANGED txvars, Receive(wire), Announced
             PROVE  LinkInv' /\ ChannelStep
  <2>1. LinkInv /\ ~busy_out => tx_wire_out = 1 BY Zenon DEF LinkInv, WireInSlot
  <2>2. LinkInv => tx_wire_out \in {0, 1} BY DEF LinkInv, LinkTypeOK, TransmitterTypeOK
  <2>3. 0 \in {0, 1} OBVIOUS
  <2> QED BY <2>1, <2>2, <2>3, Zenon DEF Quiet, Dip
<1>1. /\ inflight = <<>> /\ ReceiverTypeOK' /\ ReceiverAtRest' /\ ~check_start_bit'
      /\ new_data_out' = FALSE /\ data_byte_out' = data_byte_out
      BY RestingReceiver, Zenon
<1>2. inflight' = inflight BY <1>1, Zenon DEF Announced
<1>3. TransmitterTypeOK' /\ WireInSlot' /\ ~busy_out'
      BY Zenon DEF txvars, LinkInv, LinkTypeOK, TransmitterTypeOK, WireInSlot
<1>4. LinkTypeOK' BY <1>1, <1>2, <1>3 DEF LinkInv, LinkTypeOK
<1>5. NothingInFlight' BY <1>1, <1>3, Zenon DEF NothingInFlight
<1>6. InStep' BY <1>1, <1>2, Zenon DEF InStep
<1> QED BY <1>1, <1>2, <1>3, <1>4, <1>5, <1>6, QuietChannel, Zenon DEF LinkInv

LEMMA LinkInvInit == LinkInit => LinkInv /\ Channel!ChannelInit
<1> SUFFICES ASSUME LinkInit PROVE LinkInv /\ Channel!ChannelInit OBVIOUS
<1>1. NoByte \in Byte /\ Zeros \in [0 .. 7 -> {0, 1}] /\ Zeros = NoByte BY DEF NoByte, Zeros, Byte
<1>2. 0 \in 0 .. TxPeriod - 1 /\ 0 \in 0 .. RxPeriod - 1 /\ 0 \in 0 .. 9 /\ 0 \in 0 .. 8
      BY Periods, SMT
<1> USE DEF LinkInit, TransmitterInit, ReceiverInit
<1>3. TransmitterTypeOK BY <1>1, <1>2, Zenon DEF TransmitterTypeOK
<1>4. ReceiverTypeOK BY <1>1, <1>2, Zenon DEF ReceiverTypeOK
<1>5. LinkTypeOK BY <1>3, <1>4 DEF LinkTypeOK
<1>6. WireInSlot /\ NothingInFlight /\ InStep BY Zenon DEF WireInSlot, NothingInFlight, InStep
<1>7. ReceiverAtRest BY Periods, SMT DEF ReceiverAtRest
<1>8. Channel!ChannelInit BY <1>1, Zenon DEF Channel!ChannelInit
<1> QED BY <1>5, <1>6, <1>7, <1>8, Zenon DEF LinkInv

LEMMA ResetKeeps == LinkReset => LinkInv' /\ ChannelStep
<1> SUFFICES ASSUME LinkReset PROVE LinkInv' /\ ChannelStep OBVIOUS
<1>1. NoByte \in Byte /\ Zeros \in [0 .. 7 -> {0, 1}] /\ Zeros = NoByte BY DEF NoByte, Zeros, Byte
<1>2. 0 \in 0 .. TxPeriod - 1 /\ 0 \in 0 .. RxPeriod - 1 /\ 0 \in 0 .. 9 /\ 0 \in 0 .. 8
      BY Periods, SMT
<1> USE DEF LinkReset, TransmitterReset, ReceiverReset
<1>3. TransmitterTypeOK' BY <1>1, <1>2, Zenon DEF TransmitterTypeOK
<1>4. ReceiverTypeOK' BY <1>1, <1>2, Zenon DEF ReceiverTypeOK
<1>5. LinkTypeOK' BY <1>3, <1>4 DEF LinkTypeOK
<1>6. WireInSlot' /\ NothingInFlight' /\ InStep' BY Zenon DEF WireInSlot, NothingInFlight, InStep
<1>7. ReceiverAtRest' BY Periods, SMT DEF ReceiverAtRest
<1>8. Channel!ChannelReset BY <1>1, Zenon DEF Channel!ChannelReset
<1> QED BY <1>5, <1>6, <1>7, <1>8, Zenon DEF LinkInv, ChannelStep, Channel!ChannelNext

LEMMA LinkInvStep == LinkInv /\ [LinkNext]_linkvars => LinkInv' /\ ChannelStep
<1>1. LinkInv /\ UNCHANGED linkvars => LinkInv' /\ ChannelStep
  <2> SUFFICES ASSUME LinkInv, UNCHANGED linkvars PROVE LinkInv' /\ ChannelStep OBVIOUS
  <2>1. LinkInv'
        BY Zenon DEF linkvars, txvars, rxvars, rxstate, LinkInv, LinkTypeOK, TransmitterTypeOK, ReceiverTypeOK,
           WireInSlot, ReceiverAtRest, NothingInFlight, InStep, TxTime, RxTime
  <2>2. ChannelStep BY QuietChannel, Zenon DEF linkvars, rxvars
  <2> QED BY <2>1, <2>2
<1> QED BY <1>1, SendingKeeps, BusyKeeps, RestingKeeps, ResetKeeps, Zenon DEF LinkNext, Edge

\* The link is a byte channel (uart_transmitter.sv and uart_receiver.sv at any
\* two bit periods that are Compatible): what is announced is what was accepted.
THEOREM LinkIsChannel == LinkSpec => IsByteChannel
<1>1. LinkInv /\ [LinkNext]_linkvars => LinkInv' /\ [Channel!ChannelNext]_(Channel!channelvars)
      BY LinkInvStep DEF ChannelStep
<1> QED BY <1>1, LinkInvInit, PTL DEF LinkSpec, IsByteChannel, Channel!ChannelSpec

BusyCoversByte == LinkTypeOK /\ (inflight # <<>> => busy_out)

\* The registers of both machines keep their types, and a byte is in flight only
\* while busy_out is high: the next one cannot come too early although the
\* receiver has no way to say that it is ready.
THEOREM BusyUntilAnnounced == LinkSpec => []BusyCoversByte
<1>1. LinkInv /\ [LinkNext]_linkvars => LinkInv' BY LinkInvStep
<1>2. LinkInv => BusyCoversByte BY DEF LinkInv, InStep, BusyCoversByte
<1> QED BY <1>1, <1>2, LinkInvInit, PTL DEF LinkSpec

=============================================================================
