--------------------------------- MODULE Tmds ---------------------------------
(***************************************************************************)
(* tmds_encoder.sv and the tm_choice.sv in it: eight bits of video become  *)
(* ten with few transitions, inverted when that keeps the ones and zeros   *)
(* of the line balanced; while there is no video, two control bits become  *)
(* one of four characters.                                                 *)
(***************************************************************************)
EXTENDS Integers, FiniteSets

CONSTANT Data       \* the video bytes the encoder is given

VARIABLES
    tally,          \* five bits
    q_out,
    last,           \* history: what the character on the output stands for
    disparity       \* history: ones minus zeros sent since the last control character

encodervars == <<tally, q_out, last, disparity>>

Ones(w) == Cardinality({i \in DOMAIN w : w[i] = 1})
Xor(a, b) == (a + b) % 2
Bits(d) == [i \in 0 .. 7 |-> (d \div 2 ^ i) % 2]
VideoBytes == {Bits(d) : d \in Data}

ASSUME DataAssumption == Data \subseteq 0 .. 255

-----------------------------------------------------------------------------
(* tm_choice                                                               *)

ChoosesXor(d) == ~(Ones(d) > 4 \/ (Ones(d) = 4 /\ d[0] = 0))

qm_out(d) ==
    LET opt == IF ChoosesXor(d) THEN 1 ELSE 0
        q[i \in 0 .. 7] == IF i = 0 THEN d[0] ELSE Xor(Xor(d[i], q[i - 1]), 1 - opt)
    IN  [i \in 0 .. 8 |-> IF i = 8 THEN opt ELSE q[i]]

\* The table of the combinational block, by byte.
q_m_of == [d \in VideoBytes |-> qm_out(d)]

-----------------------------------------------------------------------------
(* The encoder.                                                            *)

Signed(t) == IF t >= 16 THEN t - 32 ELSE t

Negative == tally >= 16

\* The mutant inverts the bit that names the chain, too.
MutChar(inverted, q_m) ==
    [i \in 0 .. 9 |-> IF i = 9 THEN inverted ELSE Xor(q_m[i], inverted)]

Char(inverted, q_m) ==
    [i \in 0 .. 9 |-> CASE i = 9 -> inverted
                        [] i = 8 -> q_m[8]
                        [] OTHER -> Xor(q_m[i], inverted)]

Balance(w) == 2 * Ones(w) - Cardinality(DOMAIN w)

\* n1 and n0 of the source: the ones and zeros of the eight data bits.
n1(q_m) == Cardinality({i \in 0 .. 7 : q_m[i] = 1})
n0(q_m) == 8 - n1(q_m)

ControlChar ==
    << <<1, 1, 0, 1, 0, 1, 0, 1, 0, 0>>, <<0, 0, 1, 0, 1, 0, 1, 0, 1, 1>>,
       <<0, 1, 0, 1, 0, 1, 0, 1, 0, 0>>, <<1, 0, 1, 0, 1, 0, 1, 0, 1, 1>> >>

\* control_in, as a number; the characters are written from bit 9 down.
Control(c) == [i \in 0 .. 9 |-> ControlChar[c + 1][10 - i]]

EncoderInit ==
    /\ tally = 0 /\ q_out = [i \in 0 .. 9 |-> 0]
    /\ last = <<"none", 0>> /\ disparity = 0

EncoderReset ==
    /\ tally' = 0 /\ q_out' = [i \in 0 .. 9 |-> 0]
    /\ last' = <<"none", 0>> /\ disparity' = 0

Blank(c) ==
    /\ tally' = 0 /\ q_out' = Control(c)
    /\ last' = <<"control", c>> /\ disparity' = 0

\* Whether the data bits are sent inverted.
Inverts(q_m) ==
    IF tally = 0 \/ n0(q_m) = n1(q_m) THEN q_m[8] = 0
    ELSE IF Negative THEN n0(q_m) > n1(q_m) ELSE n1(q_m) > n0(q_m)

\* The mutant leaves the two flag bits out.
MutTallyAfter(q_m) ==
    LET data == IF Inverts(q_m) THEN n0(q_m) - n1(q_m) ELSE n1(q_m) - n0(q_m)
    IN  (tally + data) % 32

\* The tally after a byte of video: the balance of the data bits, and of the two
\* bits that go with them unless there was nothing to balance.
TallyAfter(q_m) ==
    LET data == IF Inverts(q_m) THEN n0(q_m) - n1(q_m) ELSE n1(q_m) - n0(q_m)
        flags == IF tally = 0 \/ n0(q_m) = n1(q_m) THEN 0
                 ELSE IF Inverts(q_m) THEN 2 * q_m[8]
                 ELSE -2 * (1 - q_m[8])
    IN  (tally + flags + data) % 32

Video(d) ==
    LET q_m == q_m_of[d]
    IN  /\ q_out' = Char(IF Inverts(q_m) THEN 1 ELSE 0, q_m)
        /\ tally' = TallyAfter(q_m)
        /\ last' = <<"video", d>>
        /\ disparity' = disparity + Balance(q_out')

EncoderNext == EncoderReset \/ (\E c \in 0 .. 3 : Blank(c)) \/ (\E d \in VideoBytes : Video(d))

EncoderSpec == EncoderInit /\ [][EncoderNext]_encodervars

-----------------------------------------------------------------------------
(* The other end of the cable, which is not part of the repository: it     *)
(* undoes the inversion and then the chain of differences.                 *)

Decode(q) ==
    LET p == [i \in 0 .. 7 |-> Xor(q[i], q[9])]
    IN  [i \in 0 .. 7 |-> IF i = 0 THEN p[0] ELSE Xor(Xor(p[i], p[i - 1]), 1 - q[8])]

\* The characters of video decode to the bytes they were made from.
VideoDecodes == last[1] = "video" => Decode(q_out) = last[2]

\* The five-bit tally never overflows: it is the running disparity of the line.
TallyIsDisparity == Signed(tally) = disparity

=============================================================================
