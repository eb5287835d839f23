------------------------------- MODULE Display -------------------------------
(***************************************************************************)
(* The display side of top_level.sv: the timing generator of VideoTiming,  *)
(* the frame buffer read at a quarter of its coordinates, and the encoder  *)
(* of the blue channel, which also carries both syncs.  All are clocked by *)
(* clk_pixel; sys_rst reaches the generator and the encoder, but not the   *)
(* registers between them, and only the colours pass those registers:      *)
(* drawing and syncs go to the encoder at once.                            *)
(***************************************************************************)
EXTENDS VideoTiming, Tmds

CONSTANTS
    FRAME_WIDTH, FRAME_AREA,    \* the frame buffer
    Picture(_)                  \* its contents: the blue byte at an address

ASSUME DisplayAssumption ==
    /\ FRAME_WIDTH \in Nat \ {0} /\ FRAME_AREA \in Nat \ {0}
    /\ 0 \in Data
    /\ \A a \in 0 .. FRAME_AREA - 1 : Picture(a) \in Data

VARIABLES
    sbuf_r_addr, sbuf_r_valid,      \* what is asked of the frame buffer
    ram_data, sbuf_r_data,          \* its memory's and its output's register
    blue                            \* the byte on its way to the encoder

buffervars == <<sbuf_r_addr, sbuf_r_valid, ram_data, sbuf_r_data, blue>>
displayvars == <<vars, buffervars, encodervars>>

-----------------------------------------------------------------------------
\* 4x scaling; the address has as many bits as the frame buffer needs.
ScaledAddr(h, v) == ((h \div 4) + FRAME_WIDTH * (v \div 4)) % FRAME_AREA

\* The mutant takes the colour from the memory's register, an edge early.
MutReadBuffer ==
    /\ sbuf_r_addr' = ScaledAddr(hcount_out, vcount_out)
    /\ sbuf_r_valid' = Level(hcount_out < ACTIVE_H_PIXELS /\ vcount_out < ACTIVE_LINES)
    /\ ram_data' = Picture(sbuf_r_addr)
    /\ sbuf_r_data' = ram_data
    /\ blue' = IF sbuf_r_valid = 1 THEN ram_data ELSE 0

\* The frame buffer has registers at its memory and at its output.
ReadBuffer ==
    /\ sbuf_r_addr' = ScaledAddr(hcount_out, vcount_out)
    /\ sbuf_r_valid' = Level(hcount_out < ACTIVE_H_PIXELS /\ vcount_out < ACTIVE_LINES)
    /\ ram_data' = Picture(sbuf_r_addr)
    /\ sbuf_r_data' = ram_data
    /\ blue' = IF sbuf_r_valid = 1 THEN sbuf_r_data ELSE 0

Encode ==
    IF ad_out = 1 THEN Video(Bits(blue))
                  ELSE Blank(2 * vs_out + hs_out)

DisplayInit ==
    /\ Init /\ EncoderInit
    /\ sbuf_r_addr = 0 /\ sbuf_r_valid = 0 /\ ram_data = 0 /\ sbuf_r_data = 0 /\ blue = 0

DisplayReset == Reset /\ EncoderReset /\ ReadBuffer

DisplayEdge == Step /\ Encode /\ ReadBuffer

DisplayNext == DisplayEdge \/ DisplayReset

DisplaySpec == DisplayInit /\ [][DisplayNext]_displayvars

-----------------------------------------------------------------------------
\* The blue of the pixel that column h of line v asks the buffer for.
Asked(h, v) == Bits(Picture(ScaledAddr(h, v)))

\* What the display is sent at the position the counters are at: off screen, the
\* syncs of this very position; on screen, what was asked for four pixels before,
\* so that the picture is one of the buffer's pixels too far to the right.  A line
\* below the first begins with two black pixels and two asked for off screen, at
\* the end of the line above.
PixelSent ==
    IF ~Drawing THEN q_out' = Control(2 * Level(InVSync) + Level(InHSync))
    ELSE LET sent == Decode(q_out')
         IN  /\ hcount_out >= 4 => sent = Asked(hcount_out - 4, vcount_out)
             /\ hcount_out \in 0 .. 1 /\ vcount_out > 0 => sent = Bits(0)
             /\ hcount_out \in 2 .. 3 /\ vcount_out > 0 =>
                    sent = Asked(TOTAL_PIXELS + hcount_out - 4, vcount_out - 1)

\* Every edge but a reset, which clears the encoder, sends its position's pixel.
PictureOnScreen == [][PixelSent \/ q_out' = [i \in 0 .. 9 |-> 0]]_displayvars

=============================================================================
