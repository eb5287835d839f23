----------------------------- MODULE VideoTiming -----------------------------
(***************************************************************************)
(* video_sig_gen of vsg.sv: counters over the pixels of a line and the     *)
(* lines of a frame, and the signals derived from them, each held in a     *)
(* register that is set and cleared as the counters go by.                 *)
(***************************************************************************)
EXTENDS Integers

CONSTANTS
    ACTIVE_H_PIXELS, H_FRONT_PORCH, H_SYNC_WIDTH, H_BACK_PORCH,
    ACTIVE_LINES, V_FRONT_PORCH, V_SYNC_WIDTH, V_BACK_PORCH

\* The porches the state machine needs: each of its transitions has a pixel or a
\* line of its own.
ASSUME TimingAssumption ==
    /\ ACTIVE_H_PIXELS \in Nat \ {0} /\ H_FRONT_PORCH \in Nat \ {0}
    /\ H_SYNC_WIDTH \in Nat \ {0} /\ H_BACK_PORCH \in Nat \ {0}
    /\ ACTIVE_LINES \in Nat \ {0} /\ V_FRONT_PORCH \in Nat \ {0}
    /\ V_SYNC_WIDTH \in Nat \ {0} /\ V_BACK_PORCH \in Nat \ {0}

VARIABLES hcount_out, vcount_out, vs_out, hs_out, ad_out, nf_out, fc_out

vars == <<hcount_out, vcount_out, vs_out, hs_out, ad_out, nf_out, fc_out>>

TOTAL_PIXELS == ACTIVE_H_PIXELS + H_FRONT_PORCH + H_SYNC_WIDTH + H_BACK_PORCH
TOTAL_LINES == ACTIVE_LINES + V_FRONT_PORCH + V_SYNC_WIDTH + V_BACK_PORCH
H_SYNC_HI == TOTAL_PIXELS - H_SYNC_WIDTH - H_BACK_PORCH - 1
H_SYNC_LO == TOTAL_PIXELS - H_BACK_PORCH - 1
V_SYNC_HI == TOTAL_LINES - V_SYNC_WIDTH - V_BACK_PORCH
V_SYNC_LO == TOTAL_LINES - V_BACK_PORCH

\* The level of a wire.
Level(condition) == IF condition THEN 1 ELSE 0

TypeOK ==
    /\ hcount_out \in 0 .. TOTAL_PIXELS - 1 /\ vcount_out \in 0 .. TOTAL_LINES - 1
    /\ vs_out \in 0 .. 1 /\ hs_out \in 0 .. 1 /\ ad_out \in 0 .. 1 /\ nf_out \in 0 .. 1
    /\ fc_out \in 0 .. 63

Init ==
    /\ hcount_out = 0 /\ vcount_out = 0 /\ ad_out = 1 /\ fc_out = 0
    /\ vs_out = 0 /\ hs_out = 0 /\ nf_out = 0

Reset ==
    /\ hcount_out' = 0 /\ vcount_out' = 0 /\ ad_out' = 1 /\ fc_out' = 0
    /\ vs_out' = 0 /\ hs_out' = 0 /\ nf_out' = 0


EndOfLine == hcount_out = TOTAL_PIXELS - 1

\* Pixels that are drawn: all that happens is that drawing ends.
DrawPixel ==
    /\ ad_out = 1
    /\ ad_out' = Level(vcount_out < ACTIVE_LINES /\ hcount_out < ACTIVE_H_PIXELS - 1)
    /\ hcount_out' = hcount_out + 1
    /\ UNCHANGED <<vcount_out, vs_out, hs_out, nf_out, fc_out>>

HSync == hs_out' = Level(hcount_out >= H_SYNC_HI /\ hcount_out < H_SYNC_LO)

\* Off screen, a pixel of the line, whatever the line.
NextPixel == hcount_out' = hcount_out + 1 /\ UNCHANGED <<vcount_out, ad_out, vs_out>>

\* The end of a line, where ad and vs may rise.
NextLine ==
    /\ hcount_out' = 0 /\ vcount_out' = vcount_out + 1
    /\ vs_out' = IF vcount_out + 1 = V_SYNC_HI THEN 1 ELSE vs_out

\* The blank right of a drawn line.
BlankRight ==
    /\ ad_out = 0 /\ vcount_out < ACTIVE_LINES
    /\ HSync
    /\ \/ ~EndOfLine /\ NextPixel
       \/ EndOfLine /\ NextLine /\ ad_out' = Level(vcount_out < ACTIVE_LINES - 1)
    /\ UNCHANGED <<nf_out, fc_out>>

\* The mutant stays off screen when the frame starts.
MutTopLeft == hcount_out' = 0 /\ vcount_out' = 0 /\ UNCHANGED ad_out

TopLeft == hcount_out' = 0 /\ vcount_out' = 0 /\ ad_out' = 1

LastLine ==
    /\ ad_out = 0 /\ vcount_out >= ACTIVE_LINES /\ vcount_out = TOTAL_LINES - 1
    /\ HSync
    /\ \/ ~EndOfLine /\ NextPixel
       \/ EndOfLine /\ TopLeft /\ UNCHANGED vs_out
    /\ UNCHANGED <<nf_out, fc_out>>

\* The mutant forgets to move on.
MutNewFrame ==
    /\ nf_out' = 1 /\ fc_out' = (fc_out + 1) % 64
    /\ UNCHANGED <<hcount_out, vcount_out, ad_out, vs_out>>

\* The announcement of the next frame.
NewFrame == nf_out' = 1 /\ fc_out' = (fc_out + 1) % 64 /\ NextPixel

\* The first line off screen announces the next frame, one pixel past its end.
FirstBlankLine ==
    /\ ad_out = 0 /\ vcount_out = ACTIVE_LINES /\ vcount_out # TOTAL_LINES - 1
    /\ HSync
    /\ \/ hcount_out = ACTIVE_H_PIXELS - 1 /\ NewFrame
       \/ /\ hcount_out # ACTIVE_H_PIXELS - 1 /\ EndOfLine
          /\ NextLine /\ UNCHANGED <<ad_out, nf_out, fc_out>>
       \/ /\ hcount_out # ACTIVE_H_PIXELS - 1 /\ ~EndOfLine
          /\ nf_out' = 0 /\ NextPixel /\ UNCHANGED fc_out

\* The other lines off screen, where vs also falls.
BlankLine ==
    /\ ad_out = 0 /\ vcount_out > ACTIVE_LINES /\ vcount_out # TOTAL_LINES - 1
    /\ HSync
    /\ \/ ~EndOfLine /\ NextPixel
       \/ /\ EndOfLine
          /\ hcount_out' = 0 /\ vcount_out' = vcount_out + 1
          /\ vs_out' = CASE vcount_out + 1 = V_SYNC_HI -> 1
                         [] vcount_out + 1 = V_SYNC_LO -> 0
                         [] OTHER                      -> vs_out
          /\ UNCHANGED ad_out
    /\ UNCHANGED <<nf_out, fc_out>>

Step == DrawPixel \/ BlankRight \/ LastLine \/ FirstBlankLine \/ BlankLine

Next == Step \/ Reset

Spec == Init /\ [][Next]_vars

-----------------------------------------------------------------------------
\* What the signals mean, at the pixel the counters are at.
Drawing == hcount_out < ACTIVE_H_PIXELS /\ vcount_out < ACTIVE_LINES
InHSync == hcount_out \in H_SYNC_HI + 1 .. H_SYNC_LO
InVSync == vcount_out \in V_SYNC_HI .. V_SYNC_LO - 1
AtNewFrame == hcount_out = ACTIVE_H_PIXELS /\ vcount_out = ACTIVE_LINES

\* The registers follow the counters, after any history of resets: ad is high on
\* the drawn pixels, hs and vs between their porches, nf for one pixel.
SignalsMatchCounters ==
    /\ ad_out = Level(Drawing)
    /\ hs_out = Level(InHSync)
    /\ vs_out = Level(InVSync)
    /\ nf_out = Level(AtNewFrame)

\* A step moves the beam by one pixel, from the end of a line to the next and from
\* the last to the first, unless it is a reset; no case of the code is missing.
NextPosition ==
    IF ~EndOfLine THEN <<hcount_out + 1, vcount_out>>
    ELSE <<0, (vcount_out + 1) % TOTAL_LINES>>

Scan == \/ hcount_out' = NextPosition[1] /\ vcount_out' = NextPosition[2]
        \/ hcount_out' = 0 /\ vcount_out' = 0

BeamScans == [][Scan]_vars

=============================================================================
