----------------------------- MODULE ByteChannel -----------------------------
(***************************************************************************)
(* What a serial line promises: a byte handed over is announced, unchanged *)
(* and once, before the next one can be handed over; nothing is announced  *)
(* that was not handed over.                                               *)
(***************************************************************************)
CONSTANTS Byte, NoByte

VARIABLES
    inflight,       \* the byte handed over and not yet announced, if any
    new_data_out, data_byte_out

channelvars == <<inflight, new_data_out, data_byte_out>>

ChannelInit == inflight = <<>> /\ new_data_out = FALSE /\ data_byte_out = NoByte

Send(b) ==
    /\ inflight = <<>>
    /\ inflight' = <<b>> /\ new_data_out' = FALSE
    /\ UNCHANGED data_byte_out

Announce ==
    /\ inflight # <<>>
    /\ inflight' = <<>> /\ new_data_out' = TRUE /\ data_byte_out' = inflight[1]

Withdraw == new_data_out' = FALSE /\ UNCHANGED <<inflight, data_byte_out>>

ChannelReset == inflight' = <<>> /\ new_data_out' = FALSE /\ data_byte_out' = NoByte

ChannelNext == \/ \E b \in Byte : Send(b)
               \/ Announce \/ Withdraw \/ ChannelReset

ChannelSpec == ChannelInit /\ [][ChannelNext]_channelvars

=============================================================================
