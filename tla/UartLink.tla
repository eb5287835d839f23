------------------------------- MODULE UartLink -------------------------------
(***************************************************************************)
(* A transmitter, a wire and a receiver, one clock edge at a time.  Their  *)
(* bit periods are counted in edges of the same clock and may differ a     *)
(* little, as those of two boards do.  While nothing is sent the wire may  *)
(* dip for one edge, which the receiver checks for in the middle of the    *)
(* start bit; dips come at least half a bit apart.                         *)
(***************************************************************************)
EXTENDS UartTransmitter, UartReceiver

CONSTANT Bytes      \* the bytes that are sent

\* Every sample of the receiver falls into the bit it is meant for, whether it
\* started with the start bit or with a dip of up to half a bit before it.
Compatible ==
    /\ TxPeriod <= RxPeriod
    /\ (RxPeriod \div 2) + 9 * RxPeriod < 10 * TxPeriod

ASSUME LinkAssumption == Compatible /\ Bytes \subseteq Byte

VARIABLE inflight   \* history: the byte accepted and not yet announced

linkvars == <<txvars, rxvars, inflight>>

LinkInit == TransmitterInit /\ ReceiverInit /\ inflight = <<>>

\* What becomes of the byte in flight when no other is accepted.
Announced == inflight' = IF new_data_out' /\ ~new_data_out THEN <<>> ELSE inflight

Sending(byte) == Accept(byte) /\ Receive(tx_wire_out) /\ inflight' = <<byte>>

Busy == Transmit /\ Receive(tx_wire_out) /\ Announced

Quiet == ~busy_out /\ UNCHANGED txvars /\ Receive(tx_wire_out) /\ Announced

Dip == ~busy_out /\ idle /\ UNCHANGED txvars /\ Receive(0) /\ Announced

LinkReset == TransmitterReset /\ ReceiverReset /\ inflight' = <<>>

Edge == (\E byte \in Bytes : Sending(byte)) \/ Busy \/ Quiet \/ Dip

LinkNext == Edge \/ LinkReset

LinkSpec == LinkInit /\ [][LinkNext]_linkvars /\ WF_linkvars(Edge)

-----------------------------------------------------------------------------
Channel == INSTANCE ByteChannel WITH Byte <- Bytes

\* The link is a channel: what the receiver announces is the byte the transmitter
\* accepted, once, whatever the line did before it.
IsByteChannel == Channel!ChannelSpec

\* Every byte accepted is announced, unless a reset withdraws it.
EveryByteArrives == inflight # <<>> ~> inflight = <<>>

=============================================================================
