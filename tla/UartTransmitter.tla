--------------------------- MODULE UartTransmitter ---------------------------
(***************************************************************************)
(* uart_transmitter.sv: a byte, between a start and a stop bit, each held  *)
(* on the wire for TxPeriod edges of the clock.                            *)
(***************************************************************************)
EXTENDS Integers

CONSTANT TxPeriod       \* BAUD_BIT_PERIOD

ASSUME TxAssumption == TxPeriod \in Nat \ {0}

VARIABLES busy_out, tx_wire_out, tx_cycle_count, bit_count, data_in_buffer

txvars == <<busy_out, tx_wire_out, tx_cycle_count, bit_count, data_in_buffer>>

\* A byte, its least significant bit at 0.
Byte == [0 .. 7 -> {0, 1}]
NoByte == [i \in 0 .. 7 |-> 0]

TransmitterTypeOK ==
    /\ busy_out \in BOOLEAN /\ tx_wire_out \in {0, 1}
    /\ tx_cycle_count \in 0 .. TxPeriod - 1 /\ bit_count \in 0 .. 9
    /\ data_in_buffer \in Byte

TransmitterInit ==
    /\ busy_out = FALSE /\ tx_wire_out = 1
    /\ tx_cycle_count = 0 /\ bit_count = 0 /\ data_in_buffer = NoByte

TransmitterReset ==
    /\ busy_out' = FALSE /\ tx_wire_out' = 1
    /\ tx_cycle_count' = 0 /\ bit_count' = 0 /\ data_in_buffer' = NoByte

\* The start bit.
Accept(byte) ==
    /\ ~busy_out
    /\ busy_out' = TRUE /\ tx_wire_out' = 0
    /\ tx_cycle_count' = 0 /\ data_in_buffer' = byte
    /\ UNCHANGED bit_count

HoldBit ==
    /\ busy_out /\ tx_cycle_count # TxPeriod - 1
    /\ tx_cycle_count' = tx_cycle_count + 1
    /\ UNCHANGED <<busy_out, tx_wire_out, bit_count, data_in_buffer>>

\* The mutant sends no stop bit.
MutShiftBit ==
    /\ busy_out /\ tx_cycle_count = TxPeriod - 1 /\ bit_count # 9
    /\ tx_cycle_count' = 0 /\ bit_count' = bit_count + 1
    /\ tx_wire_out' = data_in_buffer[bit_count % 8]
    /\ UNCHANGED <<busy_out, data_in_buffer>>

\* bit_count is the index of the bit that comes next; 8 is the stop bit.
ShiftBit ==
    /\ busy_out /\ tx_cycle_count = TxPeriod - 1 /\ bit_count # 9
    /\ tx_cycle_count' = 0 /\ bit_count' = bit_count + 1
    /\ tx_wire_out' = IF bit_count = 8 THEN 1 ELSE data_in_buffer[bit_count]
    /\ UNCHANGED <<busy_out, data_in_buffer>>


EndByte ==
    /\ busy_out /\ tx_cycle_count = TxPeriod - 1 /\ bit_count = 9
    /\ busy_out' = FALSE /\ tx_wire_out' = 1
    /\ tx_cycle_count' = 0 /\ bit_count' = 0 /\ data_in_buffer' = NoByte

Transmit == HoldBit \/ ShiftBit \/ EndByte

=============================================================================
