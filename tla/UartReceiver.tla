----------------------------- MODULE UartReceiver -----------------------------
(***************************************************************************)
(* uart_receiver.sv: the line is sampled once per bit, RxPeriod edges      *)
(* apart, starting half a period after it was first seen low.              *)
(***************************************************************************)
EXTENDS Integers

CONSTANT RxPeriod       \* UART_BIT_PERIOD

ASSUME RxAssumption == RxPeriod \in Nat /\ RxPeriod >= 2

VARIABLES
    new_data_out, data_byte_out,
    busy_in, idle, check_start_bit, rx_cycle_count, bit_index, data_out_buffer

rxstate == <<busy_in, idle, check_start_bit, rx_cycle_count, bit_index, data_out_buffer>>
rxvars == <<new_data_out, data_byte_out, rxstate>>

Zeros == [i \in 0 .. 7 |-> 0]

ReceiverTypeOK ==
    /\ new_data_out \in BOOLEAN /\ data_byte_out \in [0 .. 7 -> {0, 1}]
    /\ {busy_in, idle, check_start_bit} \subseteq BOOLEAN
    /\ rx_cycle_count \in 0 .. RxPeriod - 1 /\ bit_index \in 0 .. 8
    /\ data_out_buffer \in [0 .. 7 -> {0, 1}]
    /\ busy_in = check_start_bit        \* so that no sample is due outside DATA

ReceiverInit ==
    /\ new_data_out = FALSE /\ data_byte_out = Zeros
    /\ busy_in = FALSE /\ idle = TRUE /\ check_start_bit = FALSE
    /\ rx_cycle_count = 0 /\ bit_index = 0 /\ data_out_buffer = Zeros

ReceiverReset ==
    /\ new_data_out' = FALSE /\ data_byte_out' = Zeros
    /\ busy_in' = FALSE /\ idle' = TRUE /\ check_start_bit' = FALSE
    /\ rx_cycle_count' = 0 /\ bit_index' = 0 /\ data_out_buffer' = Zeros

Idle(wire) ==
    /\ idle
    /\ idle' = (wire = 1) /\ new_data_out' = FALSE
    /\ UNCHANGED <<data_byte_out, busy_in, check_start_bit,
                   rx_cycle_count, bit_index, data_out_buffer>>

\* The edge a sample is taken at: mid start bit first, then one period on.
SampleDue ==
    rx_cycle_count = (IF check_start_bit THEN RxPeriod ELSE RxPeriod \div 2) - 1

WaitForSample ==
    /\ ~idle /\ ~SampleDue
    /\ rx_cycle_count' = rx_cycle_count + 1
    /\ UNCHANGED <<new_data_out, data_byte_out, busy_in, idle, check_start_bit,
                   bit_index, data_out_buffer>>

\* The mutant takes any dip of the line for a start bit.
MutCheckStart(wire) ==
    /\ ~idle /\ ~check_start_bit /\ SampleDue
    /\ rx_cycle_count' = 0 /\ busy_in' = TRUE /\ check_start_bit' = TRUE
    /\ UNCHANGED <<idle, new_data_out, data_byte_out, bit_index, data_out_buffer>>

\* A line that is high again was no start bit.
CheckStart(wire) ==
    /\ ~idle /\ ~check_start_bit /\ SampleDue
    /\ rx_cycle_count' = 0
    /\ idle' = (wire = 1)
    /\ busy_in' = (busy_in \/ wire = 0) /\ check_start_bit' = (wire = 0)
    /\ UNCHANGED <<new_data_out, data_byte_out, bit_index, data_out_buffer>>

SampleBit(wire) ==
    /\ ~idle /\ check_start_bit /\ SampleDue
    /\ busy_in /\ bit_index # 8
    /\ rx_cycle_count' = 0 /\ bit_index' = bit_index + 1
    /\ data_out_buffer' = [data_out_buffer EXCEPT ![bit_index] = wire]
    /\ UNCHANGED <<new_data_out, data_byte_out, busy_in, idle, check_start_bit>>

\* A byte without a stop bit is dropped.
CheckStop(wire) ==
    /\ ~idle /\ check_start_bit /\ SampleDue
    /\ busy_in /\ bit_index = 8
    /\ IF wire = 1 THEN new_data_out' = TRUE /\ data_byte_out' = data_out_buffer
                   ELSE UNCHANGED <<new_data_out, data_byte_out>>
    /\ busy_in' = FALSE /\ idle' = TRUE /\ check_start_bit' = FALSE
    /\ rx_cycle_count' = 0 /\ bit_index' = 0 /\ data_out_buffer' = Zeros

Receive(wire) ==
    Idle(wire) \/ WaitForSample \/ CheckStart(wire) \/ SampleBit(wire) \/ CheckStop(wire)

=============================================================================
