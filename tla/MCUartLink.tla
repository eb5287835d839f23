----------------------------- MODULE MCUartLink -----------------------------
(* Bytes that start and end with either level, with long runs and with none. *)
EXTENDS UartLink

Bits(ones) == [i \in 0 .. 7 |-> IF i \in ones THEN 1 ELSE 0]
MCBytes == {NoByte, Bits({0, 2, 4, 6}), Bits({1, 2, 3, 7}), Bits(0 .. 7)}

=============================================================================
