----------------------------- MODULE ArrayIndex -----------------------------
(***************************************************************************)
(* Which tick array or bin array of a pool holds a tick or a bin.  Orca    *)
(* and Raydium address a tick array by its start tick, a multiple of the   *)
(* array's span; Meteora addresses a bin array by its number.              *)
(***************************************************************************)
EXTENDS Ranges

OrcaTickArraySize == 88
RaydiumTickArraySize == 60
MeteoraBinsPerArray == 70

MaxTickSpacing == 65535   \* a u16

Int32 == {n \in Int : n >= -2147483647 - 1 /\ n <= 2147483647}

\* The machine's division rounds toward zero; the remainder has the sign of a.
Quotient(a, b) == IF a >= 0 THEN a \div b ELSE -((-a) \div b)
Remainder(a, b) == a - b * Quotient(a, b)

\* Mutant: the machine's quotient is used as it is.
TruncatedDiv(a, b) == Quotient(a, b)

\* Rounds toward negative infinity; the divisor is a span, never negative.
FloorDiv(a, b) ==
    IF Remainder(a, b) < 0 THEN Quotient(a, b) - 1 ELSE Quotient(a, b)

TickArraySize(protocol) ==
    IF protocol = "Orca" THEN OrcaTickArraySize ELSE RaydiumTickArraySize

Span(protocol) == TickArraySize(protocol) * TickSpacing

TickArrayStart(protocol, tick) == FloorDiv(tick, Span(protocol)) * Span(protocol)

\* Otherwise the handler fails with Overflow.
HasTickArray(protocol, tick) == TickArrayStart(protocol, tick) \in Int32

\* i64::div_euclid.
LowerBinArray(bin) == bin \div MeteoraBinsPerArray

\* Always two consecutive arrays, whatever the upper bin.
BinArrayPair(lower) == <<LowerBinArray(lower), LowerBinArray(lower) + 1>>
=============================================================================
