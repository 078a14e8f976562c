------------------------------- MODULE Ranges -------------------------------
(***************************************************************************)
(* Position ranges and the guards the handlers put on them.  A range is a  *)
(* pair <<lower, upper>> of tick indices (Orca, Raydium) or bin ids        *)
(* (Meteora).                                                              *)
(***************************************************************************)
EXTENDS Integers

CONSTANTS
    Ranges,       \* the ranges a caller may name, legal or not
    TickSpacing   \* spacing of the pool's initializable ticks

ASSUME RangesAssumption ==
    /\ Ranges \subseteq Int \X Int
    /\ TickSpacing \in Nat \ {0}

MaxMeteoraBins == 69
InlineBitmapBinLimit == 5460
MaxTick == 443636

\* Mutant: the bounds only differ.
DistinctBounds(r) == r[2] # r[1]
Ordered(r) == r[2] > r[1]

\* Meteora: width counts both end bins, and must be between 1 and 69.
BinCountWithinCap(r) == r[2] - r[1] + 1 \in 1 .. MaxMeteoraBins

\* Meteora: ranges that need the bitmap extension account are rejected.
WithinInlineBitmap(r) ==
    /\ r[1] >= -InlineBitmapBinLimit
    /\ r[2] <= InlineBitmapBinLimit

\* A tick the pool can initialize: a multiple of the spacing in the domain.
OpenableTick(t) == t \in -MaxTick .. MaxTick /\ t % TickSpacing = 0

OpenableTickRange(r) == Ordered(r) /\ OpenableTick(r[1]) /\ OpenableTick(r[2])
=============================================================================
