------------------------------ MODULE MCArrays ------------------------------
(***************************************************************************)
(* A pool of tick spacing 2 (spans of 176 ticks on Orca, 120 on Raydium)   *)
(* and ranges that end at, just before and just after an array edge, on    *)
(* both sides of zero, and at the ends of the tick domain.  The clients    *)
(* pass the arrays of any of these ranges, and arrays of another pool.     *)
(***************************************************************************)
EXTENDS ArrayAccounts

CONSTANTS pool, otherPool

MCTickSpacing == 2

\* Ticks on Orca or Raydium; bins 69 and 70 are an edge on Meteora.
MCRanges ==
    {<<-2, 2>>, <<-176, -2>>, <<-178, 0>>, <<-122, 120>>, <<-120, 118>>,
     <<174, 176>>, <<-443636, 443636>>,
     <<-1, 0>>, <<-70, -2>>, <<-71, -3>>, <<0, 68>>, <<69, 137>>, <<3, 3>>,
     <<2, -2>>, <<0, 69>>}

\* Starts at multiples of the spans 176 and 120, and bin-array numbers.
MCIndexes ==
    [Orca    |-> {-443696, -352, -176, 0, 176, 443520},
     Raydium |-> {-443640, -240, -120, 0, 120, 443520},
     Meteora |-> -2 .. 2]

MCAddresses ==
    [p \in Protocols |-> [pool : {pool}, index : MCIndexes[p]]
                          \cup [pool : {otherPool}, index : {0}]]
=============================================================================
