--------------------------- MODULE ArrayAccounts ---------------------------
(***************************************************************************)
(* The tick-array and bin-array accounts an instruction forwards to a DEX. *)
(* The client names them, from a range it read at some earlier time, and   *)
(* the program binds them to the range it is about to touch: the recorded  *)
(* one, the pending target, or the caller's new one.  Funds and the other  *)
(* guards of the handlers are those of the instruction modules; here is    *)
(* what they do to the range of one vault and which accounts reach a CPI.  *)
(***************************************************************************)
EXTENDS ArrayIndex, Sequences

CONSTANTS
    Addresses,    \* by DEX, the array accounts a client may pass, of any pool
    Pool,         \* the vault's pool
    Null

Protocols == {"Orca", "Raydium", "Meteora"}

ASSUME AddressesAssumption ==
    /\ \A p \in Protocols : \A a \in Addresses[p] : a.index \in Int
    /\ Null \notin Int \X Int

VARIABLES
    protocol,     \* the DEX of the vault's pool
    range,        \* recorded position range, Null without a position
    pending,      \* target of an unfinished rebalance, or Null
    cpi           \* the last CPI that was given array accounts

vars == <<protocol, range, pending, cpi>>

OrderedRanges == {r \in Int \X Int : r[1] <= r[2]}

TypeOK ==
    /\ protocol \in Protocols
    /\ range \in OrderedRanges \cup {Null}
    /\ pending \in OrderedRanges \cup {Null}
    /\ cpi \in [touches : SUBSET OrderedRanges,
                starts : Seq(Int),
                metas : Seq(Addresses[protocol]), infos : Seq(Addresses[protocol])]

----------------------------------------------------------------------------
(* Binding *)

Pda(index) == [pool |-> Pool, index |-> index]

\* require_tick_array, for both ends of a range.
TickArraysBound(r, lower, upper) ==
    /\ \A i \in 1 .. 2 : HasTickArray(protocol, r[i])
    /\ lower = Pda(TickArrayStart(protocol, r[1]))
    /\ upper = Pda(TickArrayStart(protocol, r[2]))

BinArraysBound(r, lower, upper) ==
    /\ lower = Pda(BinArrayPair(r[1])[1])
    /\ upper = Pda(BinArrayPair(r[1])[2])

ArraysBound(r, lower, upper) ==
    IF protocol = "Meteora"
      THEN BinArraysBound(r, lower, upper)
      ELSE TickArraysBound(r, lower, upper)

----------------------------------------------------------------------------
(* Account lists *)

KeysOf(list) == {list[i] : i \in DOMAIN list}

\* One pass over a slot with the list of keys seen.
\* Mutant: every slot is pushed.
PushAlways(list, key) == Append(list, key)
PushUnseen(list, key) == IF key \in KeysOf(list) THEN list ELSE Append(list, key)

\* The bin arrays of rebalance_liquidity: the old pair, then the new one.
DistinctBinArrays(old, new) ==
    PushUnseen(PushUnseen(PushUnseen(<<old[1]>>, old[2]), new[1]), new[2])

\* The account infos go through the same passes a second time.
\* Mutant: they are listed as they come.
AllBinArrays(old, new) == old \o new
BinArrayInfos(old, new) == DistinctBinArrays(old, new)

\* A CPI on one range; a Raydium open also announces the start indices.
CpiOn(r, starts, lower, upper) ==
    [touches |-> {r}, starts |-> starts,
     metas |-> <<lower, upper>>, infos |-> <<lower, upper>>]

NoCpi == [touches |-> {}, starts |-> <<>>, metas |-> <<>>, infos |-> <<>>]

OpenPositionRange(r) == <<TickArrayStart(protocol, r[1]), TickArrayStart(protocol, r[2])>>

StartsAnnounced(r) == IF protocol = "Raydium" THEN OpenPositionRange(r) ELSE <<>>

----------------------------------------------------------------------------
Init ==
    /\ protocol \in Protocols
    /\ range = Null
    /\ pending = Null
    /\ cpi = NoCpi

\* Meteora opens an empty position and needs no array for it.
OpenMeteora(r) ==
    /\ protocol = "Meteora" /\ range = Null
    /\ BinCountWithinCap(r) /\ WithinInlineBitmap(r)
    /\ range' = r
    /\ UNCHANGED <<protocol, pending, cpi>>

OpenTickRange(r, lower, upper) ==
    /\ protocol # "Meteora" /\ range = Null /\ pending = Null
    /\ OpenableTickRange(r)
    /\ TickArraysBound(r, lower, upper)
    /\ range' = r
    /\ cpi' = CpiOn(r, StartsAnnounced(r), lower, upper)
    /\ UNCHANGED <<protocol, pending>>

\* Increase, decrease and collect; Orca collects without arrays.
UsePosition(lower, upper) ==
    /\ range # Null
    /\ ArraysBound(range, lower, upper)
    /\ cpi' = CpiOn(range, <<>>, lower, upper)
    /\ UNCHANGED <<protocol, range, pending>>

\* The close CPIs take no array.
ClosePosition ==
    /\ range # Null
    /\ range' = Null
    /\ UNCHANGED <<protocol, pending, cpi>>

\* The close leg works on the old range whatever the target.
StartRebalance(r, lower, upper) ==
    /\ protocol # "Meteora" /\ range # Null
    /\ IF protocol = "Raydium" THEN OpenableTickRange(r) ELSE Ordered(r)
    /\ TickArraysBound(range, lower, upper)
    /\ range' = Null
    /\ pending' = r
    /\ cpi' = CpiOn(range, <<>>, lower, upper)
    /\ UNCHANGED protocol

RetryPendingRebalance(lower, upper) ==
    /\ pending # Null
    /\ OpenableTickRange(pending)
    /\ TickArraysBound(pending, lower, upper)
    /\ range' = pending
    /\ pending' = Null
    /\ cpi' = CpiOn(pending, StartsAnnounced(pending), lower, upper)
    /\ UNCHANGED protocol

CancelPendingRebalance ==
    /\ pending # Null
    /\ pending' = Null
    /\ UNCHANGED <<protocol, range, cpi>>

\* manual_rebalance: claims over the old range, then moves to the new one in
\* a CPI that is given both pairs.
ManualRebalance(r, old, new) ==
    /\ protocol = "Meteora" /\ range # Null
    /\ BinCountWithinCap(r) /\ WithinInlineBitmap(r)
    /\ BinArraysBound(range, old[1], old[2])
    /\ BinArraysBound(r, new[1], new[2])
    /\ range' = r
    /\ cpi' = [touches |-> {range, r}, starts |-> <<>>,
               metas |-> DistinctBinArrays(old, new),
               infos |-> BinArrayInfos(old, new)]
    /\ UNCHANGED <<protocol, pending>>

Next ==
    \/ \E r \in Ranges : OpenMeteora(r)
    \/ \E lower, upper \in Addresses[protocol] :
          \/ UsePosition(lower, upper)
          \/ RetryPendingRebalance(lower, upper)
          \/ \E r \in Ranges :
                \/ OpenTickRange(r, lower, upper)
                \/ StartRebalance(r, lower, upper)
    \/ \E r \in Ranges : \E old, new \in Addresses["Meteora"] \X Addresses["Meteora"] :
          ManualRebalance(r, old, new)
    \/ ClosePosition
    \/ CancelPendingRebalance

Spec == Init /\ [][Next]_vars

----------------------------------------------------------------------------
(* Correctness *)

\* What the DEX programs look up.  A tick array holds the ticks from its start
\* to the next start; a bin array holds the 70 bins from index * 70.
HoldsTick(account, tick) ==
    /\ account.index % Span(protocol) = 0
    /\ tick \in account.index .. account.index + Span(protocol) - 1

HoldsBin(account, bin) ==
    bin \in account.index * MeteoraBinsPerArray
              .. account.index * MeteoraBinsPerArray + MeteoraBinsPerArray - 1

Held(r) ==
    IF protocol = "Meteora"
      THEN \A bin \in r[1] .. r[2] : \E i \in DOMAIN cpi.metas : HoldsBin(cpi.metas[i], bin)
      ELSE HoldsTick(cpi.metas[1], r[1]) /\ HoldsTick(cpi.metas[2], r[2])

\* Whatever accounts the client passed, and from however old a range, a CPI is
\* given arrays of the vault's own pool that hold every bin, or both end
\* ticks, of each range it touches: negative ticks, array edges and ranges
\* across two arrays included (require_tick_array, derive_bin_array_pair).
ArraysHoldTheRange ==
    /\ \A i \in DOMAIN cpi.metas : cpi.metas[i].pool = Pool
    /\ \A r \in cpi.touches : Held(r)

\* The runtime gets an account info for each account meta, in order, and
\* rebalance_liquidity names no bin array twice, however the old and the new
\* pair overlap (the two deduplication loops of rebalance_liquidity.rs); the
\* start indices a Raydium open announces are those of the accounts it passes.
AccountListsAgree ==
    /\ cpi.infos = cpi.metas
    /\ cpi.starts # <<>> =>
          cpi.starts = <<cpi.metas[1].index, cpi.metas[2].index>>
    /\ protocol = "Meteora" =>
          \A i, j \in DOMAIN cpi.metas : cpi.metas[i] = cpi.metas[j] => i = j
=============================================================================
