------------------------ MODULE ArrayAccounts_proofs ------------------------
(***************************************************************************)
(* Proofs about the array accounts, for every tick spacing, every range    *)
(* and whatever accounts a client passes.                                  *)
(***************************************************************************)
EXTENDS ArrayAccounts, TLAPS

LEMMA DivisionBounds ==
    ASSUME NEW a \in Int, NEW b \in Nat \ {0}
    PROVE  /\ a \div b \in Int
           /\ b * (a \div b) <= a
           /\ a < b * (a \div b) + b
  BY Z3

\* The floor division of utils/orca/accounts.rs, built from a division that
\* rounds toward zero, is the floor for every tick and every span.
THEOREM FloorDivIsFloor ==
    ASSUME NEW a \in Int, NEW b \in Nat \ {0}
    PROVE  /\ FloorDiv(a, b) \in Int
           /\ b * FloorDiv(a, b) <= a
           /\ a < b * FloorDiv(a, b) + b
<1> DEFINE q == a \div b
           n == (-a) \div b
<1>1. CASE a >= 0
  <2>1. q \in Int /\ b * q <= a /\ a < b * q + b
    BY DivisionBounds
  <2>2. Quotient(a, b) = q
    BY <1>1 DEF Quotient
  <2>3. FloorDiv(a, b) = q
    BY <2>1, <2>2 DEF FloorDiv, Remainder
  <2> QED BY <2>1, <2>3
<1>2. CASE a < 0
  <2>1. n \in Int /\ b * n <= -a /\ -a < b * n + b
    <3>1. -a \in Int
      OBVIOUS
    <3> QED BY <3>1, DivisionBounds
  <2>2. Quotient(a, b) = -n
    BY <1>2 DEF Quotient
  <2>3. b * (-n) = -(b * n) /\ b * (-n - 1) = -(b * n) - b
    BY <2>1
  <2>4. Remainder(a, b) = a + b * n
    BY <2>1, <2>2, <2>3 DEF Remainder
  <2>5. FloorDiv(a, b) = IF a + b * n < 0 THEN -n - 1 ELSE -n
    BY <2>2, <2>4 DEF FloorDiv
  <2> QED BY <2>1, <2>3, <2>5
<1> QED BY <1>1, <1>2

LEMMA SpanPositive ==
    ASSUME NEW p
    PROVE  Span(p) \in Nat \ {0}
  BY RangesAssumption DEF Span, TickArraySize, OrcaTickArraySize, RaydiumTickArraySize

LEMMA MultipleHasNoRemainder ==
    ASSUME NEW q \in Int, NEW b \in Nat \ {0}
    PROVE  (q * b) % b = 0
<1> DEFINE d == (q * b) \div b
           m == (q * b) % b
<1>1. q * b \in Int
  OBVIOUS
<1>2. d \in Int /\ m \in 0 .. b - 1 /\ q * b = b * d + m
  BY <1>1, Z3
<1>3. m = b * (q - d)
  BY <1>2
<1>4. q - d < 1
  <2> SUFFICES ASSUME q - d >= 1 PROVE FALSE
    BY <1>2
  <2>1. b * (q - d) >= b
    BY <1>2
  <2> QED BY <2>1, <1>2, <1>3
<1>5. q - d > -1
  <2> SUFFICES ASSUME q - d <= -1 PROVE FALSE
    BY <1>2
  <2>1. b * (q - d) <= -b
    BY <1>2
  <2> QED BY <2>1, <1>2, <1>3
<1>6. q - d = 0
  BY <1>2, <1>4, <1>5
<1> QED BY <1>2, <1>3, <1>6

\* The array a tick is bound to holds the tick.
LEMMA StartHoldsTick ==
    ASSUME NEW tick \in Int
    PROVE  HoldsTick(Pda(TickArrayStart(protocol, tick)), tick)
<1> DEFINE s == Span(protocol)
           q == FloorDiv(tick, s)
<1>1. s \in Nat \ {0}
  BY SpanPositive
<1>2. q \in Int /\ s * q <= tick /\ tick < s * q + s
  BY <1>1, FloorDivIsFloor
<1>3. TickArrayStart(protocol, tick) = q * s
  BY DEF TickArrayStart
<1>4. q * s = s * q /\ q * s \in Int
  BY <1>1, <1>2
<1>5. (q * s) % s = 0
  BY <1>1, <1>2, MultipleHasNoRemainder
<1>6. tick \in q * s .. q * s + s - 1
  BY <1>1, <1>2, <1>4
<1> QED BY <1>3, <1>5, <1>6 DEF HoldsTick, Pda

\* No tick of the domain has a start outside i32, for any u16 tick spacing:
\* the Overflow of tick_array_start_index never stops a position that a DEX
\* accepted.
THEOREM TickDomainIsAddressable ==
    ASSUME NEW tick \in Int, -MaxTick <= tick, tick <= MaxTick,
           TickSpacing <= MaxTickSpacing, NEW p \in Protocols
    PROVE  HasTickArray(p, tick)
<1> DEFINE s == Span(p)
           q == FloorDiv(tick, s)
<1>1. s \in Nat \ {0}
  BY SpanPositive
<1>2. TickArraySize(p) \in {60, 88}
  BY SMT DEF TickArraySize, OrcaTickArraySize, RaydiumTickArraySize
<1>3. s <= 88 * 65535
  <2>1. CASE TickArraySize(p) = 60
    BY <2>1, RangesAssumption, SMT DEF Span, MaxTickSpacing
  <2>2. CASE TickArraySize(p) = 88
    BY <2>2, RangesAssumption, SMT DEF Span, MaxTickSpacing
  <2> QED BY <1>2, <2>1, <2>2
<1>4. tick >= -443636 /\ tick <= 443636
  BY SMT DEF MaxTick
<1>5. q \in Int /\ s * q <= tick /\ tick < s * q + s
  BY <1>1, FloorDivIsFloor, Zenon
<1> HIDE DEF s, q
<1>6. q * s = s * q /\ q * s \in Int
  BY <1>1, <1>5, SMT
<1>7. q * s > -443636 - 88 * 65535 /\ q * s <= 443636
  BY <1>1, <1>3, <1>4, <1>5, <1>6, SMT
<1>8. TickArrayStart(p, tick) = q * s
  BY DEF TickArrayStart, q, s
<1>9. q * s \in Int32
  <2> DEFINE start == q * s
  <2>1. start \in Int /\ start > -6210716 /\ start <= 443636
    BY <1>6, <1>7, SMT
  <2> HIDE DEF start
  <2>2. start \in Int32
    BY <2>1, SMT DEF Int32
  <2> QED BY <2>2 DEF start
<1> QED BY <1>8, <1>9 DEF HasTickArray

----------------------------------------------------------------------------
(* Account lists *)

OneEntryPerKey(list) == \A i, j \in DOMAIN list : list[i] = list[j] => i = j

LEMMA PushUnseenAddsTheKey ==
    ASSUME NEW S, NEW list \in Seq(S), NEW key \in S, OneEntryPerKey(list)
    PROVE  /\ PushUnseen(list, key) \in Seq(S)
           /\ KeysOf(PushUnseen(list, key)) = KeysOf(list) \cup {key}
           /\ OneEntryPerKey(PushUnseen(list, key))
<1>1. CASE key \in KeysOf(list)
  BY <1>1 DEF PushUnseen, KeysOf
<1>2. CASE key \notin KeysOf(list)
  <2> DEFINE longer == Append(list, key)
  <2>1. PushUnseen(list, key) = longer
    BY <1>2 DEF PushUnseen
  <2>2. /\ longer \in Seq(S)
        /\ DOMAIN list = 1 .. Len(list) /\ Len(list) \in Nat
        /\ DOMAIN longer = 1 .. Len(list) + 1
        /\ \A i \in 1 .. Len(list) : longer[i] = list[i]
        /\ longer[Len(list) + 1] = key
    OBVIOUS
  <2>3. KeysOf(longer) = KeysOf(list) \cup {key}
    BY <2>2 DEF KeysOf
  <2>4. OneEntryPerKey(longer)
    BY <1>2, <2>2 DEF OneEntryPerKey, KeysOf
  <2> QED BY <2>1, <2>2, <2>3, <2>4
<1> QED BY <1>1, <1>2

LEMMA DistinctBinArraysKeepEveryKey ==
    ASSUME NEW S, NEW a \in S, NEW b \in S, NEW c \in S, NEW d \in S
    PROVE  /\ DistinctBinArrays(<<a, b>>, <<c, d>>) \in Seq(S)
           /\ KeysOf(DistinctBinArrays(<<a, b>>, <<c, d>>)) = {a, b, c, d}
           /\ OneEntryPerKey(DistinctBinArrays(<<a, b>>, <<c, d>>))
<1> DEFINE l1 == <<a>>
           l2 == PushUnseen(l1, b)
           l3 == PushUnseen(l2, c)
           l4 == PushUnseen(l3, d)
<1>1. l1 \in Seq(S) /\ KeysOf(l1) = {a} /\ OneEntryPerKey(l1)
  BY DEF KeysOf, OneEntryPerKey
<1> HIDE DEF l1
<1>2. l2 \in Seq(S) /\ KeysOf(l2) = {a, b} /\ OneEntryPerKey(l2)
  <2>1. /\ PushUnseen(l1, b) \in Seq(S)
        /\ KeysOf(PushUnseen(l1, b)) = KeysOf(l1) \cup {b}
        /\ OneEntryPerKey(PushUnseen(l1, b))
    <3> HIDE DEF l2
    <3> QED BY <1>1, PushUnseenAddsTheKey
  <2> QED BY <1>1, <2>1
<1> HIDE DEF l2
<1>3. l3 \in Seq(S) /\ KeysOf(l3) = {a, b, c} /\ OneEntryPerKey(l3)
  <2>1. /\ PushUnseen(l2, c) \in Seq(S)
        /\ KeysOf(PushUnseen(l2, c)) = KeysOf(l2) \cup {c}
        /\ OneEntryPerKey(PushUnseen(l2, c))
    <3> HIDE DEF l3
    <3> QED BY <1>2, PushUnseenAddsTheKey
  <2> QED BY <1>2, <2>1
<1> HIDE DEF l3
<1>4. l4 \in Seq(S) /\ KeysOf(l4) = {a, b, c, d} /\ OneEntryPerKey(l4)
  <2>1. /\ PushUnseen(l3, d) \in Seq(S)
        /\ KeysOf(PushUnseen(l3, d)) = KeysOf(l3) \cup {d}
        /\ OneEntryPerKey(PushUnseen(l3, d))
    <3> HIDE DEF l4
    <3> QED BY <1>3, PushUnseenAddsTheKey
  <2> QED BY <1>3, <2>1
<1> HIDE DEF l4
<1>5. DistinctBinArrays(<<a, b>>, <<c, d>>) = l4
  BY DEF DistinctBinArrays, l4, l3, l2, l1
<1> QED BY <1>4, <1>5

----------------------------------------------------------------------------
(* The invariant *)

\* The pair of arrays covers a range because the range is at most 69 bins
\* wide; only positions of the other two DEXes are ever pending.
MeteoraWidth ==
    protocol = "Meteora" =>
        /\ range # Null => range[2] <= range[1] + MaxMeteoraBins - 1
        /\ pending = Null

ArrayInv == TypeOK /\ MeteoraWidth /\ ArraysHoldTheRange /\ AccountListsAgree

\* A range of at most 69 bins lies in the pair of its lower bin.
LEMMA PairHoldsRange ==
    ASSUME NEW lower \in Int, NEW bin \in Int,
           lower <= bin, bin <= lower + MaxMeteoraBins - 1
    PROVE  \/ HoldsBin(Pda(BinArrayPair(lower)[1]), bin)
           \/ HoldsBin(Pda(BinArrayPair(lower)[2]), bin)
<1> DEFINE k == lower \div 70
<1>1. k \in Int /\ 70 * k <= lower /\ lower < 70 * k + 70
  OBVIOUS
<1>2. BinArrayPair(lower) = <<k, k + 1>>
  BY DEF BinArrayPair, LowerBinArray, MeteoraBinsPerArray
<1>3. bin \in k * 70 .. k * 70 + 69 \/ bin \in (k + 1) * 70 .. (k + 1) * 70 + 69
  BY <1>1 DEF MaxMeteoraBins
<1> HIDE DEF k
<1>4. Pda(k).index = k /\ Pda(k + 1).index = k + 1
  BY DEF Pda
<1>5. bin \in k * 70 .. k * 70 + 70 - 1 => HoldsBin(Pda(k), bin)
  BY <1>4 DEF HoldsBin, MeteoraBinsPerArray
<1>6. bin \in (k + 1) * 70 .. (k + 1) * 70 + 70 - 1 => HoldsBin(Pda(k + 1), bin)
  BY <1>4 DEF HoldsBin, MeteoraBinsPerArray
<1> QED BY <1>1, <1>2, <1>3, <1>5, <1>6

LEMMA Pairs ==
    ASSUME NEW S, NEW x \in S, NEW y \in S
    PROVE  /\ <<x, y>> \in Seq(S) /\ DOMAIN <<x, y>> = {1, 2}
           /\ <<x, y>>[1] = x /\ <<x, y>>[2] = y
<1>1. DOMAIN <<x, y>> = {1, 2}
  <2>1. DOMAIN <<x, y>> = 1 .. 2 /\ 1 .. 2 = {1, 2}
    OBVIOUS
  <2> QED BY <2>1
<1> QED BY <1>1

\* What a CPI given a bound pair of accounts may rely on.
LEMMA BoundPairHoldsRange ==
    ASSUME NEW r \in Int \X Int, NEW lower, NEW upper,
           ArraysBound(r, lower, upper),
           protocol = "Meteora" => r[2] <= r[1] + MaxMeteoraBins - 1
    PROVE  /\ lower.pool = Pool /\ upper.pool = Pool
           /\ protocol = "Meteora" =>
                 /\ lower # upper
                 /\ \A bin \in r[1] .. r[2] : HoldsBin(lower, bin) \/ HoldsBin(upper, bin)
           /\ protocol # "Meteora" =>
                 /\ HoldsTick(lower, r[1]) /\ HoldsTick(upper, r[2])
                 /\ OpenPositionRange(r) = <<lower.index, upper.index>>
                 /\ lower.index \in Int /\ upper.index \in Int
<1>1. CASE protocol = "Meteora"
  <2>1. lower = Pda(BinArrayPair(r[1])[1]) /\ upper = Pda(BinArrayPair(r[1])[2])
    BY <1>1 DEF ArraysBound, BinArraysBound
  <2>2. lower.pool = Pool /\ upper.pool = Pool
    BY <2>1 DEF Pda
  <2>3. lower # upper
    <3> DEFINE k == LowerBinArray(r[1])
    <3>1. k \in Int
      BY DEF LowerBinArray, MeteoraBinsPerArray
    <3> HIDE DEF k
    <3>2. lower.index = k /\ upper.index = k + 1
      BY <2>1 DEF Pda, BinArrayPair, k
    <3> QED BY <3>1, <3>2
  <2>4. ASSUME NEW bin \in r[1] .. r[2]
        PROVE  HoldsBin(lower, bin) \/ HoldsBin(upper, bin)
    <3>1. r[1] \in Int /\ bin \in Int /\ r[1] <= bin /\ bin <= r[1] + MaxMeteoraBins - 1
      BY <1>1 DEF MaxMeteoraBins
    <3> QED BY <2>1, <3>1, PairHoldsRange
  <2> QED BY <1>1, <2>2, <2>3, <2>4
<1>2. CASE protocol # "Meteora"
  <2>1. /\ lower = Pda(TickArrayStart(protocol, r[1]))
        /\ upper = Pda(TickArrayStart(protocol, r[2]))
        /\ HasTickArray(protocol, r[1]) /\ HasTickArray(protocol, r[2])
    BY <1>2 DEF ArraysBound, TickArraysBound
  <2>2. HoldsTick(lower, r[1]) /\ HoldsTick(upper, r[2])
    <3>1. r[1] \in Int /\ r[2] \in Int
      OBVIOUS
    <3> QED BY <2>1, <3>1, StartHoldsTick
  <2>3. /\ lower.pool = Pool /\ lower.index = TickArrayStart(protocol, r[1])
        /\ upper.pool = Pool /\ upper.index = TickArrayStart(protocol, r[2])
    BY <2>1 DEF Pda
  <2>4. lower.index \in Int /\ upper.index \in Int
    BY <2>1, <2>3 DEF HasTickArray, Int32
  <2> QED BY <1>2, <2>2, <2>3, <2>4 DEF OpenPositionRange
<1> QED BY <1>1, <1>2

\* The part of the invariant about the last CPI, after a CPI on one range.
LEMMA CpiOnOneRange ==
    ASSUME NEW r \in OrderedRanges,
           NEW lower \in Addresses[protocol], NEW upper \in Addresses[protocol],
           NEW starts \in {<<>>, StartsAnnounced(r)},
           ArraysBound(r, lower, upper),
           protocol = "Meteora" => r[2] <= r[1] + MaxMeteoraBins - 1,
           cpi' = CpiOn(r, starts, lower, upper), protocol' = protocol
    PROVE  /\ cpi' \in [touches : SUBSET OrderedRanges, starts : Seq(Int),
                        metas : Seq(Addresses[protocol]),
                        infos : Seq(Addresses[protocol])]
           /\ ArraysHoldTheRange'
           /\ AccountListsAgree'
<1>1. r \in Int \X Int
  BY DEF OrderedRanges
<1>2. /\ lower.pool = Pool /\ upper.pool = Pool
      /\ protocol = "Meteora" =>
            /\ lower # upper
            /\ \A bin \in r[1] .. r[2] : HoldsBin(lower, bin) \/ HoldsBin(upper, bin)
      /\ protocol # "Meteora" =>
            /\ HoldsTick(lower, r[1]) /\ HoldsTick(upper, r[2])
            /\ OpenPositionRange(r) = <<lower.index, upper.index>>
            /\ lower.index \in Int /\ upper.index \in Int
  BY <1>1, BoundPairHoldsRange
<1>3. /\ starts # <<>> => starts = <<lower.index, upper.index>>
      /\ starts \in Seq(Int)
  <2>1. CASE protocol = "Raydium"
    <3>1. StartsAnnounced(r) = <<lower.index, upper.index>>
      <4>1. StartsAnnounced(r) = OpenPositionRange(r)
        BY <2>1 DEF StartsAnnounced
      <4>2. OpenPositionRange(r) = <<lower.index, upper.index>>
        BY <1>2, <2>1
      <4> QED BY <4>1, <4>2
    <3>2. lower.index \in Int /\ upper.index \in Int
      BY <1>2, <2>1
    <3> DEFINE x == lower.index
               y == upper.index
    <3> HIDE DEF x, y
    <3>3. <<x, y>> \in Seq(Int)
      BY <3>2 DEF x, y
    <3>4. <<lower.index, upper.index>> \in Seq(Int)
      BY <3>3 DEF x, y
    <3>5. CASE starts = <<>>
      BY <3>5
    <3>6. CASE starts = <<lower.index, upper.index>>
      BY <3>4, <3>6, Zenon
    <3>7. starts = <<>> \/ starts = <<lower.index, upper.index>>
      BY <3>1, Zenon
    <3> QED BY <3>5, <3>6, <3>7
  <2>2. CASE protocol # "Raydium"
    <3>1. starts = <<>>
      BY <2>2 DEF StartsAnnounced
    <3> QED BY <3>1
  <2> QED BY <2>1, <2>2
<1> DEFINE list == <<lower, upper>>
<1>4. /\ cpi'.touches = {r} /\ cpi'.starts = starts
      /\ cpi'.metas = list /\ cpi'.infos = list
  BY DEF CpiOn
<1>5. list \in Seq(Addresses[protocol]) /\ DOMAIN list = {1, 2}
      /\ list[1] = lower /\ list[2] = upper
  <2> DEFINE S == Addresses[protocol]
  <2> HIDE DEF S
  <2>1. lower \in S /\ upper \in S
    BY DEF S
  <2>2. /\ <<lower, upper>> \in Seq(S) /\ DOMAIN <<lower, upper>> = {1, 2}
        /\ <<lower, upper>>[1] = lower /\ <<lower, upper>>[2] = upper
    BY <2>1, Pairs
  <2> QED BY <2>2 DEF S
<1>6. cpi' \in [touches : SUBSET OrderedRanges, starts : Seq(Int),
               metas : Seq(Addresses[protocol]), infos : Seq(Addresses[protocol])]
  BY <1>3, <1>5 DEF CpiOn
<1>7. Held(r)'
  <2>1. CASE protocol = "Meteora"
    <3>1. ASSUME NEW bin \in r[1] .. r[2]
          PROVE  \E i \in {1, 2} : HoldsBin(list[i], bin)
      BY <1>2, <1>5, <2>1
    <3> QED BY <1>4, <1>5, <2>1, <3>1 DEF Held
  <2>2. CASE protocol # "Meteora"
    BY <1>2, <1>4, <1>5, <2>2 DEF Held, HoldsTick
  <2> QED BY <2>1, <2>2
<1>8. ArraysHoldTheRange'
  BY <1>2, <1>4, <1>5, <1>7 DEF ArraysHoldTheRange
<1>9. AccountListsAgree'
  BY <1>2, <1>3, <1>4, <1>5 DEF AccountListsAgree
<1> QED BY <1>6, <1>8, <1>9

----------------------------------------------------------------------------
(* The theorem *)

LEMMA MeteoraRangeIsNarrow ==
    ASSUME NEW r \in Ranges, BinCountWithinCap(r)
    PROVE  r \in OrderedRanges /\ r[2] <= r[1] + MaxMeteoraBins - 1
<1>1. r \in Int \X Int /\ r[1] \in Int /\ r[2] \in Int
  BY RangesAssumption
<1> QED BY <1>1 DEF BinCountWithinCap, MaxMeteoraBins, OrderedRanges

LEMMA OrderedRangeIsOrdered ==
    ASSUME NEW r \in Ranges, Ordered(r)
    PROVE  r \in OrderedRanges
<1>1. r \in Int \X Int /\ r[1] \in Int /\ r[2] \in Int
  BY RangesAssumption
<1> QED BY <1>1 DEF Ordered, OrderedRanges

LEMMA NullIsNoRange == Null \notin OrderedRanges
  BY AddressesAssumption DEF OrderedRanges

LEMMA ArrayInit == Init => ArrayInv
<1> SUFFICES ASSUME Init PROVE ArrayInv
  OBVIOUS
<1> USE DEF Init, NoCpi
<1>1. TypeOK
  <2>1. \A S : <<>> \in Seq(S)
    OBVIOUS
  <2>2. cpi \in [touches : SUBSET OrderedRanges, starts : Seq(Int),
                metas : Seq(Addresses[protocol]), infos : Seq(Addresses[protocol])]
    BY <2>1
  <2> QED BY <2>2 DEF TypeOK
<1>2. MeteoraWidth
  BY DEF MeteoraWidth
<1>3. ArraysHoldTheRange
  BY DEF ArraysHoldTheRange
<1>4. AccountListsAgree
  BY DEF AccountListsAgree
<1> QED BY <1>1, <1>2, <1>3, <1>4 DEF ArrayInv

\* Steps that leave the last CPI alone keep what is known of it.
LEMMA CpiUntouched ==
    ASSUME ArrayInv, UNCHANGED <<protocol, cpi>>,
           range' \in OrderedRanges \cup {Null}, pending' \in OrderedRanges \cup {Null},
           MeteoraWidth'
    PROVE  ArrayInv'
<1>1. TypeOK'
  BY DEF ArrayInv, TypeOK
<1>2. ArraysHoldTheRange'
  BY DEF ArrayInv, ArraysHoldTheRange, Held, HoldsTick, HoldsBin
<1>3. AccountListsAgree'
  BY DEF ArrayInv, AccountListsAgree
<1> QED BY <1>1, <1>2, <1>3 DEF ArrayInv

\* Steps that make a CPI on one range.
LEMMA OneRangeStep ==
    ASSUME ArrayInv, protocol' = protocol,
           range' \in OrderedRanges \cup {Null}, pending' \in OrderedRanges \cup {Null},
           MeteoraWidth',
           NEW r \in OrderedRanges,
           NEW lower \in Addresses[protocol], NEW upper \in Addresses[protocol],
           NEW starts \in {<<>>, StartsAnnounced(r)},
           ArraysBound(r, lower, upper),
           protocol = "Meteora" => r[2] <= r[1] + MaxMeteoraBins - 1,
           cpi' = CpiOn(r, starts, lower, upper)
    PROVE  ArrayInv'
<1>1. /\ cpi' \in [touches : SUBSET OrderedRanges, starts : Seq(Int),
                  metas : Seq(Addresses[protocol]), infos : Seq(Addresses[protocol])]
      /\ ArraysHoldTheRange' /\ AccountListsAgree'
  BY CpiOnOneRange
<1>2. TypeOK'
  BY <1>1 DEF ArrayInv, TypeOK
<1> QED BY <1>1, <1>2 DEF ArrayInv

LEMMA ManualRebalancePreserves ==
    ASSUME ArrayInv, NEW r \in Ranges,
           NEW old \in Addresses["Meteora"] \X Addresses["Meteora"],
           NEW new \in Addresses["Meteora"] \X Addresses["Meteora"],
           ManualRebalance(r, old, new)
    PROVE  ArrayInv'
<1> DEFINE S == Addresses["Meteora"]
           list == DistinctBinArrays(old, new)
<1>1. /\ protocol = "Meteora" /\ range # Null /\ BinCountWithinCap(r)
      /\ BinArraysBound(range, old[1], old[2]) /\ BinArraysBound(r, new[1], new[2])
      /\ range' = r /\ protocol' = protocol /\ pending' = pending
      /\ cpi' = [touches |-> {range, r}, starts |-> <<>>, metas |-> list, infos |-> list]
  BY DEF ManualRebalance, BinArrayInfos
<1>2. r \in OrderedRanges /\ r[2] <= r[1] + MaxMeteoraBins - 1
  BY <1>1, MeteoraRangeIsNarrow
<1>3. range \in OrderedRanges /\ range[2] <= range[1] + MaxMeteoraBins - 1
  BY <1>1 DEF ArrayInv, TypeOK, MeteoraWidth
<1>4. /\ old[1] \in S /\ old[2] \in S /\ new[1] \in S /\ new[2] \in S
      /\ old = <<old[1], old[2]>> /\ new = <<new[1], new[2]>>
  OBVIOUS
<1> HIDE DEF S, list
<1>5. /\ list \in Seq(S) /\ OneEntryPerKey(list)
      /\ KeysOf(list) = {old[1], old[2], new[1], new[2]}
  <2> DEFINE a == old[1]
             b == old[2]
             c == new[1]
             d == new[2]
  <2>1. a \in S /\ b \in S /\ c \in S /\ d \in S
    BY <1>4
  <2>2. list = DistinctBinArrays(<<a, b>>, <<c, d>>)
    BY <1>4 DEF list
  <2> HIDE DEF a, b, c, d
  <2>3. /\ list \in Seq(S) /\ OneEntryPerKey(list)
        /\ KeysOf(list) = {a, b, c, d}
    <3>1. /\ DistinctBinArrays(<<a, b>>, <<c, d>>) \in Seq(S)
          /\ KeysOf(DistinctBinArrays(<<a, b>>, <<c, d>>)) = {a, b, c, d}
          /\ OneEntryPerKey(DistinctBinArrays(<<a, b>>, <<c, d>>))
      BY <2>1, DistinctBinArraysKeepEveryKey
    <3> QED BY <2>2, <3>1
  <2> QED BY <2>3 DEF a, b, c, d
<1>6. /\ old[1].pool = Pool /\ old[2].pool = Pool
      /\ \A bin \in range[1] .. range[2] : HoldsBin(old[1], bin) \/ HoldsBin(old[2], bin)
  <2>1. ArraysBound(range, old[1], old[2]) /\ range \in Int \X Int
    BY <1>1, <1>3 DEF ArraysBound, OrderedRanges
  <2> QED BY <1>1, <1>3, <2>1, BoundPairHoldsRange
<1>7. /\ new[1].pool = Pool /\ new[2].pool = Pool
      /\ \A bin \in r[1] .. r[2] : HoldsBin(new[1], bin) \/ HoldsBin(new[2], bin)
  <2>1. ArraysBound(r, new[1], new[2]) /\ r \in Int \X Int
    BY <1>1, <1>2 DEF ArraysBound, OrderedRanges
  <2> QED BY <1>1, <1>2, <2>1, BoundPairHoldsRange
<1>8. /\ cpi'.touches = {range, r} /\ cpi'.starts = <<>>
      /\ cpi'.metas = list /\ cpi'.infos = list
  BY <1>1
<1>9. TypeOK'
  <2>1. <<>> \in Seq(Int) /\ {range, r} \in SUBSET OrderedRanges
    BY <1>2, <1>3
  <2>2. list \in Seq(Addresses[protocol'])
    BY <1>1, <1>5 DEF S
  <2>3. cpi' \in [touches : SUBSET OrderedRanges, starts : Seq(Int),
                 metas : Seq(Addresses[protocol']), infos : Seq(Addresses[protocol'])]
    BY <1>1, <2>1, <2>2
  <2> QED BY <1>1, <1>2, <2>3 DEF ArrayInv, TypeOK
<1>10. MeteoraWidth'
  BY <1>1, <1>2 DEF ArrayInv, MeteoraWidth
<1>11. ArraysHoldTheRange'
  <2>1. \A i \in DOMAIN list : list[i] \in {old[1], old[2], new[1], new[2]}
    BY <1>5 DEF KeysOf
  <2>2. \A i \in DOMAIN list : list[i].pool = Pool
    BY <1>6, <1>7, <2>1
  <2>3. \A key \in {old[1], old[2], new[1], new[2]} : \E i \in DOMAIN list : list[i] = key
    BY <1>5 DEF KeysOf
  <2>4. ASSUME NEW bin \in range[1] .. range[2]
        PROVE  \E i \in DOMAIN list : HoldsBin(list[i], bin)
    BY <1>6, <2>3
  <2>5. ASSUME NEW bin \in r[1] .. r[2]
        PROVE  \E i \in DOMAIN list : HoldsBin(list[i], bin)
    BY <1>7, <2>3
  <2>6. ASSUME NEW x \in {range, r}
        PROVE  Held(x)'
    <3>1. ASSUME NEW bin \in x[1] .. x[2]
          PROVE  \E i \in DOMAIN list : HoldsBin(list[i], bin)
      <4>1. CASE x = range
        BY <2>4, <4>1
      <4>2. CASE x = r
        BY <2>5, <4>2
      <4> QED BY <4>1, <4>2
    <3> QED BY <1>1, <1>8, <3>1 DEF Held
  <2> QED BY <1>8, <2>2, <2>6 DEF ArraysHoldTheRange
<1>12. AccountListsAgree'
  BY <1>5, <1>8 DEF AccountListsAgree, OneEntryPerKey
<1> QED BY <1>9, <1>10, <1>11, <1>12 DEF ArrayInv

LEMMA ArrayStep == ArrayInv /\ [Next]_vars => ArrayInv'
<1> SUFFICES ASSUME ArrayInv, [Next]_vars PROVE ArrayInv'
  OBVIOUS
<1>1. /\ range \in OrderedRanges \cup {Null} /\ pending \in OrderedRanges \cup {Null}
      /\ protocol = "Meteora" /\ range # Null => range[2] <= range[1] + MaxMeteoraBins - 1
      /\ protocol = "Meteora" => pending = Null
  BY DEF ArrayInv, TypeOK, MeteoraWidth
<1>2. ASSUME NEW r \in Ranges, OpenMeteora(r) PROVE ArrayInv'
  <2>1. /\ r \in OrderedRanges /\ r[2] <= r[1] + MaxMeteoraBins - 1
        /\ range' = r /\ pending' = pending /\ UNCHANGED <<protocol, cpi>>
    BY <1>2, MeteoraRangeIsNarrow DEF OpenMeteora
  <2>2. MeteoraWidth'
    BY <1>1, <2>1 DEF MeteoraWidth
  <2> QED BY <1>1, <2>1, <2>2, CpiUntouched
<1>3. ASSUME NEW r \in Ranges,
             NEW lower \in Addresses[protocol], NEW upper \in Addresses[protocol],
             OpenTickRange(r, lower, upper)
      PROVE  ArrayInv'
  <2>1. /\ protocol # "Meteora" /\ r \in OrderedRanges /\ ArraysBound(r, lower, upper)
        /\ range' = r /\ pending' = pending /\ protocol' = protocol
        /\ cpi' = CpiOn(r, StartsAnnounced(r), lower, upper)
    BY <1>3, OrderedRangeIsOrdered DEF OpenTickRange, OpenableTickRange, ArraysBound
  <2>2. MeteoraWidth'
    BY <2>1 DEF MeteoraWidth
  <2> QED BY <1>1, <2>1, <2>2, OneRangeStep
<1>4. ASSUME NEW lower \in Addresses[protocol], NEW upper \in Addresses[protocol],
             UsePosition(lower, upper)
      PROVE  ArrayInv'
  <2>1. /\ range # Null /\ ArraysBound(range, lower, upper)
        /\ range' = range /\ pending' = pending /\ protocol' = protocol
        /\ cpi' = CpiOn(range, <<>>, lower, upper)
    BY <1>4 DEF UsePosition
  <2>2. MeteoraWidth'
    BY <1>1, <2>1 DEF MeteoraWidth
  <2> QED BY <1>1, <2>1, <2>2, OneRangeStep
<1>5. ASSUME ClosePosition PROVE ArrayInv'
  <2>1. range' = Null /\ pending' = pending /\ UNCHANGED <<protocol, cpi>>
    BY <1>5 DEF ClosePosition
  <2>2. MeteoraWidth'
    BY <1>1, <2>1 DEF MeteoraWidth
  <2> QED BY <1>1, <2>1, <2>2, CpiUntouched
<1>6. ASSUME NEW r \in Ranges,
             NEW lower \in Addresses[protocol], NEW upper \in Addresses[protocol],
             StartRebalance(r, lower, upper)
      PROVE  ArrayInv'
  <2>1. /\ protocol # "Meteora" /\ range # Null /\ ArraysBound(range, lower, upper)
        /\ r \in OrderedRanges
        /\ range' = Null /\ pending' = r /\ protocol' = protocol
        /\ cpi' = CpiOn(range, <<>>, lower, upper)
    BY <1>6, OrderedRangeIsOrdered DEF StartRebalance, OpenableTickRange, ArraysBound
  <2>2. MeteoraWidth'
    BY <2>1 DEF MeteoraWidth
  <2> QED BY <1>1, <2>1, <2>2, OneRangeStep
<1>7. ASSUME NEW lower \in Addresses[protocol], NEW upper \in Addresses[protocol],
             RetryPendingRebalance(lower, upper)
      PROVE  ArrayInv'
  <2>1. /\ pending # Null /\ TickArraysBound(pending, lower, upper)
        /\ range' = pending /\ pending' = Null /\ protocol' = protocol
        /\ cpi' = CpiOn(pending, StartsAnnounced(pending), lower, upper)
    BY <1>7 DEF RetryPendingRebalance
  <2>2. protocol # "Meteora"
    BY <1>1, <2>1
  <2>3. ArraysBound(pending, lower, upper)
    BY <2>1, <2>2 DEF ArraysBound
  <2>4. MeteoraWidth'
    BY <2>1, <2>2 DEF MeteoraWidth
  <2> QED BY <1>1, <2>1, <2>2, <2>3, <2>4, OneRangeStep
<1>8. ASSUME CancelPendingRebalance PROVE ArrayInv'
  <2>1. pending' = Null /\ UNCHANGED <<protocol, range, cpi>>
    BY <1>8 DEF CancelPendingRebalance
  <2>2. MeteoraWidth'
    BY <1>1, <2>1 DEF MeteoraWidth
  <2> QED BY <1>1, <2>1, <2>2, CpiUntouched
<1>9. ASSUME NEW r \in Ranges,
             NEW old \in Addresses["Meteora"] \X Addresses["Meteora"],
             NEW new \in Addresses["Meteora"] \X Addresses["Meteora"],
             ManualRebalance(r, old, new)
      PROVE  ArrayInv'
  BY <1>9, ManualRebalancePreserves
<1>10. ASSUME UNCHANGED vars PROVE ArrayInv'
  <2>1. range' = range /\ pending' = pending /\ UNCHANGED <<protocol, cpi>>
    BY <1>10 DEF vars
  <2>2. MeteoraWidth'
    BY <1>1, <2>1 DEF MeteoraWidth
  <2> QED BY <1>1, <2>1, <2>2, CpiUntouched
<1> QED
  BY <1>2, <1>3, <1>4, <1>5, <1>6, <1>7, <1>8, <1>9, <1>10 DEF Next

LEMMA ArrayInvariant == Spec => []ArrayInv
BY ArrayInit, ArrayStep, PTL DEF Spec

\* For every tick spacing, set of ranges and list of accounts a client may
\* pass: the arrays forwarded to a DEX are the vault's pool's own and hold
\* every bin, or both end ticks, of every range the CPI touches.
THEOREM ForwardedArraysHoldTheRange == Spec => []ArraysHoldTheRange
<1>1. ArrayInv => ArraysHoldTheRange
  BY DEF ArrayInv
<1> QED BY <1>1, ArrayInvariant, PTL

\* The deduplicated lists of rebalance_liquidity agree and name no array
\* twice, whatever the overlap of the old pair and the new one.
THEOREM ForwardedListsAgree == Spec => []AccountListsAgree
<1>1. ArrayInv => AccountListsAgree
  BY DEF ArrayInv
<1> QED BY <1>1, ArrayInvariant, PTL

\* Type correctness of the array accounts and of the ranges they are bound to.
THEOREM ArrayTypes == Spec => []TypeOK
<1>1. ArrayInv => TypeOK
  BY DEF ArrayInv
<1> QED BY <1>1, ArrayInvariant, PTL
=============================================================================
