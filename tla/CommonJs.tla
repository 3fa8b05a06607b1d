------------------------------ MODULE CommonJs ------------------------------
(***************************************************************************)
(* util.formatPrice of js/common.js: prices are whole fen on the server and *)
(* yuan with two decimals on the pages.  A decimal is the digits before and *)
(* behind its point, as the text the function cuts up.                      *)
(***************************************************************************)
EXTENDS Integers, Sequences, SequencesExt

CONSTANTS Digits,       \* bound: the digits a price is written with
          MaxWhole,     \* bound: digits before the point
          MaxDecimals   \* bound: digits behind it

VARIABLE price          \* the argument of one call

Null == "null"
SeqUpTo(n) == UNION { [1..k -> Digits] : k \in 0..n }
Decimal(whole, decimals) == [whole |-> whole, decimals |-> decimals]

\* What JavaScript writes for a number, and what a page may pass as a string.
Wholes == { w \in SeqUpTo(MaxWhole) : w # <<>> /\ (w[1] = 0 => w = <<0>>) }
Numbers == { Decimal(w, d) : w \in Wholes,
                             d \in { d \in SeqUpTo(MaxDecimals) : d # <<>> => Last(d) # 0 } }
Strings == { Decimal(w, d) : w \in Wholes, d \in SeqUpTo(2) }
Prices == ({"number"} \X Numbers) \cup ({"string"} \X Strings)

\* The number a text of digits stands for (parseInt).
ParseInt(digits) == FoldLeft(LAMBDA n, d : 10 * n + d, 0, digits)

TextLength(d) == Len(d.whole) + (IF d.decimals = <<>> THEN 0 ELSE 1 + Len(d.decimals))

(* Mutant of FormatNumber: two digits before the point are not seen to. *)
FormatNumberLong(d) ==
    LET i == Len(d.whole)
        num == d.whole \o d.decimals
    IN IF ParseInt(num) = 0 THEN Null
       ELSE IF i = 1 THEN Decimal(<<0>>, <<0>> \o num)
       ELSE Decimal(SubSeq(num, 1, i - 2), SubSeq(num, i - 1, Len(num)))

\* The branch for numbers: fen to yuan.
FormatNumber(d) ==
    LET i == Len(d.whole)
        num == d.whole \o d.decimals
    IN IF ParseInt(num) = 0 THEN Null
       ELSE IF TextLength(d) = 1 THEN Decimal(<<0>>, <<0>> \o num)
       ELSE IF TextLength(d) = 2 THEN Decimal(<<0>>, num)
       ELSE IF i = 1 THEN Decimal(<<0>>, <<0>> \o num)
       ELSE IF i = 2 THEN Decimal(<<0>>, num)
       ELSE Decimal(SubSeq(num, 1, i - 2), SubSeq(num, i - 1, Len(num)))

\* The branch for strings: yuan to fen.  The test for one decimal compares the
\* index of the point with the length of p while p is still empty: never true.
FormatString(d) ==
    IF d.decimals = <<>> THEN ParseInt(d.whole \o <<0, 0>>) ELSE ParseInt(d.whole \o d.decimals)

PriceInit == price \in Prices

-----------------------------------------------------------------------------
\* The value of a decimal in units of 10^-k.
Amount(d, k) == ParseInt(d.whole \o [i \in 1..k |-> IF i \in DOMAIN d.decimals
                                                    THEN d.decimals[i] ELSE 0])

\* An amount in fen and the yuan it is shown as are the same money, with at least
\* two decimals, at every length where another branch cuts the text; and a string
\* of yuan with no or two decimals is worth a hundred times as many fen.
PricesConvert ==
    LET d == price[2]
        k == MaxDecimals + 2
    IN IF price[1] = "string"
       THEN Len(d.decimals) # 1 => FormatString(d) = Amount(d, 2)
       ELSE LET shown == FormatNumber(d) IN
            IF Amount(d, k) = 0 THEN shown = Null
            ELSE /\ Amount(shown, k) * 100 = Amount(d, k)
                 /\ Len(shown.decimals) >= 2 /\ shown.whole # <<>>
=============================================================================
