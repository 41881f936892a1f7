----------------------------- MODULE FinnishIds -----------------------------
(***************************************************************************)
(* finId: Finnish reference numbers and business ids, which carry a check  *)
(* digit.  A text is the sequence of its characters: digits and spaces; a  *)
(* business id is cut at its first dash.  The numbers are typed digit by   *)
(* digit, so that every number up to a length is met.                      *)
(***************************************************************************)
EXTENDS Integers, Lists

CONSTANTS TypedDigits, MaxDigits

VARIABLE digits

Space == 10
Undefined == <<>>

Init == digits = <<>>

Type(digit) ==
    /\ Len(digits) < MaxDigits
    /\ digits' = Append(digits, digit)

Next == \E digit \in TypedDigits : Type(digit)

IdsSpec == Init /\ [][Next]_digits

------------------------------------------------------------------------------
\* Reference numbers

OnlyDigits(num) == Those(num, LAMBDA c : c \in 0..9)

refNumLeaveOnlyDigits(num) ==
    LET isDigits == OnlyDigits(num)
        significant == {i \in DOMAIN isDigits : isDigits[i] # 0}
    IN  IF significant = {} THEN <<>> ELSE SubSeq(isDigits, Min(significant), Len(isDigits))

\* Fault: the weight is used before it has started again.
WeightWithZero(k) == <<7, 3, 1, 0>>[(k % 4) + 1]

\* The weight of the digit that k others follow: digits are added up backwards.
Weight(k) == <<7, 3, 1>>[(k % 3) + 1]

refNumCalculateDigit(digitsOnly) ==
    LET size == Len(digitsOnly)
        calc[k \in 0..size] ==
          IF k = 0 THEN 9 ELSE calc[k - 1] + Weight(k - 1) * digitsOnly[size - k + 1]
    IN  9 - (calc[size] % 10)

refNumCreate(num) ==
    LET digitsOnly == refNumLeaveOnlyDigits(num)
    IN  IF Len(digitsOnly) \in 1..19 THEN Append(digitsOnly, refNumCalculateDigit(digitsOnly))
                                     ELSE Undefined

refNumStrip(num) ==
    LET t == OnlyDigits(num)
    IN  SubSeq(t, 1, Len(t) - 1)

refNumCheck(num) ==
    LET created == refNumCreate(refNumStrip(num))
    IN  created # Undefined /\ created = num

refNumParse(num) ==
    IF refNumCheck(refNumLeaveOnlyDigits(num)) THEN refNumLeaveOnlyDigits(num) ELSE Undefined

------------------------------------------------------------------------------
\* Business ids

WithoutSum(id) == [id |-> id, dash |-> FALSE, sum |-> <<>>]
Illegal == WithoutSum(<<>>)

\* A check digit that is given has to be the right one; none need be given.
yTunnusWithSum(t) ==
    LET id  == IF Len(t.id) = 6 THEN <<0>> \o t.id ELSE t.id
        weighted[i \in 0..7] ==
          IF i = 0 THEN 0 ELSE weighted[i - 1] + <<7, 9, 10, 5, 8, 4, 2>>[i] * id[i]
        sum == weighted[7] % 11
        digit == IF sum = 0 THEN 0 ELSE 11 - sum
    IN  IF Len(id) # 7 \/ sum = 1 \/ t.sum \notin {<<>>, <<digit>>}
        THEN Illegal
        ELSE [id |-> id, dash |-> TRUE, sum |-> <<digit>>]

yTunnusCompare(a, b) == yTunnusWithSum(a) = yTunnusWithSum(b)

yTunnusCheck(t) ==
    /\ t.dash
    /\ yTunnusWithSum(t) # Illegal
    /\ yTunnusCompare(t, yTunnusWithSum(t))

------------------------------------------------------------------------------
\* Properties

OneDigitOff(num) == {[num EXCEPT ![i] = d] : i \in DOMAIN num, d \in 0..9} \ {num}

TwoSwapped(num) ==
    {[num EXCEPT ![i] = num[i + 1], ![i + 1] = num[i]] : i \in 1..(Len(num) - 1)} \ {num}

\* A reference number that was made is accepted, also with a space in it; one that
\* differs in a digit is not.
RefNumbersAreSafe ==
    LET num == refNumCreate(digits) IN
    num # Undefined =>
      /\ refNumCheck(num)
      /\ \A other \in OneDigitOff(num) : ~refNumCheck(other) /\ refNumParse(other) = Undefined
      /\ \A i \in 1..Len(num) : refNumParse(InsertAt(num, i, Space)) = num

\* A business id that was made is accepted, also without its leading zero; one that
\* differs in a digit, or with two digits swapped, is not.
BusinessIdsAreSafe ==
    LET t == yTunnusWithSum(WithoutSum(digits)) IN
    t # Illegal =>
      /\ yTunnusCheck(t)
      /\ \A other \in OneDigitOff(t.id) \cup TwoSwapped(t.id) : ~yTunnusCheck([t EXCEPT !.id = other])
      /\ \A d \in 0..9 : <<d>> # t.sum => ~yTunnusCheck([t EXCEPT !.sum = <<d>>])
      /\ t.id[1] = 0 => yTunnusCompare(t, WithoutSum(Tail(t.id)))
==============================================================================
