---------------------------- MODULE MCArithmetic ----------------------------
EXTENDS Arithmetic

\* Zero, one, both sides of the sign, both ends, and a nibble that carries.
Sample == {0, 1, 15, 127, 128, 129, 255}

\* Decimal digits: none, the least, four and five, nine.
Decimals == {16 * hi + lo : hi \in {0, 4, 5, 9}, lo \in {0, 1, 5, 9}}

SampleNumbers == [1 .. 1 -> Sample] \cup [1 .. 2 -> Sample]

\* All bytes of two digits, and numbers of two bytes of sampled digits.
DecimalNumbers == [1 .. 1 -> Digits] \cup [1 .. 2 -> Decimals]

AllJobs == {"add", "sub", "compare", "cmp", "decimal", "left", "right", "inc"}

NoneOrAll == {{}, {"H", "N", "Z", "V", "C"}}
=============================================================================
