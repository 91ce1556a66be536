----------------------------- MODULE MCRoutines -----------------------------
EXTENDS Routines

\* One byte, and two between which a carry, a borrow or nothing passes.
Sample == {0, 1, 127, 128, 255}
SampleNumbers == [1 .. 1 -> Sample] \cup [1 .. 2 -> {0, 127, 255}]

\* Decimal digits: none, five and nine.
Decimals == {16 * hi + lo : hi \in {0, 5, 9}, lo \in {0, 5, 9}}
DecimalNumbers == [1 .. 1 -> Decimals] \cup [1 .. 2 -> {\h05, \h50, \h99}]

AllJobs == {"add", "sub", "compare", "cmp", "decimal", "left", "right", "inc"}

NoneOrAll == {{}, {"H", "N", "Z", "V", "C"}}

\* Numbers and code across the end of the address space, and across its middle,
\* where an address changes its sign.
Ends == {<<\h0410, \hFFFF, \h7FFF>>, <<\hFFFB, \h2000, \hFFFF - 16>>, <<\h7FFB, \hFFFF, \h3000>>}
=============================================================================
