------------------------------ MODULE MCUnits ------------------------------
(* Values of the constants of TbUnits that are too long for a .cfg file.   *)
EXTENDS TbUnits

AllLengths == 3 .. 258
AllDistances == 1 .. 32768

\* An entry: stored because empty, or short, or asked for; or compressed.
Entry(n, len, level) == [name |-> n, len |-> len, level |-> level]

\* Room for everything; two entries fill the 16-bit count; the third entry is
\* beyond the 32-bit fields; an entry is itself as large as they can tell.
ZipSmall == {[max16 |-> 9, max32 |-> 99,
              files |-> {Entry("a", 0, 6), Entry("b", 2, 6), Entry("c", 6, 6)}],
             [max16 |-> 2, max32 |-> 30,
              files |-> {Entry("a", 0, 6), Entry("c", 5, 6)}],
             [max16 |-> 9, max32 |-> 14,
              files |-> {Entry("b", 2, 0), Entry("d", 15, 0), Entry("e", 15, 6)}]}

\* a, A, b, ab, Ba, a/b: 0 is the slash, c + 10 the capital of c.
ZipNames == {<<1>>, <<11>>, <<2>>, <<1, 2>>, <<12, 1>>, <<1, 0, 2>>}
=============================================================================
