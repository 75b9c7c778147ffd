------------------------------ MODULE TbUnits ------------------------------
(***************************************************************************)
(* The units of the test environment that run on their own: each is given  *)
(* one input and run once, except the archive and its iterator, which are  *)
(* called several times, and the interrupt test, which runs to its end.    *)
(*   huffman    code of a deflate block and the tables that decode it      *)
(*   rle        code sizes of a dynamic block, packed and unpacked         *)
(*   match      length and distance of a match, sent and received          *)
(*   amo        scoreboard's atomic unit and the memory's                  *)
(*   fault      fault mask put into the words of a data or directory RAM   *)
(*   fill       memory read response merged into the scoreboard's memory   *)
(*   irq        IrqTest                                                    *)
(*   archive    Zip, the archive written and read                          *)
(*   iter       Zip, an entry extracted piece by piece                     *)
(*   locate     names of an archive, sorted and looked for                 *)
(***************************************************************************)
EXTENDS Huffman, TbTransaction, IrqTest, Zip

CONSTANTS Units, Symbols, Freqs, Limits, RunLens, RunSizes, MaxRuns,
          Lengths, Distances, AccessWords, LineWords, MemWidths, Names, MaxNames

ASSUME UnitsAssumption ==
    /\ Units \subseteq {"huffman", "rle", "match", "amo", "fault", "fill", "irq", "archive",
                        "iter", "locate"}
    /\ Symbols \in Nat /\ Freqs \subseteq Nat /\ Limits \subseteq 1 .. MaxLen
    /\ Lengths \subseteq 3 .. 258 /\ Distances \subseteq 1 .. 32768
    /\ MemWidths \subseteq {64, 128, 256, 512} /\ Extra18 <= 4

VARIABLES unit, arg, out

unitVars == <<unit, arg, out>>
None == <<>>

(***************************************************************************)
(* hpdcache_fault_injection: the mask is a set of bit positions; lv holds  *)
(* the 32-bit words given to the RAM, each a set of bit positions.         *)
(***************************************************************************)
getParBits(width) == IF width < 64 THEN 7 ELSE 8

\* Mutant: the head of the mask is not shifted to where the way starts.
ChunkUnshifted(mask, lo, hi, shift) == {i - lo : i \in mask \cap (lo .. hi - 1)}

Chunk(mask, lo, hi, shift) == {i - lo + shift : i \in mask \cap (lo .. hi - 1)}

\* Words of 32 bits until the directory entry and its parity are covered.
injectDirFault(tagWidth, mask) ==
    LET bits == tagWidth + 4 + getParBits(tagWidth + 4)
    IN  [b \in 0 .. (bits - 1) \div 32 |->
            Chunk(mask, 32 * b, IF 32 * (b + 1) > bits THEN bits ELSE 32 * (b + 1), 0)]

\* Head, middle and tail of the word, from the bit where its way starts.
injectDatFault(width, perRam, way, mask) ==
    LET bits   == width + getParBits(width)
        offset == (way % perRam) * bits
        first  == offset \div 32
        head   == IF bits >= 32 THEN 32 - (offset % 32) ELSE bits
        middle == (bits - head) \div 32
        tail   == (bits - head) % 32
    IN  [b \in 0 .. (bits * perRam - 1) \div 32 |->
            CASE b = first -> Chunk(mask, 0, head, offset % 32)
              [] b > first /\ b <= first + middle ->
                    LET lo == head + 32 * (b - first - 1) IN Chunk(mask, lo, lo + 32, 0)
              [] b = first + middle + 1 /\ tail > 0 ->
                    Chunk(mask, head + 32 * middle, head + 32 * middle + tail, 0)
              [] OTHER -> {}]

\* getScope and the index: which RAM, which of its entries.
FaultCell(perRam, set, way, word) ==
    <<way \div perRam, word % AccessWords, (set * LineWords + word) \div AccessWords,
      way % perRam>>

RamBitsOf(lv) == UNION {{32 * b + i : i \in lv[b]} : b \in DOMAIN lv}

(***************************************************************************)
(* mem_read_resp_process: the bytes of the beat that the scoreboard's      *)
(* memory (ram_model) does not have yet are taken from the response.       *)
(* A 64-bit value is the set of its bits; the shift counts that C leaves   *)
(* undefined (64, negative) are taken modulo 64, as the processor does.    *)
(***************************************************************************)
Shl(bits, count) == {i + (count % 64) : i \in bits} \cap (0 .. 63)
Ones(bytes) == 0 .. (bytes % 64) - 1          \* (1UL << bytes) - 1

FillEnables(width, addr, bytes, unset) ==
    LET memBytes == width \div 8
        word     == (addr \div memBytes) % (width \div 64)
        byte     == addr % memBytes
        Mask(i)  == Shl(Ones(bytes - 8 * (i - word)), byte - 8 * i) \cap (0 .. 7)
        words    == {i \in word .. word + (bytes - 1) \div 8 : i < width \div 64}
    IN  UNION {{8 * i + b : b \in Mask(i)} : i \in words} \cap unset

\* ram_model: memory and bitmap together; a byte without its bit is "unset".
\* Mutant: the bitmap of written bytes is ignored.
getBmapNone(ram, b) == FALSE

getBmap(ram, b) == ram[b] # "unset"
ramWrite(ram, enables, base, what) ==
    [b \in DOMAIN ram |-> IF b - base \in enables THEN what ELSE ram[b]]

mem_read_fill(a) ==
    LET base  == a.addr - (a.addr % (a.width \div 8))
        unset == {i \in 0 .. (a.width \div 8) - 1 : ~ getBmap(a.ram, base + i)}
    IN  ramWrite(a.ram, FillEnables(a.width, a.addr, a.bytes, unset), base, "response")

(***************************************************************************)
(* Inputs.                                                                 *)
(***************************************************************************)
Runs == UNION {[1 .. k -> RunSizes \X RunLens] : k \in 1 .. MaxRuns}
Flatten(r) == LET f[i \in 0 .. Len(r)] ==
                      IF i = 0 THEN <<>> ELSE f[i - 1] \o Times(r[i][2], r[i][1])
              IN  f[Len(r)]

MaskOf(bits) == {{i} : i \in 0 .. bits - 1} \cup {0 .. bits - 1}

Rams(width) == {[b \in 0 .. (width \div 4) - 1 |-> IF b \in own THEN "own" ELSE "unset"] :
                   own \in {{}, {b \in 0 .. (width \div 4) - 1 : b % 8 \in {0, 5}}}}

Inputs ==
    CASE unit = "huffman" -> [freq : [0 .. Symbols - 1 -> Freqs], limit : Limits]
      [] unit = "rle" -> {Flatten(r) : r \in Runs}
      [] unit = "match" -> (Lengths \X {1, 32768}) \cup ({3, 258} \X Distances)
      [] unit = "amo" -> [op : AmoOps, ld : Val, st : Val, half : BOOLEAN]
      [] unit = "fault" ->
            UNION {{[kind |-> "dat", width |-> w, perRam |-> p, way |-> y, mask |-> m] :
                       m \in MaskOf(w + getParBits(w))} :
                   w \in {32, 64}, p \in {1, 2, 4}, y \in 0 .. 3}
            \cup UNION {{[kind |-> "dir", width |-> w, mask |-> m] :
                            m \in MaskOf(w + 4 + getParBits(w + 4))} : w \in 18 .. 28}
      [] unit = "fill" ->
            UNION {{[width |-> w, addr |-> n * k, bytes |-> n, ram |-> ram] :
                       k \in 0 .. ((w \div 4) \div n) - 1, ram \in Rams(w)} :
                   <<w, n>> \in {<<w, n>> \in MemWidths \X {1, 2, 4, 8, 16, 32, 64} :
                                    n <= w \div 8}}
      [] unit = "locate" -> UNION {[1 .. n -> Names] : n \in 1 .. MaxNames}
      [] unit \in {"irq", "archive", "iter"} -> {None}

\* The iterator has an archive of one entry, whole or with damaged data.
ZipInit ==
    /\ zw = Closed /\ zg = Known
    /\ IF unit = "iter"
       THEN \E c \in ZipCases : \E e \in {f \in c.files : f.len < c.max32} :
            \E d \in 0 .. Len(Packed(e)) :
               /\ zlim = c /\ zfile = [exists |-> TRUE, cells |-> Damaged(e, d)]
               /\ zi = [NoIter EXCEPT !.e = e, !.hurt = d > 0]
       ELSE /\ IF unit = "archive" THEN zlim \in ZipCases ELSE zlim = CHOOSE c \in ZipCases : TRUE
            /\ zfile = Absent /\ zi = NoIter

Init == unit \in Units /\ arg \in Inputs /\ out = None /\ IrqInit /\ ZipInit

(***************************************************************************)
(* One action for each unit.                                               *)
(***************************************************************************)
Run(u, result) ==
    /\ unit = u /\ out = None /\ out' = <<result>>
    /\ UNCHANGED <<unit, arg, irqVars, zipVars>>

OptimizeTable == unit = "huffman" /\ Run("huffman", CodeSizes(arg.freq, arg.limit))
PackCodeSizes == unit = "rle" /\ Run("rle", start_dynamic_block(arg))
CodeMatch     == unit = "match" /\ Run("match", SendMatch(arg[1], arg[2]))
ComputeAtomic ==
    /\ unit = "amo"
    /\ LET x(v) == IF arg.half THEN v % 2^(W \div 2) ELSE v
       IN  Run("amo", <<ComputeAmo(arg.op, x(arg.ld), x(arg.st), arg.half),
                        MemComputeAmo(MemAtomicOf[arg.op], x(arg.ld),
                                      x(MemDataOf(arg.op, arg.st)), arg.half)>>)
InjectFault ==
    /\ unit = "fault"
    /\ Run("fault", IF arg.kind = "dir" THEN injectDirFault(arg.width, arg.mask)
                    ELSE injectDatFault(arg.width, arg.perRam, arg.way, arg.mask))
FillScoreboard == unit = "fill" /\ Run("fill", mem_read_fill(arg))
RunIrqTest == unit = "irq" /\ IrqStep /\ UNCHANGED <<unitVars, zipVars>>
FailIrqTest == unit = "irq" /\ CoreFault /\ UNCHANGED <<unitVars, zipVars>>
SortNames == unit = "locate" /\ Run("locate", sort_central_dir(arg))
UseArchive == unit = "archive" /\ ArchiveStep /\ UNCHANGED <<unitVars, irqVars>>
ReadPieces == unit = "iter" /\ IterStep /\ UNCHANGED <<unitVars, irqVars>>

Next == \/ OptimizeTable \/ PackCodeSizes \/ CodeMatch \/ ComputeAtomic
        \/ InjectFault \/ FillScoreboard \/ RunIrqTest \/ FailIrqTest
        \/ SortNames \/ UseArchive \/ ReadPieces

vars == <<unitVars, irqVars, zipVars>>

\* The core that runs the interrupt test does not stop; it need not fail.
Spec == Init /\ [][Next]_vars /\ WF_vars(RunIrqTest)

(***************************************************************************)
(* Properties.                                                             *)
(***************************************************************************)
Done(u) == unit = u /\ out # None

\* Complete prefix codes of n symbols: the Kraft sum is one.
Complete == [n \in 2 .. Symbols |->
    {l \in [1 .. n -> 1 .. n - 1] :
        SumOf([i \in 1 .. n |-> 2^(n - 1 - l[i])], 1 .. n) = 2^(n - 1)}]

Cost(freq, sizes) == SumOf([s \in DOMAIN freq |-> freq[s] * sizes[s]], DOMAIN freq)

\* The in-place algorithm of tdefl_calculate_minimum_redundancy is optimal: as
\* long as the limit does not shorten a code, no complete prefix code needs
\* fewer bits for the counts.
HuffmanOptimal ==
    Done("huffman") =>
        LET keys  == SortedKeys(arg.freq)
            n     == Cardinality(DOMAIN keys)
            depth == Max({0} \cup {d \in DOMAIN minimum_redundancy(keys) :
                                      minimum_redundancy(keys)[d] > 0})
        IN  (n >= 2 /\ depth <= arg.limit) =>
                \A l \in Complete[n] :
                    Cost(arg.freq, out[1]) <= SumOf([i \in 1 .. n |-> keys[i - 1] * l[i]], 1 .. n)

\* The symbols among the packed sizes; the extra bits follow their symbol and
\* are below 16 (Extra18 at most 4).
SentSymbols(packed) ==
    {packed[i] : i \in {j \in 1 .. Len(packed) : j = 1 \/ packed[j - 1] < 16}}

\* What the compressor sends is received as it was.  Codes: whatever the counts
\* and the limit, the decompressor accepts the sizes, with the tables it builds
\* from them every code followed by any bits gives its own symbol and length,
\* and TINFL_HUFF_BITBUF_FILL asks for another byte exactly when the code is not
\* whole, so it never reads past the last code.  Code sizes: packing them in
\* runs and unpacking them is the identity, every run length fits the extra bits
\* of its symbol (2, 3 and Extra18), and the sizes of the code used for this fit
\* their field, make a code the decompressor accepts and give one to every
\* symbol that is sent.  Matches: length and distance, with the same number of
\* extra bits in both tables.
SentIsReceived ==
    /\ Done("huffman") =>
        LET sizes == out[1]
            tab   == BuildTable(sizes)
        IN  /\ CodeAccepted(sizes)
            /\ \A s \in DOMAIN sizes : (sizes[s] > 0) = (arg.freq[s] > 0)
            /\ \A s \in Used(arg.freq) :
                 /\ sizes[s] <= arg.limit
                 /\ \A rest \in 0 .. 2^(MaxLen - sizes[s]) - 1 :
                      LET bits == huff_code(sizes, s) + rest * 2^sizes[s] IN
                      /\ huff_decode(tab, bits) = [sym |-> s, len |-> sizes[s]]
                      /\ \A avail \in 0 .. MaxLen :
                            bitbuf_filled(tab, bits % 2^avail, avail) = (avail >= sizes[s])
    /\ Done("rle") =>
        LET packed == out[1].packed
            third  == read_bit_lengths(out[1].lengths)
        IN  /\ unpack_code_sizes(packed, Len(arg)) = arg
            /\ \A i \in 1 .. Len(packed) - 1 :
                 /\ packed[i] = 16 => packed[i + 1] \in 0 .. 3
                 /\ packed[i] = 17 => packed[i + 1] \in 0 .. 7
                 /\ packed[i] = 18 => packed[i + 1] \in 0 .. 2^Extra18 - 1
            /\ CodeAccepted(third)
            /\ \A s \in 0 .. 18 :
                 /\ third[s] \in 0 .. 2^SizeBits - 1
                 /\ third[s] > 0 <=> s \in SentSymbols(packed)
    /\ Done("match") =>
        /\ ReceiveMatch(out[1]) = arg
        /\ out[1].lwidth = s_length_extra(out[1].lsym)
        /\ out[1].dwidth = s_dist_extra(out[1].dsym)

\* The atomic units of the scoreboard and of the memory model compute the same
\* value in the bytes the access writes, for the operation and the operand the
\* cache translates: else every AMO of the test would be a false alarm.
AmoUnitsAgree ==
    Done("amo") =>
        LET n == IF arg.half THEN W \div 2 ELSE W
        IN  out[1][1] % 2^n = out[1][2] % 2^n

\* Every bit of a fault mask reaches the bit of the RAM that holds it, and no
\* other bit is flipped; distinct words of the cache are in distinct cells.
FaultPlaced ==
    /\ Done("fault") =>
          RamBitsOf(out[1]) =
              IF arg.kind = "dir" THEN arg.mask
              ELSE {(arg.way % arg.perRam) * (arg.width + getParBits(arg.width)) + i :
                       i \in arg.mask}
    /\ unit = "fault" /\ arg.kind = "dat" =>
          \A s1, s2 \in 0 .. 1, w1, w2 \in 0 .. 3, i1, i2 \in 0 .. LineWords - 1 :
              FaultCell(arg.perRam, s1, w1, i1) = FaultCell(arg.perRam, s2, w2, i2)
                  => <<s1, w1, i1>> = <<s2, w2, i2>>

\* "update uninitialized bytes of the scoreboard memory with the response from
\* the external memory": every byte that was read and that the scoreboard did
\* not have is taken from the response, and no other byte changes.
FillComplete ==
    Done("fill") =>
        out[1] = [b \in DOMAIN arg.ram |->
                     IF b \in arg.addr .. arg.addr + arg.bytes - 1 /\ arg.ram[b] = "unset"
                     THEN "response" ELSE arg.ram[b]]

\* The index of names is sorted and complete: a name is found exactly when some
\* entry has it (with or without case, with or without its path), and the entry
\* found has it.
NamesFound ==
    Done("locate") =>
        LET base == {BaseName(arg[i]) : i \in 1 .. Len(arg)}
            Hit(n, exact, nopath, i) ==
                string_equal(n, IF nopath THEN BaseName(arg[i]) ELSE arg[i], exact)
        IN  \A n \in Names \cup base, exact, nopath \in BOOLEAN :
                LET found == locate_file(arg, out[1], n, exact, nopath)
                IN  IF found = -1 THEN \A i \in 1 .. Len(arg) : ~ Hit(n, exact, nopath, i)
                    ELSE Hit(n, exact, nopath, found + 1)

\* The test of a core that behaves ends: main never waits for an interrupt
\* that was served before it looked, or that is masked.
IrqTestEnds == (unit = "irq") ~> (fw.pc = "done" \/ fault.kind # "none")
=============================================================================
