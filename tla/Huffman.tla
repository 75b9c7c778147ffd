------------------------------ MODULE Huffman ------------------------------
(***************************************************************************)
(* The codes of the trace compression (thirdparty/miniz/miniz.c): how the  *)
(* compressor makes a length-limited Huffman code from symbol counts and   *)
(* packs the code sizes, and how the decompressor rebuilds the code from   *)
(* the sizes and decodes with a lookup table and a tree.  Arrays are       *)
(* functions over 0 .. n - 1, as in the source.                            *)
(***************************************************************************)
EXTENDS Integers, Sequences, FiniteSets, FiniteSetsExt

CONSTANTS MaxLen,   \* longest code size of the format (15)
          Fast,     \* TINFL_FAST_LOOKUP_BITS (10)
          Extra18,  \* extra bits of the code size symbol 18 (7)
          SizeBits  \* bits of a code size of the third code (3)

ASSUME HuffAssumption ==
    /\ MaxLen \in Nat \ {0} /\ Fast \in 1 .. MaxLen /\ Extra18 \in Nat
    /\ SizeBits \in Nat \ {0} /\ 2^SizeBits - 1 <= MaxLen

SumOf(f, S) == FoldSet(LAMBDA i, acc : f[i] + acc, 0, S)

(***************************************************************************)
(* tdefl_radix_sort_syms: the used symbols by count, stable.               *)
(***************************************************************************)
Used(freq) == {s \in DOMAIN freq : freq[s] > 0}

SortRank(freq, s) ==
    Cardinality({t \in Used(freq) : freq[t] < freq[s] \/ (freq[t] = freq[s] /\ t < s)})

SortedKeys(freq) ==
    [i \in 0 .. Cardinality(Used(freq)) - 1 |->
        freq[CHOOSE s \in Used(freq) : SortRank(freq, s) = i]]

(***************************************************************************)
(* tdefl_calculate_minimum_redundancy, in place: A[0 .. k] holds the       *)
(* weights of the internal nodes, replaced by the index of their parent    *)
(* once they are joined; A[leaf ..] the counts of the free leaves.         *)
(***************************************************************************)
\* Mutant: a leaf is taken while there is one, whatever the weights.
PickNodeLeafFirst(s, k, n) ==
    IF s.leaf >= n
    THEN [s EXCEPT !.A = [@ EXCEPT ![s.root] = k], !.root = @ + 1, !.w = @ + s.A[s.root]]
    ELSE [s EXCEPT !.leaf = @ + 1, !.w = @ + s.A[s.leaf]]

PickNode(s, k, n) ==
    LET node == s.leaf >= n \/ (s.root < k /\ s.A[s.root] < s.A[s.leaf])
    IN  IF node
        THEN [s EXCEPT !.A = [@ EXCEPT ![s.root] = k], !.root = @ + 1,
                       !.w = @ + s.A[s.root]]
        ELSE [s EXCEPT !.leaf = @ + 1, !.w = @ + s.A[s.leaf]]

ParentsOf(A, n) ==
    LET join[k \in 0 .. n - 2] ==
            IF k = 0
            THEN [A |-> [A EXCEPT ![0] = @ + A[1]], root |-> 0, leaf |-> 2, w |-> 0]
            ELSE LET p == PickNode(PickNode([join[k - 1] EXCEPT !.w = 0], k, n), k, n)
                 IN  [p EXCEPT !.A = [@ EXCEPT ![k] = p.w % 2^16]]
    IN  join[n - 2].A

\* How many leaves there are at each depth.
minimum_redundancy(A) ==
    LET n == Cardinality(DOMAIN A)
        parent == ParentsOf(A, n)
        depth[k \in 0 .. n - 2] == IF k = n - 2 THEN 0 ELSE depth[parent[k]] + 1
        used[d \in 0 .. n] == Cardinality({k \in 0 .. n - 2 : depth[k] = d})
    IN  CASE n = 0 -> [d \in 1 .. MaxLen + n |-> 0]
          [] n = 1 -> [d \in 1 .. MaxLen + n |-> IF d = 1 THEN 1 ELSE 0]
          [] OTHER -> [d \in 1 .. MaxLen + n |->
                          IF d > n THEN 0 ELSE 2 * used[d - 1] - used[d]]

(***************************************************************************)
(* tdefl_huffman_enforce_max_code_size: too long codes are cut to the      *)
(* limit, then shorter ones are split until the code is complete again.    *)
(***************************************************************************)
SplitShorter(num, limit) ==
    LET i == Max({j \in 1 .. limit - 1 : num[j] > 0})
        cut == [num EXCEPT ![limit] = @ - 1]
    IN  [cut EXCEPT ![i] = @ - 1, ![i + 1] = @ + 2]

enforce_max_code_size(num, n, limit) ==
    LET cut == [d \in 1 .. limit |->
                   IF d < limit THEN num[d]
                   ELSE SumOf(num, {e \in DOMAIN num : e >= limit})]
        total == SumOf([d \in 1 .. limit |-> cut[d] * 2^(limit - d)], 1 .. limit)
        split[k \in 0 .. total] ==
            IF k = 0 THEN cut ELSE SplitShorter(split[k - 1], limit)
    IN  IF n <= 1 THEN [d \in 1 .. limit |-> num[d]] ELSE split[total - 2^limit]

(***************************************************************************)
(* tdefl_optimize_huffman_table: the sizes go to the symbols from the most *)
(* frequent one, and the codes are canonical, bit-reversed.                *)
(***************************************************************************)
NumCodes(freq, limit) ==
    enforce_max_code_size(minimum_redundancy(SortedKeys(freq)),
                          Cardinality(Used(freq)), limit)

CodeSizes(freq, limit) ==
    LET num == NumCodes(freq, limit)
        n   == Cardinality(Used(freq))
    IN  [s \in DOMAIN freq |->
            IF freq[s] = 0 THEN 0
            ELSE Min({d \in 1 .. limit :
                         SumOf(num, 1 .. d) >= n - SortRank(freq, s)})]

Reverse(code, size) ==
    LET r[l \in 0 .. size] ==
            IF l = 0 THEN 0 ELSE 2 * r[l - 1] + ((code \div 2^(l - 1)) % 2)
    IN  r[size]

FirstCode(sizes, d) ==
    LET first[i \in 1 .. d] ==
            IF i = 1 THEN 0
            ELSE 2 * (first[i - 1] + Cardinality({s \in DOMAIN sizes : sizes[s] = i - 1}))
    IN  first[d]

huff_code(sizes, s) ==
    Reverse(FirstCode(sizes, sizes[s])
            + Cardinality({t \in DOMAIN sizes : t < s /\ sizes[t] = sizes[s]}),
            sizes[s])

(***************************************************************************)
(* tinfl_decompress, construction of a table: codes up to Fast bits fill   *)
(* the lookup table, longer ones hang in a tree of negative indices.       *)
(***************************************************************************)
CodeAccepted(sizes) ==
    LET n[i \in 1 .. MaxLen] == Cardinality({s \in DOMAIN sizes : sizes[s] = i})
        total[i \in 0 .. MaxLen] ==
            IF i = 0 THEN 0 ELSE 2 * (total[i - 1] + n[i])
    IN  total[MaxLen] = 2^(MaxLen + 1) \/ SumOf(n, 1 .. MaxLen) <= 1

\* Walk down the tree for the bits above the lookup index, adding nodes.
Descend(st, rev, size) ==
    LET idx == rev % 2^Fast
        top == IF st.look[idx] # 0 THEN [st EXCEPT !.cur = st.look[idx]]
               ELSE [st EXCEPT !.look = [@ EXCEPT ![idx] = st.next],
                               !.cur = st.next, !.next = @ - 2]
        Side(x, l) == x - ((rev \div 2^l) % 2)
        walk[l \in Fast .. size - 1] ==
            IF l = Fast THEN top
            ELSE LET w == walk[l - 1]
                     c == Side(w.cur, l - 1)
                     e == w.tree[-c - 1]
                 IN  IF e # 0 THEN [w EXCEPT !.cur = e]
                     ELSE [w EXCEPT !.tree = [@ EXCEPT ![-c - 1] = w.next],
                                    !.cur = w.next, !.next = @ - 2]
    IN  [walk[size - 1] EXCEPT !.cur = Side(@, size - 1)]

AddCode(st, s, sizes) ==
    LET size == sizes[s]
        rev  == huff_code(sizes, s)
        leaf == Descend(st, rev, size)
    IN  IF size = 0 THEN st
        ELSE IF size <= Fast
        THEN [st EXCEPT !.look = [i \in DOMAIN @ |->
                 IF i % 2^size = rev THEN 512 * size + s ELSE @[i]]]
        ELSE [leaf EXCEPT !.tree = [@ EXCEPT ![-leaf.cur - 1] = s]]

BuildTable(sizes) ==
    LET n == Cardinality(DOMAIN sizes)
        add[k \in 0 .. n] ==
            IF k = 0 THEN [look |-> [i \in 0 .. 2^Fast - 1 |-> 0],
                           tree |-> [i \in 0 .. 2 * n |-> 0], next |-> -1, cur |-> 0]
            ELSE AddCode(add[k - 1], k - 1, sizes)
    IN  add[n]

\* One path through the tree: the entry reached and the bits it took.
TreeWalk(tab, temp, bits, avail) ==
    LET go[l \in Fast .. MaxLen] ==
            IF l = Fast THEN temp
            ELSE IF go[l - 1] >= 0 \/ l > avail THEN go[l - 1]
            ELSE tab.tree[-go[l - 1] - 1 + ((bits \div 2^(l - 1)) % 2)]
        len == Min({l \in Fast .. MaxLen : go[l] = go[MaxLen]})
    IN  [sym |-> go[MaxLen], len |-> len]

(***************************************************************************)
(* TINFL_HUFF_DECODE and TINFL_HUFF_BITBUF_FILL.                           *)
(***************************************************************************)
huff_decode(tab, bits) ==
    LET temp == tab.look[bits % 2^Fast]
    IN  IF temp >= 0 THEN [sym |-> temp % 512, len |-> temp \div 512]
        ELSE TreeWalk(tab, temp, bits, MaxLen)

\* Mutant: the number of bits there are is not compared with the code's length.
bitbuf_filledEarly(tab, bits, avail) ==
    LET temp == tab.look[bits % 2^Fast]
    IN  IF temp >= 0 THEN temp \div 512 > 0
        ELSE avail > Fast /\ TreeWalk(tab, temp, bits, avail).sym >= 0

\* The code is whole in the first avail bits: no byte is read for it.
bitbuf_filled(tab, bits, avail) ==
    LET temp == tab.look[bits % 2^Fast]
    IN  IF temp >= 0 THEN temp \div 512 > 0 /\ avail >= temp \div 512
        ELSE avail > Fast /\ TreeWalk(tab, temp, bits, avail).sym >= 0

(***************************************************************************)
(* tdefl_start_dynamic_block: the code sizes as runs, with the symbols 16  *)
(* (repeat), 17 and 18 (zeros).  Runs of zeros end at the longest of 18.   *)
(***************************************************************************)
LongestZeros == 11 + 2^Extra18 - 1

Times(n, x) == [i \in 1 .. n |-> x]

\* Count the symbol and put it n times, or once with its extra bits.
Emit(st, sym, n) == [st EXCEPT !.cnt[sym] = @ + n, !.out = @ \o Times(n, sym)]
EmitRun(st, sym, extra) == [st EXCEPT !.cnt[sym] = @ + 1, !.out = @ \o <<sym, extra>>]

RLE_PREV_CODE_SIZE(st) ==
    LET put == CASE st.rep = 0 -> st
                 [] st.rep \in 1 .. 2 -> Emit(st, st.prev, st.rep)
                 [] OTHER -> EmitRun(st, 16, st.rep - 3)
    IN  [put EXCEPT !.rep = 0]

RLE_ZERO_CODE_SIZE(st) ==
    LET put == CASE st.z < 3 -> Emit(st, 0, st.z)
                 [] st.z \in 3 .. 10 -> EmitRun(st, 17, st.z - 3)
                 [] OTHER -> EmitRun(st, 18, st.z - 11)
    IN  [put EXCEPT !.z = 0]

PackSize(st, c) ==
    LET zero == [RLE_PREV_CODE_SIZE(st) EXCEPT !.z = @ + 1]
        flat == RLE_ZERO_CODE_SIZE(st)
        same == [flat EXCEPT !.rep = @ + 1]
        next == CASE c = 0 -> IF zero.z = LongestZeros THEN RLE_ZERO_CODE_SIZE(zero) ELSE zero
                  [] c # 0 /\ c # st.prev -> Emit(RLE_PREV_CODE_SIZE(flat), c, 1)
                  [] OTHER -> IF same.rep = 6 THEN RLE_PREV_CODE_SIZE(same) ELSE same
    IN  [next EXCEPT !.prev = c]

pack_code_sizes(sizes) ==
    LET n == Len(sizes)
        pack[i \in 0 .. n] ==
            IF i = 0 THEN [out |-> <<>>, cnt |-> [s \in 0 .. 18 |-> 0],
                           z |-> 0, rep |-> 0, prev |-> 255]
            ELSE PackSize(pack[i - 1], sizes[i])
        last == pack[n]
    IN  IF last.rep > 0 THEN RLE_PREV_CODE_SIZE(last) ELSE RLE_ZERO_CODE_SIZE(last)

syms_swizzle == <<16, 17, 18, 0, 8, 7, 9, 6, 10, 5, 11, 4, 12, 3, 13, 2, 14, 1, 15>>

\* The header of a dynamic block: a third code for the packed sizes, its own
\* sizes in the order of syms_swizzle without the unused ones at the end.
start_dynamic_block(sizes) ==
    LET st   == pack_code_sizes(sizes)
        third == CodeSizes(st.cnt, 2^SizeBits - 1)
        num  == Max({4} \cup {i \in 1 .. 19 : third[syms_swizzle[i]] > 0})
    IN  [packed |-> st.out, lengths |-> [i \in 1 .. num |-> third[syms_swizzle[i]]]]

\* tinfl_decompress: the sizes of the third code, by symbol.
s_length_dezigzag == <<16, 17, 18, 0, 8, 7, 9, 6, 10, 5, 11, 4, 12, 3, 13, 2, 14, 1, 15>>
read_bit_lengths(lengths) ==
    [s \in 0 .. 18 |-> LET i == CHOOSE j \in 1 .. 19 : s_length_dezigzag[j] = s
                       IN  IF i <= Len(lengths) THEN lengths[i] ELSE 0]

\* tinfl_decompress reads them back; <<"failed">> is TINFL_STATUS_FAILED.
unpack_code_sizes(packed, total) ==
    LET n == Len(packed)
        read[i \in 0 .. n] ==
            IF i = 0 THEN [out |-> <<>>, arg |-> FALSE]
            ELSE LET st == read[i - 1]
                     c  == packed[i]
                 IN  IF st.arg
                     THEN LET op == packed[i - 1] IN
                          [out |-> st.out \o Times(c + (IF op = 18 THEN 11 ELSE 3),
                                      IF op = 16 THEN st.out[Len(st.out)] ELSE 0),
                           arg |-> FALSE]
                     ELSE IF c < 16 THEN [st EXCEPT !.out = Append(@, c)]
                     ELSE [st EXCEPT !.arg = TRUE]
    IN  IF \/ (n > 0 /\ packed[1] = 16)
           \/ Len(read[n].out) # total
        THEN <<"failed">> ELSE read[n].out

(***************************************************************************)
(* Lengths and distances of matches: symbols and extra bits of the         *)
(* compressor's tables, bases and extra bits of the decompressor's.        *)
(***************************************************************************)
\* s_tdefl_len_sym and s_tdefl_len_extra, indexed by the length - 3: eight
\* symbols of one length, then four symbols for each count of extra bits.
len_extra(l) ==
    IF l < 8 \/ l = 255 THEN 0 ELSE CHOOSE e \in 1 .. 5 : 2^(e + 2) <= l /\ l < 2^(e + 3)
len_sym(l) ==
    CASE l < 8 -> 257 + l
      [] l = 255 -> 285
      [] OTHER -> LET e == len_extra(l) IN 261 + 4 * e + ((l - 2^(e + 2)) \div 2^e)

\* s_tdefl_small_dist_* and s_tdefl_large_dist_*, indexed by the distance - 1
\* and by its upper bits: two symbols for each count of extra bits.
small_dist_extra(d) ==
    IF d < 4 THEN 0 ELSE CHOOSE e \in 1 .. 7 : 2^(e + 1) <= d /\ d < 2^(e + 2)
small_dist_sym(d) ==
    LET e == small_dist_extra(d) IN IF d < 4 THEN d ELSE 2 * e + (d \div 2^e)
large_dist_extra(h) == IF h < 2 THEN 0 ELSE CHOOSE e \in 8 .. 13 : 2^(e - 7) <= h /\ h < 2^(e - 6)
large_dist_sym(h) ==
    LET e == large_dist_extra(h) IN IF h < 2 THEN 0 ELSE 2 * e + (h \div 2^(e - 8))

s_length_base == <<3, 4, 5, 6, 7, 8, 9, 10, 11, 13, 15, 17, 19, 23, 27, 31, 35, 43,
                   51, 59, 67, 83, 99, 115, 131, 163, 195, 227, 258>>
s_dist_base == <<1, 2, 3, 4, 5, 7, 9, 13, 17, 25, 33, 49, 65, 97, 129, 193, 257,
                 385, 513, 769, 1025, 1537, 2049, 3073, 4097, 6145, 8193, 12289,
                 16385, 24577>>
s_length_extra(sym) == IF sym < 265 \/ sym = 285 THEN 0 ELSE (sym - 261) \div 4
s_dist_extra(sym) == IF sym < 4 THEN 0 ELSE (sym - 2) \div 2

\* What tdefl_compress_lz_codes sends for a match, and what tinfl_decompress
\* makes of it.
SendMatch(len, dist) ==
    LET l == len - 3
        d == dist - 1
        e == IF d < 512 THEN small_dist_extra(d) ELSE large_dist_extra(d \div 256)
    IN  [lsym |-> len_sym(l), lbits |-> l % 2^len_extra(l), lwidth |-> len_extra(l),
         dsym |-> IF d < 512 THEN small_dist_sym(d) ELSE large_dist_sym(d \div 256),
         dbits |-> d % 2^e, dwidth |-> e]

ReceiveMatch(m) ==
    <<s_length_base[m.lsym - 256] + m.lbits, s_dist_base[m.dsym + 1] + m.dbits>>
=============================================================================
