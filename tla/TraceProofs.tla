---------------------------- MODULE TraceProofs ----------------------------
(***************************************************************************)
(* Proofs about the way of a trace from the guest to the test, for any     *)
(* sizes of dictionary, matches, buffers and code buffer, any guest and    *)
(* any choice of matches and raw blocks.                                   *)
(*                                                                         *)
(* The recorder with its compressor: what is in the dictionary, and so all *)
(* that is written to the file, is true of the stream, and the units come  *)
(* in the order the decompressor expects.                                  *)
(*                                                                         *)
(* The reader with its decompressor: wherever the file and the output are  *)
(* cut, the bytes it gives are those of the stream, and the transactions   *)
(* made out of them are the accesses of the guest.                         *)
(***************************************************************************)
EXTENDS TracePath, FiniteSetTheorems, SequenceTheorems, WellFoundedInduction, TLAPS

\* Min of a set of naturals that is not empty is its least element.
LEMMA MinNat ==
    ASSUME NEW S \in SUBSET Nat, S # {}
    PROVE  Min(S) \in S /\ \A y \in S : Min(S) <= y
<1>1. PICK x \in S : \A y \in S : ~(<<y, x>> \in OpToRel(<, Nat))
  BY NatLessThanWellFounded, WFMin
<1>2. ASSUME NEW y \in S
      PROVE  x <= y
  <2>1. ~(y < x)
    <3> SUFFICES ASSUME y < x
                 PROVE  FALSE
      OBVIOUS
    <3>1. <<y, x>> \in OpToRel(<, Nat)
      BY DEF OpToRel
    <3> QED
      BY <1>1, <3>1
  <2> QED
    BY <2>1
<1> QED
  BY <1>2 DEF Min

-----------------------------------------------------------------------------
(* The trace recorder: the bytes that the plugin gives to the compressor.    *)

\* The bytes of the records of s, cut after each record.
Flat(s, g) ==
    g = [i \in 0 .. Len(s) |->
            IF i = 0 THEN <<>> ELSE g[i - 1] \o write_in_file(s[i], s[i].insns)]

\* What a concatenation is, by its elements.
LEMMA JoinIs ==
    ASSUME NEW x \in Seq(Nat), NEW y \in Seq(Nat), NEW c \in Seq(Nat),
           Len(c) = Len(x) + Len(y), \A i \in 1 .. Len(x) : c[i] = x[i],
           \A i \in 1 .. Len(y) : c[Len(x) + i] = y[i]
    PROVE  x \o y = c
<1>1. /\ x \o y \in Seq(Nat) /\ Len(x \o y) = Len(x) + Len(y)
      /\ \A i \in 1 .. Len(x) + Len(y) : (x \o y)[i] = IF i <= Len(x) THEN x[i] ELSE y[i - Len(x)]
  BY ConcatProperties
<1>2. ASSUME NEW i \in 1 .. Len(x) + Len(y)
      PROVE  (x \o y)[i] = c[i]
  <2>1. CASE i <= Len(x)
    BY <1>1, <2>1
  <2>2. CASE ~ (i <= Len(x))
    <3>1. PICK k : k = i - Len(x)
      OBVIOUS
    <3>2. k \in 1 .. Len(y) /\ Len(x) + k = i
      BY <2>2, <3>1
    <3> QED
      BY <1>1, <2>2, <3>1, <3>2
  <2> QED
    BY <2>1, <2>2
<1>3. PICK k : k = x \o y
  OBVIOUS
<1> QED
  BY <1>1, <1>2, <1>3, SeqEqual

\* The fields of a record put together.
LEMMA Joined ==
    ASSUME NEW p \in Nat, NEW l \in Nat, NEW h \in Nat, NEW s \in Nat, NEW f \in Nat, NEW v \in Nat
    PROVE  /\ <<p>> \o <<l, h>> \o <<s, f>> \o <<v>> = <<p, l, h, s, f, v>>
           /\ <<p>> \o <<l, h>> \o <<s, f>> \o <<>> = <<p, l, h, s, f>>
           /\ <<p>> \o <<l>> \o <<s, f>> \o <<v>> = <<p, l, s, f, v>>
           /\ <<p>> \o <<l>> \o <<s, f>> \o <<>> = <<p, l, s, f>>
<1>1. <<p>> \o <<l, h>> = <<p, l, h>>
  <2>1. PICK x, y, c : x = <<p>> /\ y = <<l, h>> /\ c = <<p, l, h>>
    OBVIOUS
  <2>2. x \in Seq(Nat) /\ y \in Seq(Nat) /\ c \in Seq(Nat)
    BY <2>1
  <2>3. Len(x) = 1 /\ Len(y) = 2 /\ Len(c) = 3
    BY <2>1
  <2>4. c[1] = x[1]
    BY <2>1
  <2>5. c[2] = y[1] /\ c[3] = y[2]
    BY <2>1
  <2>6. \A i \in 1 .. Len(x) : c[i] = x[i]
    BY <2>3, <2>4
  <2>7. \A i \in 1 .. Len(y) : c[Len(x) + i] = y[i]
    BY <2>3, <2>5
  <2>8. Len(c) = Len(x) + Len(y)
    BY <2>3
  <2>9. x \o y = c
    BY ONLY <2>2, <2>6, <2>7, <2>8, JoinIs, Zenon
  <2> QED
    BY <2>1, <2>9, Zenon
<1>2. <<p>> \o <<l>> = <<p, l>>
  <2>1. PICK x, y, c : x = <<p>> /\ y = <<l>> /\ c = <<p, l>>
    OBVIOUS
  <2>2. x \in Seq(Nat) /\ y \in Seq(Nat) /\ c \in Seq(Nat)
    BY <2>1
  <2>3. Len(x) = 1 /\ Len(y) = 1 /\ Len(c) = 2
    BY <2>1
  <2>4. c[1] = x[1]
    BY <2>1
  <2>5. c[2] = y[1]
    BY <2>1
  <2>6. \A i \in 1 .. Len(x) : c[i] = x[i]
    BY <2>3, <2>4
  <2>7. \A i \in 1 .. Len(y) : c[Len(x) + i] = y[i]
    BY <2>3, <2>5
  <2>8. Len(c) = Len(x) + Len(y)
    BY <2>3
  <2>9. x \o y = c
    BY ONLY <2>2, <2>6, <2>7, <2>8, JoinIs, Zenon
  <2> QED
    BY <2>1, <2>9, Zenon
<1>3. <<p, l, h>> \o <<s, f>> = <<p, l, h, s, f>>
  <2>1. PICK x, y, c : x = <<p, l, h>> /\ y = <<s, f>> /\ c = <<p, l, h, s, f>>
    OBVIOUS
  <2>2. x \in Seq(Nat) /\ y \in Seq(Nat) /\ c \in Seq(Nat)
    BY <2>1
  <2>3. Len(x) = 3 /\ Len(y) = 2 /\ Len(c) = 5
    BY <2>1
  <2>4. c[1] = x[1] /\ c[2] = x[2] /\ c[3] = x[3]
    BY <2>1
  <2>5. c[4] = y[1] /\ c[5] = y[2]
    BY <2>1
  <2>6. \A i \in 1 .. Len(x) : c[i] = x[i]
    BY <2>3, <2>4
  <2>7. \A i \in 1 .. Len(y) : c[Len(x) + i] = y[i]
    BY <2>3, <2>5
  <2>8. Len(c) = Len(x) + Len(y)
    BY <2>3
  <2>9. x \o y = c
    BY ONLY <2>2, <2>6, <2>7, <2>8, JoinIs, Zenon
  <2> QED
    BY <2>1, <2>9, Zenon
<1>4. <<p, l>> \o <<s, f>> = <<p, l, s, f>>
  <2>1. PICK x, y, c : x = <<p, l>> /\ y = <<s, f>> /\ c = <<p, l, s, f>>
    OBVIOUS
  <2>2. x \in Seq(Nat) /\ y \in Seq(Nat) /\ c \in Seq(Nat)
    BY <2>1
  <2>3. Len(x) = 2 /\ Len(y) = 2 /\ Len(c) = 4
    BY <2>1
  <2>4. c[1] = x[1] /\ c[2] = x[2]
    BY <2>1
  <2>5. c[3] = y[1] /\ c[4] = y[2]
    BY <2>1
  <2>6. \A i \in 1 .. Len(x) : c[i] = x[i]
    BY <2>3, <2>4
  <2>7. \A i \in 1 .. Len(y) : c[Len(x) + i] = y[i]
    BY <2>3, <2>5
  <2>8. Len(c) = Len(x) + Len(y)
    BY <2>3
  <2>9. x \o y = c
    BY ONLY <2>2, <2>6, <2>7, <2>8, JoinIs, Zenon
  <2> QED
    BY <2>1, <2>9, Zenon
<1>5. <<p, l, h, s, f>> \o <<v>> = <<p, l, h, s, f, v>>
  <2>1. PICK x, y, c : x = <<p, l, h, s, f>> /\ y = <<v>> /\ c = <<p, l, h, s, f, v>>
    OBVIOUS
  <2>2. x \in Seq(Nat) /\ y \in Seq(Nat) /\ c \in Seq(Nat)
    BY <2>1
  <2>3. Len(x) = 5 /\ Len(y) = 1 /\ Len(c) = 6
    BY <2>1
  <2>4. c[1] = x[1] /\ c[2] = x[2] /\ c[3] = x[3] /\ c[4] = x[4] /\ c[5] = x[5]
    BY <2>1
  <2>5. c[6] = y[1]
    BY <2>1
  <2>6. \A i \in 1 .. Len(x) : c[i] = x[i]
    BY <2>3, <2>4
  <2>7. \A i \in 1 .. Len(y) : c[Len(x) + i] = y[i]
    BY <2>3, <2>5
  <2>8. Len(c) = Len(x) + Len(y)
    BY <2>3
  <2>9. x \o y = c
    BY ONLY <2>2, <2>6, <2>7, <2>8, JoinIs, Zenon
  <2> QED
    BY <2>1, <2>9, Zenon
<1>6. <<p, l, s, f>> \o <<v>> = <<p, l, s, f, v>>
  <2>1. PICK x, y, c : x = <<p, l, s, f>> /\ y = <<v>> /\ c = <<p, l, s, f, v>>
    OBVIOUS
  <2>2. x \in Seq(Nat) /\ y \in Seq(Nat) /\ c \in Seq(Nat)
    BY <2>1
  <2>3. Len(x) = 4 /\ Len(y) = 1 /\ Len(c) = 5
    BY <2>1
  <2>4. c[1] = x[1] /\ c[2] = x[2] /\ c[3] = x[3] /\ c[4] = x[4]
    BY <2>1
  <2>5. c[5] = y[1]
    BY <2>1
  <2>6. \A i \in 1 .. Len(x) : c[i] = x[i]
    BY <2>3, <2>4
  <2>7. \A i \in 1 .. Len(y) : c[Len(x) + i] = y[i]
    BY <2>3, <2>5
  <2>8. Len(c) = Len(x) + Len(y)
    BY <2>3
  <2>9. x \o y = c
    BY ONLY <2>2, <2>6, <2>7, <2>8, JoinIs, Zenon
  <2> QED
    BY <2>1, <2>9, Zenon
<1>7. <<p, l, h, s, f>> \o <<>> = <<p, l, h, s, f>> /\ <<p, l, s, f>> \o <<>> = <<p, l, s, f>>
  <2>1. <<p, l, h, s, f>> \in Seq(Nat) /\ <<p, l, s, f>> \in Seq(Nat)
    OBVIOUS
  <2> QED
    BY <2>1, ConcatEmptySeq
<1> QED
  BY <1>1, <1>2, <1>3, <1>4, <1>5, <1>6, <1>7, Zenon

\* The fields of an access are numbers.
LEMMA AccessFields ==
    ASSUME NEW a \in Access
    PROVE  /\ a.insns \in Nat /\ a.size \in 0 .. 4 /\ a.val \in Nat /\ a.store \in BOOLEAN
           /\ a.addr = <<a.addr[1], a.addr[2]>> /\ a.addr[1] \in Nat /\ a.addr[2] \in Nat
           /\ a.insns % DelayMod \in Nat /\ write_size(a.size) \in Nat /\ write_flags(a) \in Nat
<1>1. /\ a.insns \in Insns /\ a.addr \in LowAddrs \X HighAddrs /\ a.size \in Sizes
      /\ a.val \in Values /\ a.store \in BOOLEAN
  BY DEF Access
<1>2. /\ Insns \subseteq Nat /\ LowAddrs \subseteq Nat /\ HighAddrs \subseteq Nat
      /\ Sizes \subseteq 0 .. 4 /\ Values \subseteq Nat
  BY TraceAssumption, Zenon
<1>3. /\ a.insns \in Nat /\ a.size \in 0 .. 4 /\ a.val \in Nat
  BY <1>1, <1>2, Zenon
<1>4. a.addr = <<a.addr[1], a.addr[2]>> /\ a.addr[1] \in LowAddrs /\ a.addr[2] \in HighAddrs
  BY <1>1
<1>5. a.addr[1] \in Nat /\ a.addr[2] \in Nat
  BY <1>2, <1>4, Zenon
<1>6. a.insns % DelayMod \in Nat
  BY <1>3, TraceAssumption
<1>7. write_size(a.size) \in Nat /\ write_flags(a) \in Nat
  BY <1>3 DEF write_size, write_flags
<1> QED
  BY <1>1, <1>3, <1>4, <1>5, <1>6, <1>7

\* The record of an access, in the four forms that the plugin writes.
LEMMA RecordForm ==
    ASSUME NEW a \in Access, NEW w, w = write_in_file(a, a.insns),
           NEW p, p = a.insns % DelayMod, NEW s, s = write_size(a.size),
           NEW f, f = write_flags(a), NEW l, l = a.addr[1], NEW h, h = a.addr[2]
    PROVE  /\ is_64_bits /\ a.store /\ a.size # 4 => w = <<p, l, h, s, f, a.val>>
           /\ is_64_bits /\ ~ (a.store /\ a.size # 4) => w = <<p, l, h, s, f>>
           /\ ~ is_64_bits /\ a.store /\ a.size # 4 => w = <<p, l, s, f, a.val>>
           /\ ~ is_64_bits /\ ~ (a.store /\ a.size # 4) => w = <<p, l, s, f>>
<1>1. /\ p \in Nat /\ l \in Nat /\ h \in Nat /\ s \in Nat /\ f \in Nat /\ a.val \in Nat
      /\ a.addr = <<l, h>>
  BY AccessFields
<1>2. PICK v : v = a.val
  OBVIOUS
<1>0. p \in Nat /\ l \in Nat /\ h \in Nat /\ s \in Nat /\ f \in Nat /\ v \in Nat
  BY <1>1, <1>2
<1>3. PICK x, y : /\ x = (IF is_64_bits THEN <<l, h>> ELSE <<l>>)
                  /\ y = (IF a.store /\ a.size # 4 THEN <<v>> ELSE <<>>)
  OBVIOUS
<1>4. w = <<p>> \o x \o <<s, f>> \o y
  <2>1. write_address(a.addr) = x
    BY <1>1, <1>3 DEF write_address
  <2>2. (IF a.store THEN write_value(a) ELSE <<>>) = y
    BY <1>2, <1>3 DEF write_value
  <2> QED
    BY <2>1, <2>2 DEF write_in_file
<1>5. /\ <<p>> \o <<l, h>> \o <<s, f>> \o <<v>> = <<p, l, h, s, f, v>>
      /\ <<p>> \o <<l, h>> \o <<s, f>> \o <<>> = <<p, l, h, s, f>>
      /\ <<p>> \o <<l>> \o <<s, f>> \o <<v>> = <<p, l, s, f, v>>
      /\ <<p>> \o <<l>> \o <<s, f>> \o <<>> = <<p, l, s, f>>
  BY ONLY <1>0, Joined
<1>6. CASE is_64_bits /\ a.store /\ a.size # 4
  <2>1. x = <<l, h>> /\ y = <<v>>
    BY <1>3, <1>6
  <2> QED
    BY <1>2, <1>4, <1>5, <1>6, <2>1, Zenon
<1>7. CASE is_64_bits /\ ~ (a.store /\ a.size # 4)
  <2>1. x = <<l, h>> /\ y = <<>>
    BY <1>3, <1>7
  <2> QED
    BY <1>4, <1>5, <1>7, <2>1, Zenon
<1>8. CASE ~ is_64_bits /\ a.store /\ a.size # 4
  <2>1. x = <<l>> /\ y = <<v>>
    BY <1>3, <1>8
  <2> QED
    BY <1>2, <1>4, <1>5, <1>8, <2>1, Zenon
<1>9. CASE ~ is_64_bits /\ ~ (a.store /\ a.size # 4)
  <2>1. x = <<l>> /\ y = <<>>
    BY <1>3, <1>9
  <2> QED
    BY <1>4, <1>5, <1>9, <2>1, Zenon
<1> QED
  BY <1>6, <1>7, <1>8, <1>9, Zenon

\* The bytes of one record.
LEMMA RecordBytes ==
    ASSUME NEW a \in Access
    PROVE  write_in_file(a, a.insns) \in Seq(Nat)
<1>1. PICK w, p, s, f, l, h, v :
         /\ w = write_in_file(a, a.insns) /\ p = a.insns % DelayMod /\ s = write_size(a.size)
         /\ f = write_flags(a) /\ l = a.addr[1] /\ h = a.addr[2] /\ v = a.val
  OBVIOUS
<1>2. p \in Nat /\ l \in Nat /\ h \in Nat /\ s \in Nat /\ f \in Nat /\ v \in Nat
  BY <1>1, AccessFields
<1>3. \/ w = <<p, l, h, s, f, v>> \/ w = <<p, l, h, s, f>>
      \/ w = <<p, l, s, f, v>> \/ w = <<p, l, s, f>>
  BY <1>1, RecordForm
<1>4. /\ <<p, l, h, s, f, v>> \in Seq(Nat) /\ <<p, l, h, s, f>> \in Seq(Nat)
      /\ <<p, l, s, f, v>> \in Seq(Nat) /\ <<p, l, s, f>> \in Seq(Nat)
  BY <1>2
<1> QED
  BY <1>1, <1>3, <1>4, Zenon

\* Every sequence of accesses has such a function.
LEMMA FlatExists ==
    \A s \in Seq(Access) : \E g : Flat(s, g)
<1> DEFINE Bad == {n \in Nat : \E s \in Seq(Access) : Len(s) = n /\ ~ \E g : Flat(s, g)}
<1>1. SUFFICES ASSUME Bad # {} PROVE FALSE
  <2>1. \A s \in Seq(Access) : Len(s) \in Nat
    OBVIOUS
  <2> QED
    BY <2>1
<1>2. Min(Bad) \in Bad /\ \A m \in Bad : Min(Bad) <= m
  <2>1. Bad \in SUBSET Nat
    OBVIOUS
  <2> HIDE DEF Bad
  <2> QED
    BY <1>1, <2>1, MinNat
<1>3. PICK n \in Nat : n \in Bad /\ \A m \in Bad : n <= m
  BY <1>2
<1>4. PICK s \in Seq(Access) : Len(s) = n /\ ~ \E g : Flat(s, g)
  BY <1>3
<1>5. CASE n = 0
  <2>1. 0 .. Len(s) = {0}
    BY <1>4, <1>5
  <2>2. Flat(s, [i \in 0 .. Len(s) |-> <<>>])
    BY <2>1 DEF Flat
  <2> QED
    BY <1>4, <2>2
<1>6. CASE n > 0
  <2> DEFINE t == SubSeq(s, 1, n - 1)
  <2>1. t \in Seq(Access) /\ Len(t) = n - 1 /\ \A i \in 1 .. n - 1 : t[i] = s[i]
    BY <1>4, <1>6
  <2> HIDE DEF t
  <2>2. n - 1 \notin Bad
    BY <1>3, <1>6
  <2>3. PICK h : Flat(t, h)
    BY <1>6, <2>1, <2>2
  <2> DEFINE g == [i \in 0 .. n |->
                      IF i = n THEN h[n - 1] \o write_in_file(s[n], s[n].insns) ELSE h[i]]
  <2>4. ASSUME NEW i \in 0 .. n
        PROVE  g[i] = IF i = 0 THEN <<>> ELSE g[i - 1] \o write_in_file(s[i], s[i].insns)
    <3>1. CASE i = n
      BY <1>6, <3>1
    <3>2. CASE i # n
      <4>1. i \in 0 .. Len(t) /\ (i # 0 => i \in 1 .. n - 1 /\ i - 1 \in 0 .. n /\ i - 1 # n)
        BY <2>1, <3>2
      <4>2. h[i] = IF i = 0 THEN <<>> ELSE h[i - 1] \o write_in_file(t[i], t[i].insns)
        <5>1. h = [j \in 0 .. Len(t) |->
                      IF j = 0 THEN <<>> ELSE h[j - 1] \o write_in_file(t[j], t[j].insns)]
          BY <2>3 DEF Flat
        <5> QED
          BY <4>1, <5>1
      <4>3. g[i] = h[i] /\ (i # 0 => g[i - 1] = h[i - 1])
        BY <3>2, <4>1
      <4> QED
        BY <2>1, <4>1, <4>2, <4>3
    <3> QED
      BY <3>1, <3>2
  <2>5. g = [i \in 0 .. n |-> g[i]]
    OBVIOUS
  <2> HIDE DEF g
  <2>6. Flat(s, g)
    BY <1>4, <2>4, <2>5 DEF Flat
  <2> QED
    BY <1>4, <2>6
<1> QED
  BY <1>3, <1>5, <1>6

\* It starts with no byte and each record adds its own.
LEMMA FlatStep ==
    ASSUME NEW s \in Seq(Access), NEW g, Flat(s, g)
    PROVE  /\ g[0] = <<>>
           /\ \A i \in 1 .. Len(s) : g[i] = g[i - 1] \o write_in_file(s[i], s[i].insns)
<1>1. g = [i \in 0 .. Len(s) |->
              IF i = 0 THEN <<>> ELSE g[i - 1] \o write_in_file(s[i], s[i].insns)]
  BY DEF Flat
<1>2. g[0] = <<>>
  <2>1. 0 \in 0 .. Len(s)
    OBVIOUS
  <2> QED
    BY <1>1, <2>1
<1>3. ASSUME NEW i \in 1 .. Len(s)
      PROVE  g[i] = g[i - 1] \o write_in_file(s[i], s[i].insns)
  <2>1. i \in 0 .. Len(s) /\ i # 0
    OBVIOUS
  <2> QED
    BY <1>1, <2>1
<1> QED
  BY <1>2, <1>3

\* Its values are bytes.
LEMMA FlatBytes ==
    ASSUME NEW s \in Seq(Access), NEW g, Flat(s, g)
    PROVE  \A i \in 0 .. Len(s) : g[i] \in Seq(Nat)
<1> DEFINE Bad == {i \in 0 .. Len(s) : g[i] \notin Seq(Nat)}
<1>1. SUFFICES ASSUME Bad # {} PROVE FALSE
  OBVIOUS
<1>2. Min(Bad) \in Bad /\ \A m \in Bad : Min(Bad) <= m
  <2>1. Bad \in SUBSET Nat
    OBVIOUS
  <2> HIDE DEF Bad
  <2> QED
    BY <1>1, <2>1, MinNat
<1>3. PICK n \in 0 .. Len(s) : g[n] \notin Seq(Nat) /\ \A m \in Bad : n <= m
  BY <1>2
<1>4. n # 0
  <2>1. g[0] = <<>>
    BY FlatStep
  <2>2. <<>> \in Seq(Nat)
    OBVIOUS
  <2> QED
    BY <1>3, <2>1, <2>2
<1>5. n \in 1 .. Len(s) /\ n - 1 \in 0 .. Len(s)
  BY <1>4
<1>6. g[n - 1] \in Seq(Nat)
  <2>1. n - 1 \notin Bad
    BY <1>3, <1>4
  <2> QED
    BY <1>5, <2>1
<1>7. write_in_file(s[n], s[n].insns) \in Seq(Nat)
  BY <1>5, RecordBytes
<1>8. g[n] = g[n - 1] \o write_in_file(s[n], s[n].insns)
  BY <1>5, FlatStep
<1> QED
  BY <1>3, <1>6, <1>7, <1>8, ConcatProperties

\* One more access leaves the bytes of the others.
LEMMA FlatPrefix ==
    ASSUME NEW s \in Seq(Access), NEW a \in Access, NEW g, NEW h,
           Flat(s, g), Flat(Append(s, a), h)
    PROVE  \A i \in 0 .. Len(s) : h[i] = g[i]
<1> DEFINE t == Append(s, a)
<1>1. t \in Seq(Access) /\ Len(t) = Len(s) + 1 /\ \A i \in 1 .. Len(s) : t[i] = s[i]
  OBVIOUS
<1> HIDE DEF t
<1> DEFINE Bad == {i \in 0 .. Len(s) : h[i] # g[i]}
<1>2. SUFFICES ASSUME Bad # {} PROVE FALSE
  OBVIOUS
<1>3. Min(Bad) \in Bad /\ \A m \in Bad : Min(Bad) <= m
  <2>1. Bad \in SUBSET Nat
    OBVIOUS
  <2> HIDE DEF Bad
  <2> QED
    BY <1>2, <2>1, MinNat
<1>4. PICK n \in 0 .. Len(s) : h[n] # g[n] /\ \A m \in Bad : n <= m
  BY <1>3
<1>5. Flat(t, h)
  BY DEF t
<1>6. n # 0
  BY <1>1, <1>4, <1>5, FlatStep
<1>7. n \in 1 .. Len(s) /\ n - 1 \in 0 .. Len(s) /\ n \in 1 .. Len(t)
  BY <1>1, <1>6
<1>8. h[n - 1] = g[n - 1]
  <2>1. n - 1 \notin Bad
    BY <1>4, <1>6
  <2> QED
    BY <1>7, <2>1
<1>9. g[n] = g[n - 1] \o write_in_file(s[n], s[n].insns)
  BY <1>7, FlatStep
<1>10. h[n] = h[n - 1] \o write_in_file(t[n], t[n].insns)
  BY <1>1, <1>5, <1>7, FlatStep
<1> QED
  BY <1>1, <1>4, <1>7, <1>8, <1>9, <1>10

\* The stream is that of some such function.
LEMMA StreamIsFlat ==
    ASSUME accesses \in Seq(Access)
    PROVE  \E g : Flat(accesses, g) /\ Stream = g[Len(accesses)]
<1> DEFINE f == CHOOSE g : Flat(accesses, g)
<1>1. Flat(accesses, f)
  BY FlatExists
<1>2. Stream = f[Len(accesses)]
  BY Zenon DEF Stream, Flat
<1> QED
  BY <1>1, <1>2

LEMMA StreamBytes ==
    ASSUME accesses \in Seq(Access)
    PROVE  Stream \in Seq(Nat) /\ (accesses = <<>> => Stream = <<>>)
<1>1. PICK g : Flat(accesses, g) /\ Stream = g[Len(accesses)]
  BY StreamIsFlat
<1>2. Stream \in Seq(Nat)
  BY <1>1, FlatBytes
<1>3. accesses = <<>> => Stream = <<>>
  <2>1. g[0] = <<>>
    BY <1>1, FlatStep
  <2> QED
    BY <1>1, <2>1
<1> QED
  BY <1>2, <1>3

\* An access adds its record to the stream.
LEMMA StreamGrows ==
    ASSUME accesses \in Seq(Access), NEW a \in Access, accesses' = Append(accesses, a),
           is_64_bits' = is_64_bits
    PROVE  Stream' = Stream \o write_in_file(a, a.insns)
<1>1. PICK g : Flat(accesses, g) /\ Stream = g[Len(accesses)]
  BY StreamIsFlat
<1> DEFINE t == Append(accesses, a)
<1> DEFINE f == CHOOSE h : Flat(t, h)
<1>2. t \in Seq(Access) /\ Len(t) = Len(accesses) + 1 /\ t[Len(t)] = a
  OBVIOUS
<1>3. Flat(t, f)
  <2> HIDE DEF t
  <2> QED
    BY <1>2, FlatExists
<1>4. Stream' = f[Len(t)]
  BY Zenon DEF Stream, Flat, write_in_file, write_address
<1>5. f[Len(accesses)] = g[Len(accesses)]
  <2> HIDE DEF f
  <2>1. Len(accesses) \in 0 .. Len(accesses)
    OBVIOUS
  <2> QED
    BY <1>1, <1>3, <2>1, FlatPrefix
<1>6. f[Len(t)] = f[Len(t) - 1] \o write_in_file(t[Len(t)], t[Len(t)].insns)
  <2>1. Len(t) \in 1 .. Len(t)
    BY <1>2
  <2> HIDE DEF f, t
  <2> QED
    BY <1>2, <1>3, <2>1, FlatStep
<1> HIDE DEF f, t
<1>7. Len(t) - 1 = Len(accesses)
  BY <1>2
<1> QED
  BY <1>1, <1>2, <1>4, <1>5, <1>6, <1>7

-----------------------------------------------------------------------------
(* The trace recorder: the dictionary of the compressor.                     *)

CompFields == {"greedy", "pos", "look", "dsize", "dict", "total", "codes", "cpos", "first",
               "pend", "finished", "wants", "prev", "saved", "adler"}
IsComp(d) == DOMAIN d = CompFields /\ DOMAIN d.saved = {"len", "dist", "lit"}

\* In dictionary dict: the size bytes of stream s before position pos, and the
\* look bytes from there.
Held(pos, look, size, dict, s) ==
    /\ \A k \in 1 .. size : dict[(pos - k) % Dict] = s[pos - k + 1]
    /\ \A k \in 0 .. look - 1 : dict[(pos + k) % Dict] = s[pos + k + 1]

\* The bytes are those of stream s after the first from.
Continues(bytes, from, s) == \A k \in 1 .. Len(bytes) : bytes[k] = s[from + k]

\* Compressor d has in its dictionary the bytes of stream s that it may look at.
\* The dictionary and the lookahead have room beside each other, and the match
\* that was put off does not reach beyond the lookahead.
DictHolds(d, s) ==
    /\ d.pos \in Nat /\ d.look \in 0 .. MaxMatch /\ d.dsize \in Nat /\ d.saved.len \in Nat
    /\ d.dsize <= d.pos /\ d.look + d.dsize <= Dict /\ d.saved.len <= d.look + 1
    /\ Held(d.pos, d.look, d.dsize, d.dict, s)

\* The greatest number of a bounded set.
LEMMA MaxNat ==
    ASSUME NEW n \in Nat, NEW S \in SUBSET (0 .. n), S # {}
    PROVE  Max(S) \in S /\ \A y \in S : y <= Max(S)
<1> DEFINE T == {i \in 0 .. n : n - i \in S}
<1>1. T \in SUBSET Nat /\ T # {}
  <2>1. PICK y \in S : y \in 0 .. n
    OBVIOUS
  <2>2. n - y \in 0 .. n /\ n - (n - y) = y
    BY <2>1
  <2>3. n - y \in T
    BY <2>1, <2>2
  <2>4. T \in SUBSET Nat
    OBVIOUS
  <2> HIDE DEF T
  <2> QED
    BY <2>3, <2>4
<1>2. Min(T) \in T /\ \A y \in T : Min(T) <= y
  <2> HIDE DEF T
  <2> QED
    BY <1>1, MinNat
<1>3. PICK x \in S : Min(T) = n - x
  <2>1. Min(T) \in 0 .. n /\ n - Min(T) \in S
    BY <1>2
  <2>2. Min(T) = n - (n - Min(T))
    BY <2>1
  <2> QED
    BY <2>1, <2>2
<1>4. ASSUME NEW y \in S PROVE y <= x
  <2>1. y \in 0 .. n /\ x \in 0 .. n /\ n - (n - y) = y
    OBVIOUS
  <2>2. n - y \in T
    BY <2>1
  <2>3. Min(T) <= n - y
    BY <1>2, <2>2
  <2> QED
    BY <1>3, <2>1, <2>3
<1>5. \E g \in S : \A y \in S : g >= y
  <2>1. \A y \in S : y \in Nat
    OBVIOUS
  <2> QED
    BY <1>4, <2>1
<1>6. Max(S) \in S /\ \A y \in S : Max(S) >= y
  BY <1>5 DEF Max
<1> QED
  BY <1>6

\* The smaller of two numbers.
LEMMA MinOfTwo ==
    ASSUME NEW a \in Nat, NEW b \in Nat
    PROVE  /\ Min({a, b}) \in Nat /\ Min({a, b}) <= a /\ Min({a, b}) <= b
           /\ Min({a, b}) = a \/ Min({a, b}) = b
<1>1. {a, b} \in SUBSET Nat /\ {a, b} # {}
  OBVIOUS
<1>2. Min({a, b}) \in {a, b} /\ \A y \in {a, b} : Min({a, b}) <= y
  BY <1>1, MinNat
<1> QED
  BY <1>2

\* Two positions less than a dictionary apart have places of their own.
LEMMA PlacesDiffer ==
    ASSUME NEW a \in Nat, NEW b \in Nat, a < b, b < a + Dict
    PROVE  a % Dict # b % Dict
<1> SUFFICES ASSUME a % Dict = b % Dict PROVE FALSE
  OBVIOUS
<1>1. Dict \in Nat /\ Dict > 0
  BY DeflateAssumption
<1>2. /\ a = Dict * (a \div Dict) + (a % Dict) /\ b = Dict * (b \div Dict) + (b % Dict)
      /\ a \div Dict \in Int /\ b \div Dict \in Int
      /\ a % Dict \in Int /\ b % Dict \in Int
  BY <1>1
<1> DEFINE q == b \div Dict - a \div Dict
<1>3. q \in Int /\ b - a = Dict * q
  BY <1>1, <1>2
<1> HIDE DEF q
<1>4. q >= 1
  <2> SUFFICES ASSUME q <= 0 PROVE FALSE
    BY <1>3
  <2>1. Dict * q <= 0
    BY <1>1, <1>3
  <2> QED
    BY <1>3, <2>1
<1>5. Dict * q >= Dict
  BY <1>1, <1>3, <1>4
<1> QED
  BY <1>1, <1>3, <1>5

LEMMA PlaceInDict ==
    ASSUME NEW a \in Nat
    PROVE  a % Dict \in 0 .. Dict - 1
  BY DeflateAssumption

\* Input moved into the dictionary overwrites bytes that are given up: the
\* positions p whose place it leaves alone, and the places it fills.
FilledWith(old, from, bytes) ==
    LET Hit(i) == {k \in 1 .. Len(bytes) : (from + k - 1) % Dict = i}
    IN  [i \in 0 .. Dict - 1 |-> IF Hit(i) = {} THEN old[i] ELSE bytes[Max(Hit(i))]]

LEMMA FillSpares ==
    ASSUME NEW old, NEW from \in Nat, NEW bytes \in Seq(Nat), NEW p \in Nat,
           p < from, from + Len(bytes) <= p + Dict
    PROVE  FilledWith(old, from, bytes)[p % Dict] = old[p % Dict]
<1> DEFINE Hit(i) == {k \in 1 .. Len(bytes) : (from + k - 1) % Dict = i}
<1>1. Hit(p % Dict) = {}
  <2> SUFFICES ASSUME NEW k \in 1 .. Len(bytes), (from + k - 1) % Dict = p % Dict
               PROVE  FALSE
    OBVIOUS
  <2>1. from + k - 1 \in Nat /\ p < from + k - 1 /\ from + k - 1 < p + Dict
    BY DeflateAssumption
  <2> QED
    BY <2>1, PlacesDiffer
<1>2. p % Dict \in 0 .. Dict - 1
  BY PlaceInDict
<1> QED
  BY <1>1, <1>2 DEF FilledWith

LEMMA FillPlaces ==
    ASSUME NEW old, NEW from \in Nat, NEW bytes \in Seq(Nat), Len(bytes) <= Dict,
           NEW p \in Nat, from <= p, p < from + Len(bytes)
    PROVE  FilledWith(old, from, bytes)[p % Dict] = bytes[p - from + 1]
<1> DEFINE k == p - from + 1
<1>0. k \in 1 .. Len(bytes) /\ p = from + k - 1
  OBVIOUS
<1> HIDE DEF k
<1> DEFINE Hit(i) == {j \in 1 .. Len(bytes) : (from + j - 1) % Dict = i}
<1>1. p % Dict \in 0 .. Dict - 1
  BY PlaceInDict
<1>2. Hit(p % Dict) = {k}
  <2>1. ASSUME NEW j \in 1 .. Len(bytes), (from + j - 1) % Dict = p % Dict
        PROVE  j = k
    <3> DEFINE q == from + j - 1
    <3>1. q \in Nat /\ q < p + Dict /\ p < q + Dict
      BY <1>0, DeflateAssumption
    <3>2. q % Dict = p % Dict
      BY <2>1
    <3> HIDE DEF q
    <3>3. q = p
      BY ONLY p \in Nat, <3>1, <3>2, PlacesDiffer
    <3> QED
      BY <1>0, <3>3 DEF q
  <2> QED
    BY <1>0, <2>1
<1>3. Max({k}) = k
  <2>1. {k} \in SUBSET (0 .. Len(bytes)) /\ {k} # {} /\ Len(bytes) \in Nat
    BY <1>0
  <2> QED
    BY <2>1, MaxNat
<1>4. FilledWith(old, from, bytes)[p % Dict] = bytes[k]
  BY <1>1, <1>2, <1>3 DEF FilledWith
<1> QED
  BY <1>4 DEF k

\* The dictionary and the lookahead after the input is moved.
LEMMA FillContent ==
    ASSUME NEW pos \in Nat, NEW look \in Nat, NEW size \in Nat, NEW dict, NEW s,
           NEW bytes \in Seq(Nat), size <= pos, look + Len(bytes) + size <= Dict,
           Held(pos, look, size, dict, s), Continues(bytes, pos + look, s)
    PROVE  Held(pos, look + Len(bytes), size, FilledWith(dict, pos + look, bytes), s)
<1> DEFINE new == FilledWith(dict, pos + look, bytes)
<1> DEFINE n == Len(bytes)
<1>0. n \in Nat /\ Dict \in Nat /\ pos + look \in Nat
  BY DeflateAssumption
<1>1. ASSUME NEW k \in 1 .. size
      PROVE  new[(pos - k) % Dict] = s[pos - k + 1]
  <2>1. pos - k \in Nat /\ pos - k < pos + look /\ (pos + look) + n <= (pos - k) + Dict
    BY <1>0
  <2>2. new[(pos - k) % Dict] = dict[(pos - k) % Dict]
    BY <1>0, <2>1, FillSpares
  <2> HIDE DEF new
  <2> QED
    BY <2>2 DEF Held
<1>2. ASSUME NEW k \in 0 .. (look + n) - 1
      PROVE  new[(pos + k) % Dict] = s[pos + k + 1]
  <2>1. CASE k < look
    <3>1. pos + k \in Nat /\ pos + k < pos + look /\ (pos + look) + n <= (pos + k) + Dict
      BY <1>0, <2>1
    <3>2. new[(pos + k) % Dict] = dict[(pos + k) % Dict]
      BY <1>0, <2>1, <3>1, FillSpares
    <3>3. k \in 0 .. look - 1
      BY <2>1
    <3> HIDE DEF new
    <3> QED
      BY <3>2, <3>3 DEF Held
  <2>2. CASE k >= look
    <3>1. PICK from, at, j : from = pos + look /\ at = pos + k /\ j = at - from + 1
      OBVIOUS
    <3>2. /\ from \in Nat /\ at \in Nat /\ from <= at /\ at < from + Len(bytes)
          /\ Len(bytes) <= Dict /\ j \in 1 .. Len(bytes) /\ from + j = at + 1
      BY <1>0, <2>2, <3>1
    <3>3. FilledWith(dict, from, bytes)[at % Dict] = bytes[at - from + 1]
      BY ONLY <3>2, bytes \in Seq(Nat), FillPlaces
    <3>4. bytes[j] = s[from + j]
      BY <3>1, <3>2 DEF Continues
    <3> QED
      BY <3>1, <3>2, <3>3, <3>4
  <2> QED
    BY <1>0, <2>1, <2>2
<1> QED
  BY <1>1, <1>2 DEF Held

LEMMA FillKeeps ==
    ASSUME NEW d, IsComp(d), NEW s, DictHolds(d, s), NEW bytes \in Seq(Nat),
           d.look + Len(bytes) <= MaxMatch, Continues(bytes, d.pos + d.look, s)
    PROVE  LET e == FillLookahead(d, bytes)
           IN  /\ IsComp(e) /\ DictHolds(e, s)
               /\ e.pos = d.pos /\ e.look = d.look + Len(bytes)
               /\ e.finished = d.finished /\ e.prev = d.prev
<1> DEFINE n == Len(bytes)
<1> DEFINE new == FilledWith(d.dict, d.pos + d.look, bytes)
<1> DEFINE size == Min({d.dsize, Dict - (d.look + n)})
<1> DEFINE e == FillLookahead(d, bytes)
<1>1. e = [d EXCEPT !.look = d.look + n, !.dict = new, !.dsize = size]
  BY Zenon DEF FillLookahead, FilledWith
<1> HIDE DEF new, size, e
<1>3. /\ e.pos = d.pos /\ e.look = d.look + n /\ e.dict = new /\ e.dsize = size
      /\ e.saved = d.saved /\ e.finished = d.finished /\ e.prev = d.prev /\ IsComp(e)
  BY <1>1 DEF IsComp, CompFields
<1>9. DictHolds(e, s)
  <2>1. PICK pos, look, dsize, len, dict :
           pos = d.pos /\ look = d.look /\ dsize = d.dsize /\ len = d.saved.len /\ dict = d.dict
    OBVIOUS
  <2>2. /\ pos \in Nat /\ look \in Nat /\ dsize \in Nat /\ dsize <= pos
        /\ look + dsize <= Dict /\ n \in Nat /\ look + n <= MaxMatch
        /\ len \in Nat /\ len <= look + 1
        /\ Dict \in Nat /\ MaxMatch < Dict /\ MaxMatch \in Nat
    BY <2>1, DeflateAssumption DEF DictHolds
  <2>3. size \in Nat /\ size <= dsize /\ look + n + size <= Dict
    <3>1. Dict - (look + n) \in Nat
      BY <2>2
    <3>2. size = Min({dsize, Dict - (look + n)})
      BY <2>1 DEF size
    <3>3. size \in Nat /\ size <= dsize /\ size <= Dict - (look + n)
      BY <2>2, <3>1, <3>2, MinOfTwo
    <3> HIDE DEF n
    <3> QED
      BY ONLY <2>2, <3>3
  <2>4. Held(pos, look, size, dict, s)
    <3>1. Held(pos, look, dsize, dict, s)
      BY <2>1 DEF DictHolds
    <3>2. \A k \in 1 .. size : k \in 1 .. dsize
      BY ONLY <2>2, <2>3
    <3> QED
      BY ONLY <3>1, <3>2 DEF Held
  <2>7. Continues(bytes, pos + look, s)
    BY <2>1
  <2>8. new = FilledWith(dict, pos + look, bytes)
    BY <2>1 DEF new
  <2>9. size <= pos /\ look + Len(bytes) + size <= Dict
    BY ONLY <2>2, <2>3 DEF n
  <2>10. Held(pos, look + Len(bytes), size, new, s)
    BY ONLY <2>2, <2>3, <2>4, <2>7, <2>8, <2>9, bytes \in Seq(Nat), FillContent
  <2>11. look + n \in 0 .. MaxMatch /\ len <= look + n + 1 /\ size <= pos
         /\ (look + n) + size <= Dict
    BY ONLY <2>2, <2>3
  <2>12. e.pos = pos /\ e.look = look + n /\ e.dict = new /\ e.dsize = size
         /\ e.saved.len = len
    BY <1>3, <2>1
  <2> QED
    BY ONLY <2>2, <2>3, <2>10, <2>11, <2>12 DEF DictHolds, n
<1> QED
  BY <1>3, <1>9 DEF e

\* Moving the lookahead turns its first bytes into dictionary.
LEMMA HeldMoves ==
    ASSUME NEW pos \in Nat, NEW look \in Nat, NEW size \in Nat, NEW dict, NEW s,
           NEW n \in 0 .. look, Held(pos, look, size, dict, s)
    PROVE  Held(pos + n, look - n, size + n, dict, s)
<1>1. ASSUME NEW k \in 1 .. size + n
      PROVE  dict[((pos + n) - k) % Dict] = s[(pos + n) - k + 1]
  <2>1. CASE k <= n
    <3>1. PICK j : j = n - k
      OBVIOUS
    <3>2. j \in 0 .. look - 1 /\ pos + j = (pos + n) - k
      BY <2>1, <3>1
    <3>3. dict[(pos + j) % Dict] = s[pos + j + 1]
      BY <3>2 DEF Held
    <3> QED
      BY <3>2, <3>3
  <2>2. CASE k > n
    <3>1. PICK j : j = k - n
      OBVIOUS
    <3>2. j \in 1 .. size /\ pos - j = (pos + n) - k
      BY <2>2, <3>1
    <3>3. dict[(pos - j) % Dict] = s[pos - j + 1]
      BY <3>2 DEF Held
    <3> QED
      BY <3>2, <3>3
  <2> QED
    BY <2>1, <2>2
<1>2. ASSUME NEW k \in 0 .. (look - n) - 1
      PROVE  dict[((pos + n) + k) % Dict] = s[(pos + n) + k + 1]
  <2>1. PICK j : j = n + k
    OBVIOUS
  <2>2. j \in 0 .. look - 1 /\ pos + j = (pos + n) + k
    BY <2>1
  <2>3. dict[(pos + j) % Dict] = s[pos + j + 1]
    BY <2>2 DEF Held
  <2> QED
    BY <2>2, <2>3
<1> QED
  BY <1>1, <1>2 DEF Held

\* Compressor e is d but for the block under construction and the match put off.
SameDict(d, e) ==
    /\ IsComp(e) /\ e.pos = d.pos /\ e.look = d.look /\ e.dsize = d.dsize /\ e.dict = d.dict
    /\ e.finished = d.finished /\ e.prev = d.prev

\* What a step of the parser leaves: the stream read so far is the same.
Kept(d, e, s) ==
    /\ IsComp(e) /\ DictHolds(e, s) /\ e.pos + e.look = d.pos + d.look
    /\ e.finished = d.finished /\ e.prev = d.prev

LEMMA MoveKeeps ==
    ASSUME NEW d, NEW e, NEW s, DictHolds(d, s), SameDict(d, e), NEW n \in 0 .. d.look,
           e.saved.len \in Nat, e.saved.len <= d.look - n + 1
    PROVE  Kept(d, MoveLookahead(e, n), s)
<1> DEFINE size == Min({e.dsize + n, Dict})
<1> DEFINE f == MoveLookahead(e, n)
<1>1. f = [e EXCEPT !.pos = e.pos + n, !.look = e.look - n, !.dsize = size]
  BY Zenon DEF MoveLookahead
<1> HIDE DEF size, f
<1>2. /\ f.pos = d.pos + n /\ f.look = d.look - n /\ f.dsize = size /\ f.dict = d.dict
      /\ f.saved = e.saved /\ f.finished = d.finished /\ f.prev = d.prev /\ IsComp(f)
  BY <1>1 DEF SameDict, IsComp, CompFields
<1>3. PICK pos, look, dsize, len, dict :
         pos = d.pos /\ look = d.look /\ dsize = d.dsize /\ len = e.saved.len /\ dict = d.dict
  OBVIOUS
<1>4. /\ pos \in Nat /\ look \in Nat /\ dsize \in Nat /\ dsize <= pos /\ look <= MaxMatch
      /\ look + dsize <= Dict /\ n \in 0 .. look /\ n \in Nat
      /\ len \in Nat /\ len <= look - n + 1
      /\ Dict \in Nat /\ MaxMatch < Dict /\ MaxMatch \in Nat
  BY <1>3, DeflateAssumption DEF DictHolds
<1>5. Held(pos, look, dsize, dict, s)
  BY <1>3 DEF DictHolds
<1>6. size = dsize + n
  <2>1. size = Min({dsize + n, Dict})
    BY <1>3 DEF size, SameDict
  <2>2. dsize + n \in Nat /\ dsize + n <= Dict
    BY ONLY <1>4
  <2>3. Min({dsize + n, Dict}) <= dsize + n
        /\ (Min({dsize + n, Dict}) = dsize + n \/ Min({dsize + n, Dict}) = Dict)
    BY ONLY <1>4, <2>2, MinOfTwo
  <2> QED
    BY ONLY <1>4, <2>1, <2>2, <2>3
<1>7. Held(pos + n, look - n, dsize + n, dict, s)
  BY ONLY <1>4, <1>5, HeldMoves
<1>8. /\ pos + n \in Nat /\ look - n \in 0 .. MaxMatch /\ dsize + n \in Nat
      /\ dsize + n <= pos + n /\ (look - n) + (dsize + n) <= Dict /\ len <= (look - n) + 1
      /\ (pos + n) + (look - n) = pos + look
  BY ONLY <1>4
<1>9. /\ f.pos = pos + n /\ f.look = look - n /\ f.dsize = dsize + n /\ f.dict = dict
      /\ f.saved.len = len
  BY <1>2, <1>3, <1>6
<1>10. DictHolds(f, s)
  BY ONLY <1>4, <1>7, <1>8, <1>9 DEF DictHolds
<1>11. f.pos + f.look = d.pos + d.look
  BY ONLY <1>3, <1>8, <1>9
<1>12. Kept(d, f, s)
  BY <1>2, <1>10, <1>11 DEF Kept
<1> QED
  BY <1>12 DEF f

\* A match is as long as the lookahead at most.
LEMMA MatchFits ==
    ASSUME NEW d, NEW s, DictHolds(d, s), NEW m \in find_match(d)
    PROVE  m.len \in 0 .. d.look
<1>1. d.look \in Nat
  BY DEF DictHolds
<1>2. ASSUME NEW dist PROVE MatchLen(d, dist) \in 0 .. d.look
  <2> DEFINE S == {l \in 0 .. d.look : \A i \in 0 .. l - 1 :
                       d.dict[(d.pos + i) % Dict] = d.dict[(d.pos + i - dist) % Dict]}
  <2>1. S \in SUBSET (0 .. d.look) /\ 0 \in S
    BY <1>1
  <2>2. MatchLen(d, dist) = Max(S)
    BY Zenon DEF MatchLen
  <2> HIDE DEF S
  <2>3. S # {}
    BY <2>1
  <2>4. Max(S) \in S
    BY ONLY <1>1, <2>1, <2>3, MaxNat
  <2> QED
    BY ONLY <2>1, <2>2, <2>4
<1>3. m = NoMatch \/ \E dist : m = [len |-> MatchLen(d, dist), dist |-> dist]
  BY Zenon DEF find_match
<1>4. CASE m = NoMatch
  BY <1>1, <1>4 DEF NoMatch
<1>5. CASE \E dist : m = [len |-> MatchLen(d, dist), dist |-> dist]
  <2>1. PICK dist : m = [len |-> MatchLen(d, dist), dist |-> dist]
    BY <1>5
  <2>2. m.len = MatchLen(d, dist)
    BY <2>1
  <2> QED
    BY <1>2, <2>2
<1> QED
  BY <1>3, <1>4, <1>5

\* Codes, and the match that is put off or forgotten.
LEMMA CodesKeep ==
    ASSUME NEW d, IsComp(d), NEW x, NEW m
    PROVE  /\ SameDict(d, record_literal(d, x)) /\ record_literal(d, x).saved = d.saved
           /\ SameDict(d, record_match(d, m)) /\ record_match(d, m).saved = d.saved
           /\ SameDict(d, Defer(d, m)) /\ Defer(d, m).saved.len = m.len
           /\ SameDict(d, Forget(d)) /\ Forget(d).saved.len = 0
<1>1. SameDict(d, record_literal(d, x)) /\ record_literal(d, x).saved = d.saved
  BY DEF SameDict, IsComp, CompFields, record_literal
<1>2. SameDict(d, record_match(d, m)) /\ record_match(d, m).saved = d.saved
  BY DEF SameDict, IsComp, CompFields, record_match
<1>3. SameDict(d, Defer(d, m)) /\ Defer(d, m).saved.len = m.len
  BY DEF SameDict, IsComp, CompFields, Defer
<1>4. SameDict(d, Forget(d)) /\ Forget(d).saved.len = 0
  BY DEF SameDict, IsComp, CompFields, Forget
<1> QED
  BY <1>1, <1>2, <1>3, <1>4

LEMMA SameDictTrans ==
    ASSUME NEW d, NEW e, NEW f, SameDict(d, e), SameDict(e, f)
    PROVE  SameDict(d, f)
  BY DEF SameDict

\* One step of the lazy or greedy parser.
LEMMA ParseKeeps ==
    ASSUME NEW d, IsComp(d), NEW s, DictHolds(d, s), d.look >= 1, NEW m \in find_match(d)
    PROVE  Kept(d, Parse(d, m), s)
<1>1. m.len \in 0 .. d.look
  BY MatchFits
<1>2. d.look \in Nat /\ d.saved.len \in Nat /\ d.saved.len <= d.look + 1 /\ 1 \in 0 .. d.look
  BY DEF DictHolds
<1>3. CASE d.saved.len > 0 /\ m.len > d.saved.len
  <2> DEFINE e == record_literal(d, d.saved.lit)
  <2>1. SameDict(d, e) /\ IsComp(e)
    BY CodesKeep DEF SameDict
  <2> HIDE DEF e
  <2>2. CASE m.len >= LongMatch
    <3> DEFINE f == Forget(record_match(e, m))
    <3>1. SameDict(d, f) /\ f.saved.len = 0
      <4>1. SameDict(e, record_match(e, m)) /\ IsComp(record_match(e, m))
        BY <2>1, CodesKeep DEF SameDict
      <4>2. SameDict(record_match(e, m), f) /\ f.saved.len = 0
        BY <4>1, CodesKeep
      <4> HIDE DEF f
      <4> QED
        BY <2>1, <4>1, <4>2, SameDictTrans
    <3>2. Parse(d, m) = MoveLookahead(f, m.len)
      BY <1>3, <2>2 DEF Parse, e
    <3> HIDE DEF f
    <3>3. f.saved.len \in Nat /\ f.saved.len <= d.look - m.len + 1
      BY ONLY <1>1, <1>2, <3>1
    <3>4. Kept(d, MoveLookahead(f, m.len), s)
      BY <1>1, <3>1, <3>3, MoveKeeps
    <3> QED
      BY <3>2, <3>4
  <2>3. CASE ~ (m.len >= LongMatch)
    <3> DEFINE f == Defer(e, m)
    <3>1. SameDict(d, f) /\ f.saved.len = m.len
      BY <2>1, CodesKeep, SameDictTrans
    <3>2. Parse(d, m) = MoveLookahead(f, 1)
      BY <1>3, <2>3 DEF Parse, e
    <3> HIDE DEF f
    <3>3. f.saved.len \in Nat /\ f.saved.len <= d.look - 1 + 1
      BY ONLY <1>1, <1>2, <3>1
    <3>4. Kept(d, MoveLookahead(f, 1), s)
      BY <1>2, <3>1, <3>3, MoveKeeps
    <3> QED
      BY <3>2, <3>4
  <2> QED
    BY <2>2, <2>3
<1>4. CASE d.saved.len > 0 /\ ~ (m.len > d.saved.len)
  <2> DEFINE e == record_match(d, d.saved)
  <2> DEFINE f == Forget(e)
  <2>1. SameDict(d, f) /\ f.saved.len = 0
    <3>1. SameDict(d, e) /\ IsComp(e)
      BY CodesKeep DEF SameDict
    <3> HIDE DEF e
    <3> QED
      BY <3>1, CodesKeep, SameDictTrans
  <2>2. Parse(d, m) = MoveLookahead(f, d.saved.len - 1)
    BY <1>4 DEF Parse
  <2> HIDE DEF f
  <2>3. f.saved.len \in Nat /\ f.saved.len <= d.look - (d.saved.len - 1) + 1
        /\ d.saved.len - 1 \in 0 .. d.look
    BY ONLY <1>2, <1>4, <2>1
  <2>4. Kept(d, MoveLookahead(f, d.saved.len - 1), s)
    BY <2>1, <2>3, MoveKeeps
  <2> QED
    BY <2>2, <2>4
<1>5. CASE ~ (d.saved.len > 0) /\ m.dist = 0
  <2> DEFINE f == record_literal(d, d.dict[d.pos % Dict])
  <2>1. SameDict(d, f) /\ f.saved = d.saved
    BY CodesKeep
  <2>2. Parse(d, m) = MoveLookahead(f, 1)
    BY <1>5 DEF Parse
  <2> HIDE DEF f
  <2>3. f.saved.len \in Nat /\ f.saved.len <= d.look - 1 + 1
    BY <1>2, <1>5, <2>1
  <2>4. Kept(d, MoveLookahead(f, 1), s)
    BY <1>2, <2>1, <2>3, MoveKeeps
  <2> QED
    BY <2>2, <2>4
<1>6. CASE ~ (d.saved.len > 0) /\ m.dist # 0 /\ (d.greedy \/ m.len >= LongMatch)
  <2> DEFINE f == record_match(d, m)
  <2>1. SameDict(d, f) /\ f.saved = d.saved
    BY CodesKeep
  <2>2. Parse(d, m) = MoveLookahead(f, m.len)
    BY <1>6 DEF Parse
  <2> HIDE DEF f
  <2>3. f.saved.len \in Nat /\ f.saved.len <= d.look - m.len + 1
    BY <1>1, <1>2, <1>6, <2>1
  <2>4. Kept(d, MoveLookahead(f, m.len), s)
    BY <1>1, <2>1, <2>3, MoveKeeps
  <2> QED
    BY <2>2, <2>4
<1>7. CASE ~ (d.saved.len > 0) /\ m.dist # 0 /\ ~ (d.greedy \/ m.len >= LongMatch)
  <2> DEFINE f == Defer(d, m)
  <2>1. SameDict(d, f) /\ f.saved.len = m.len
    BY CodesKeep
  <2>2. Parse(d, m) = MoveLookahead(f, 1)
    BY <1>7 DEF Parse
  <2> HIDE DEF f
  <2>3. f.saved.len \in Nat /\ f.saved.len <= d.look - 1 + 1
    BY <1>1, <1>2, <2>1
  <2>4. Kept(d, MoveLookahead(f, 1), s)
    BY <1>2, <2>1, <2>3, MoveKeeps
  <2> QED
    BY <2>2, <2>4
<1> QED
  BY <1>3, <1>4, <1>5, <1>6, <1>7

\* A block that is sent leaves the dictionary alone.
LEMMA FlushKeeps ==
    ASSUME NEW d, IsComp(d), NEW s, DictHolds(d, s), NEW units
    PROVE  Kept(d, Flushed(d, units), s) /\ SameDict(d, Flushed(d, units))
<1> DEFINE e == Flushed(d, units)
<1>1. SameDict(d, e) /\ e.saved = d.saved
  BY DEF Flushed, SameDict, IsComp, CompFields
<1> HIDE DEF e
<1>2. Kept(d, e, s)
  BY <1>1 DEF Kept, SameDict, DictHolds
<1> QED
  BY <1>1, <1>2 DEF e

-----------------------------------------------------------------------------
(* The trace recorder: its invariant.                                        *)

\* The first at bytes of stream s, then a, then b.
Cut(s, at, a, b) ==
    /\ Len(s) = at + Len(a) + Len(b)
    /\ Continues(a, at, s) /\ Continues(b, at + Len(a), s)

\* A record is added at the end.
LEMMA CutGrows ==
    ASSUME NEW s \in Seq(Nat), NEW at \in Nat, NEW a \in Seq(Nat), NEW w \in Seq(Nat),
           Cut(s, at, a, <<>>)
    PROVE  Cut(s \o w, at, a, w)
<1>1. Len(s) = at + Len(a) /\ Len(a) \in Nat /\ Len(w) \in Nat
  BY DEF Cut
<1>2. /\ Len(s \o w) = Len(s) + Len(w)
      /\ \A i \in 1 .. Len(s) : (s \o w)[i] = s[i]
      /\ \A i \in 1 .. Len(w) : (s \o w)[Len(s) + i] = w[i]
  <2>1. \A i \in 1 .. Len(w) : /\ Len(s) + i \in 1 .. Len(s) + Len(w)
                               /\ ~ (Len(s) + i <= Len(s)) /\ (Len(s) + i) - Len(s) = i
    OBVIOUS
  <2> QED
    BY <2>1, ConcatProperties
<1>3. Continues(a, at, s \o w)
  <2>1. ASSUME NEW i \in 1 .. Len(a) PROVE a[i] = (s \o w)[at + i]
    <3>1. a[i] = s[at + i] /\ at + i \in 1 .. Len(s)
      BY <1>1 DEF Cut, Continues
    <3> QED
      BY <1>2, <3>1
  <2> QED
    BY <2>1 DEF Continues
<1>4. Continues(w, at + Len(a), s \o w)
  BY <1>1, <1>2 DEF Continues
<1> QED
  BY <1>1, <1>2, <1>3, <1>4 DEF Cut

\* A byte goes from the second part to the first.
LEMMA CutTakes ==
    ASSUME NEW s \in Seq(Nat), NEW at \in Nat, NEW a \in Seq(Nat), NEW b \in Seq(Nat),
           Cut(s, at, a, b), b # <<>>
    PROVE  Cut(s, at, Append(a, Head(b)), Tail(b))
<1> DEFINE c == Append(a, Head(b))
<1> DEFINE t == Tail(b)
<1>1. /\ Len(b) \in Nat /\ Len(b) >= 1 /\ Len(t) = Len(b) - 1 /\ Len(c) = Len(a) + 1
      /\ Len(a) \in Nat /\ Head(b) = b[1] /\ c[Len(a) + 1] = b[1]
  OBVIOUS
<1>2. \A i \in 1 .. Len(a) : c[i] = a[i]
  OBVIOUS
<1>3. \A i \in 1 .. Len(t) : t[i] = b[i + 1]
  BY <1>1
<1> HIDE DEF c, t
<1>4. Len(s) = at + Len(c) + Len(t)
  BY <1>1 DEF Cut
<1>5. Continues(c, at, s)
  <2>1. ASSUME NEW i \in 1 .. Len(c) PROVE c[i] = s[at + i]
    <3>1. CASE i <= Len(a)
      <4>1. i \in 1 .. Len(a)
        BY <1>1, <3>1
      <4> QED
        BY <1>2, <4>1 DEF Cut, Continues
    <3>2. CASE i = Len(a) + 1
      <4>1. b[1] = s[(at + Len(a)) + 1]
        BY <1>1 DEF Cut, Continues
      <4>2. (at + Len(a)) + 1 = at + i
        BY <1>1, <3>2
      <4> QED
        BY <1>1, <3>2, <4>1, <4>2
    <3> QED
      BY <1>1, <3>1, <3>2
  <2> QED
    BY <2>1 DEF Continues
<1>6. Continues(t, at + Len(c), s)
  <2>1. ASSUME NEW i \in 1 .. Len(t) PROVE t[i] = s[(at + Len(c)) + i]
    <3>1. PICK j : j = i + 1
      OBVIOUS
    <3>2. j \in 1 .. Len(b) /\ (at + Len(a)) + j = (at + Len(c)) + i
      BY <1>1, <3>1
    <3>3. b[j] = s[(at + Len(a)) + j]
      BY <3>2 DEF Cut, Continues
    <3> QED
      BY <1>3, <3>1, <3>2, <3>3
  <2> QED
    BY <2>1 DEF Continues
<1>7. Cut(s, at, c, t)
  BY <1>4, <1>5, <1>6 DEF Cut
<1> QED
  BY <1>7 DEF c, t

\* The first n bytes of the first part are read.
LEMMA CutReads ==
    ASSUME NEW s \in Seq(Nat), NEW at \in Nat, NEW a \in Seq(Nat), NEW b \in Seq(Nat),
           Cut(s, at, a, b), NEW n \in Nat, n <= Len(a)
    PROVE  /\ Cut(s, at + n, SubSeq(a, n + 1, Len(a)), b)
           /\ Continues(SubSeq(a, 1, n), at, s)
           /\ SubSeq(a, 1, n) \in Seq(Nat) /\ Len(SubSeq(a, 1, n)) = n
           /\ SubSeq(a, n + 1, Len(a)) \in Seq(Nat)
<1> DEFINE p == SubSeq(a, 1, n)
<1> DEFINE t == SubSeq(a, n + 1, Len(a))
<1>1. Len(a) \in Nat /\ Len(b) \in Nat
  OBVIOUS
<1>2. p \in Seq(Nat) /\ Len(p) = n /\ \A i \in 1 .. n : p[i] = a[i]
  BY <1>1
<1>3. t \in Seq(Nat) /\ Len(t) = Len(a) - n /\ \A i \in 1 .. Len(t) : t[i] = a[n + i]
  <2>1. t \in Seq(Nat)
    BY <1>1
  <2>2. Len(t) = Len(a) - n
    BY <1>1
  <2>3. ASSUME NEW i \in 1 .. Len(a) - n PROVE t[i] = a[n + i]
    BY <1>1
  <2> HIDE DEF t
  <2> QED
    BY <2>1, <2>2, <2>3
<1> HIDE DEF p, t
<1>4. Len(s) = (at + n) + Len(t) + Len(b)
  BY <1>1, <1>3 DEF Cut
<1>5. Continues(p, at, s)
  <2>1. \A i \in 1 .. n : i \in 1 .. Len(a)
    BY <1>1
  <2> QED
    BY <1>2, <2>1 DEF Cut, Continues
<1>6. Continues(t, at + n, s)
  <2>1. ASSUME NEW i \in 1 .. Len(t) PROVE t[i] = s[(at + n) + i]
    <3>1. PICK j : j = n + i
      OBVIOUS
    <3>2. j \in 1 .. Len(a) /\ at + j = (at + n) + i
      <4>1. i \in 1 .. Len(a) - n /\ n \in Nat /\ at \in Nat
        BY <1>1, <1>3
      <4> QED
        BY ONLY <1>1, <3>1, <4>1
    <3>3. a[j] = s[at + j]
      BY <3>2 DEF Cut, Continues
    <3> QED
      BY <1>3, <3>1, <3>2, <3>3
  <2> QED
    BY <2>1 DEF Continues
<1>7. Continues(b, (at + n) + Len(t), s)
  <2>1. (at + n) + Len(t) = at + Len(a)
    BY <1>1, <1>3
  <2> QED
    BY <2>1 DEF Cut
<1>8. Cut(s, at + n, t, b)
  BY <1>4, <1>6, <1>7 DEF Cut
<1> QED
  BY <1>2, <1>3, <1>5, <1>8 DEF p, t

\* A longer stream has the same bytes where the compressor looks.
LEMMA HoldsGrows ==
    ASSUME NEW d, NEW s \in Seq(Nat), NEW w \in Seq(Nat), DictHolds(d, s),
           d.pos + d.look <= Len(s)
    PROVE  DictHolds(d, s \o w)
<1>1. PICK pos, look, dsize, dict :
         pos = d.pos /\ look = d.look /\ dsize = d.dsize /\ dict = d.dict
  OBVIOUS
<1>2. /\ pos \in Nat /\ look \in Nat /\ dsize \in Nat /\ dsize <= pos /\ pos + look <= Len(s)
      /\ Len(s) \in Nat /\ Held(pos, look, dsize, dict, s)
  BY <1>1 DEF DictHolds
<1>3. \A i \in 1 .. Len(s) : (s \o w)[i] = s[i]
  BY ConcatProperties
<1>4. Held(pos, look, dsize, dict, s \o w)
  <2> DEFINE t == s \o w
  <2>0. \A i \in 1 .. Len(s) : t[i] = s[i]
    BY <1>3
  <2> HIDE DEF t
  <2>1. ASSUME NEW k \in 1 .. dsize PROVE dict[(pos - k) % Dict] = t[pos - k + 1]
    <3>1. pos - k + 1 \in 1 .. Len(s)
      BY ONLY <1>2, k \in 1 .. dsize
    <3> QED
      BY <1>2, <2>0, <3>1 DEF Held
  <2>2. ASSUME NEW k \in 0 .. look - 1 PROVE dict[(pos + k) % Dict] = t[pos + k + 1]
    <3>1. pos + k + 1 \in 1 .. Len(s)
      BY ONLY <1>2, k \in 0 .. look - 1
    <3> QED
      BY <1>2, <2>0, <3>1 DEF Held
  <2>3. Held(pos, look, dsize, dict, t)
    BY <2>1, <2>2 DEF Held
  <2> QED
    BY <2>3 DEF t
<1> QED
  BY <1>1, <1>4 DEF DictHolds

RecorderTypeOK ==
    /\ accesses \in Seq(Access) /\ mode \in {"BINARY", "NONE"} /\ current_instruction = 0
    /\ todo \in Seq(Nat) /\ buffer \in Seq(Nat) /\ src \in Seq(Nat)
    /\ DOMAIN call = {"flush", "status", "progress"} /\ call.flush \in {"NO", "FINISH"}
    /\ IsComp(z)

\* The bytes the plugin has and the compressor has not: the rest of the input
\* of the current mz_deflate, or the buffer.
Front == IF ppc \in {"deflate", "again"} THEN src ELSE buffer

\* Until the recorder stops no byte is lost between record, buffer, input and
\* dictionary.
NothingSkipped == ppc \notin {"closed", "failed"} => Cut(Stream, z.pos + z.look, Front, todo)

\* Only plugin_exit finishes the stream, and the buffer is used again only when
\* the compressor has taken it.
RecorderControl ==
    /\ ppc = "guest" => todo = <<>>
    /\ ppc \in {"guest", "write"} => call.flush = "NO"
    /\ z.finished \/ z.prev = "DONE" => call.flush = "FINISH"
    /\ ppc = "compress" => call.flush = "FINISH" \/ Len(buffer) = SizeBuffer
    /\ ppc = "deflate" /\ cpc = "returned" /\ call.flush = "NO" /\ call.status # "STREAM_ERROR"
         => room = 0 \/ src = <<>>

RecorderInv == RecorderTypeOK /\ DictHolds(z, Stream) /\ NothingSkipped /\ RecorderControl

\* The stream depends on the accesses and the target alone.
LEMMA StreamSame ==
    ASSUME accesses' = accesses, is_64_bits' = is_64_bits
    PROVE  Stream' = Stream
  BY DEF Stream, write_in_file, write_address

LEMMA RecorderInit ==
    ASSUME Init
    PROVE  RecorderInv
<1>1. PICK greedy \in Greedy : DeflateInit(greedy)
  BY DEF Init
<1>2. PICK arg \in ModeArgs, target \in Targets : qemu_plugin_install(arg, target)
  BY DEF Init
<1>3. /\ accesses = <<>> /\ current_instruction = 0 /\ todo = <<>> /\ buffer = <<>> /\ src = <<>>
      /\ ppc = "guest" /\ cpc = "idle"
      /\ call = [flush |-> "NO", status |-> "OK", progress |-> FALSE] /\ z = tdefl_init(greedy)
  BY <1>1, <1>2, Zenon DEF Init, qemu_plugin_install, DeflateInit
<1>4. mode \in {"BINARY", "NONE"}
  <2>1. arg \in {"0", "2"}
    BY TraceAssumption
  <2> QED
    BY <1>2, <2>1 DEF qemu_plugin_install, set_mode
<1>5. /\ IsComp(z) /\ z.pos = 0 /\ z.look = 0 /\ z.dsize = 0 /\ z.saved.len = 0
      /\ z.finished = FALSE /\ z.prev = "OKAY"
  BY <1>3 DEF tdefl_init, IsComp, CompFields
<1>6. Stream = <<>>
  BY <1>3, StreamBytes
<1>7. RecorderTypeOK
  BY <1>3, <1>4, <1>5 DEF RecorderTypeOK
<1>8. DictHolds(z, Stream)
  BY <1>5, DeflateAssumption DEF DictHolds, Held
<1>9. NothingSkipped
  BY <1>3, <1>5, <1>6 DEF NothingSkipped, Front, Cut, Continues
<1>10. RecorderControl
  BY <1>3, <1>5 DEF RecorderControl
<1> QED
  BY <1>7, <1>8, <1>9, <1>10 DEF RecorderInv

\* Facts of the invariant in the form the steps use.
LEMMA RecorderFacts ==
    ASSUME RecorderInv
    PROVE  /\ Stream \in Seq(Nat) /\ z.pos \in Nat /\ z.look \in Nat /\ z.pos + z.look \in Nat
           /\ z.look <= MaxMatch /\ DictHolds(z, Stream) /\ IsComp(z)
           /\ accesses \in Seq(Access) /\ todo \in Seq(Nat) /\ buffer \in Seq(Nat)
           /\ src \in Seq(Nat)
           /\ DOMAIN call = {"flush", "status", "progress"} /\ call.flush \in {"NO", "FINISH"}
           /\ NothingSkipped /\ RecorderControl
<1>1. RecorderTypeOK /\ DictHolds(z, Stream) /\ NothingSkipped /\ RecorderControl
  BY DEF RecorderInv
<1>2. Stream \in Seq(Nat)
  BY <1>1, StreamBytes DEF RecorderTypeOK
<1>3. MaxMatch \in Nat
  BY DeflateAssumption
<1>4. z.pos \in Nat /\ z.look \in Nat /\ z.pos + z.look \in Nat /\ z.look <= MaxMatch
  BY <1>1, <1>3 DEF DictHolds
<1> QED
  BY <1>1, <1>2, <1>4 DEF RecorderTypeOK

LEMMA RecorderIdle ==
    ASSUME RecorderInv, UNCHANGED <<pluginVars, deflateVars>>
    PROVE  RecorderInv'
<1>1. /\ mode' = mode /\ accesses' = accesses
      /\ is_64_bits' = is_64_bits /\ current_instruction' = current_instruction
      /\ todo' = todo /\ buffer' = buffer /\ ppc' = ppc /\ z' = z /\ src' = src
      /\ room' = room /\ call' = call /\ cpc' = cpc
  BY DEF pluginVars, deflateVars
<1>2. Stream' = Stream
  BY <1>1, StreamSame
<1>3. RecorderTypeOK'
  BY <1>1 DEF RecorderInv, RecorderTypeOK
<1>4. DictHolds(z, Stream)'
  BY <1>1, <1>2 DEF RecorderInv
<1>5. NothingSkipped'
  BY <1>1, <1>2 DEF RecorderInv, NothingSkipped, Front
<1>6. RecorderControl'
  BY <1>1 DEF RecorderInv, RecorderControl
<1> QED
  BY <1>3, <1>4, <1>5, <1>6 DEF RecorderInv

LEMMA RecorderMemCb ==
    ASSUME RecorderInv, NEW a \in Access, mem_cb(a)
    PROVE  RecorderInv'
<1> DEFINE w == write_in_file(a, a.insns)
<1>0. /\ ppc = "guest" /\ current_instruction' = 0
      /\ todo' = (IF mode = "BINARY" THEN write_in_file(a, counter_inst(a.insns)) ELSE <<>>)
      /\ accesses' = (IF mode = "BINARY" THEN Append(accesses, a) ELSE accesses)
      /\ ppc' = (IF mode = "BINARY" THEN "write" ELSE "guest")
      /\ mode' = mode
      /\ is_64_bits' = is_64_bits /\ buffer' = buffer /\ z' = z /\ src' = src /\ room' = room
      /\ call' = call /\ cpc' = cpc
  BY DEF mem_cb, deflateVars
<1>1. /\ Stream \in Seq(Nat) /\ z.pos + z.look \in Nat
      /\ DictHolds(z, Stream) /\ accesses \in Seq(Access) /\ buffer \in Seq(Nat)
      /\ src \in Seq(Nat) /\ NothingSkipped /\ RecorderControl
  BY RecorderFacts
<1>2. todo = <<>> /\ call.flush = "NO"
  BY <1>0, <1>1 DEF RecorderControl
<1>3. Cut(Stream, z.pos + z.look, buffer, <<>>)
  BY <1>0, <1>1, <1>2 DEF NothingSkipped, Front
<1>4. RecorderTypeOK
  BY DEF RecorderInv
<1>5. CASE mode = "BINARY"
  <2>1. counter_inst(a.insns) = a.insns
    <3>1. a.insns \in Insns
      BY DEF Access
    <3>2. a.insns \in Nat
      BY <3>1, TraceAssumption, Zenon
    <3> QED
      BY <1>4, <3>2 DEF counter_inst, RecorderTypeOK
  <2>2. todo' = w /\ accesses' = Append(accesses, a) /\ ppc' = "write"
    BY <1>0, <1>5, <2>1
  <2>3. w \in Seq(Nat)
    BY RecordBytes
  <2>4. Stream' = Stream \o w
    BY <1>0, <1>1, <2>2, StreamGrows
  <2> HIDE DEF w
  <2>5. RecorderTypeOK'
    <3>1. accesses' \in Seq(Access)
      BY <1>1, <2>2
    <3> QED
      BY <1>0, <1>4, <2>2, <2>3, <3>1 DEF RecorderTypeOK
  <2>6. DictHolds(z, Stream)'
    <3>1. z.pos + z.look <= Len(Stream)
      <4>1. Len(Stream) = (z.pos + z.look) + Len(buffer) + 0 /\ Len(buffer) \in Nat
        BY <1>1, <1>3 DEF Cut
      <4>2. PICK n : n = z.pos + z.look
        OBVIOUS
      <4> QED
        BY ONLY <1>1, <4>1, <4>2
    <3>2. DictHolds(z, Stream \o w)
      BY <1>1, <2>3, <3>1, HoldsGrows
    <3> QED
      BY <1>0, <2>4, <3>2
  <2>7. Cut(Stream \o w, z.pos + z.look, buffer, w)
    BY ONLY <1>1, <1>3, <2>3, CutGrows
  <2>8. NothingSkipped'
    BY <1>0, <2>2, <2>4, <2>7 DEF NothingSkipped, Front
  <2>9. RecorderControl'
    BY <1>0, <1>1, <1>2, <2>2 DEF RecorderControl
  <2> QED
    BY <2>5, <2>6, <2>8, <2>9 DEF RecorderInv
<1>6. CASE mode # "BINARY"
  <2>1. /\ todo' = todo /\ accesses' = accesses
        /\ is_64_bits' = is_64_bits /\ ppc' = ppc /\ current_instruction' = 0
    BY <1>0, <1>2, <1>6
  <2>2. Stream' = Stream
    BY <2>1, StreamSame
  <2>3. RecorderTypeOK'
    BY <1>0, <1>4, <2>1 DEF RecorderTypeOK
  <2>4. DictHolds(z, Stream)'
    BY <1>0, <1>1, <2>2
  <2>5. NothingSkipped'
    BY <1>0, <1>1, <2>1, <2>2 DEF NothingSkipped, Front
  <2>6. RecorderControl'
    BY <1>0, <1>1, <2>1 DEF RecorderControl
  <2> QED
    BY <2>3, <2>4, <2>5, <2>6 DEF RecorderInv
<1> QED
  BY <1>5, <1>6

LEMMA RecorderWriteBuffer ==
    ASSUME RecorderInv, write_buffer
    PROVE  RecorderInv'
<1>0. /\ ppc = "write" /\ todo # <<>> /\ buffer' = Append(buffer, Head(todo))
      /\ todo' = Tail(todo) /\ ppc' = (IF Len(buffer') = SizeBuffer THEN "compress" ELSE "write")
      /\ call' = [call EXCEPT !.flush = "NO"] /\ mode' = mode /\ accesses' = accesses
      /\ is_64_bits' = is_64_bits
      /\ current_instruction' = current_instruction /\ z' = z /\ src' = src
  BY DEF write_buffer
<1>1. /\ Stream \in Seq(Nat) /\ z.pos + z.look \in Nat
      /\ DictHolds(z, Stream) /\ buffer \in Seq(Nat) /\ todo \in Seq(Nat)
      /\ DOMAIN call = {"flush", "status", "progress"} /\ NothingSkipped /\ RecorderControl
  BY RecorderFacts
<1>2. Stream' = Stream
  BY <1>0, StreamSame
<1>3. DOMAIN call' = DOMAIN call /\ call'.flush = "NO"
  BY <1>0, <1>1
<1>4. RecorderTypeOK'
  <2>1. buffer' \in Seq(Nat) /\ todo' \in Seq(Nat)
    BY <1>0, <1>1
  <2>2. RecorderTypeOK
    BY DEF RecorderInv
  <2> QED
    BY <1>0, <1>1, <1>3, <2>1, <2>2 DEF RecorderTypeOK
<1>5. NothingSkipped'
  <2>1. Cut(Stream, z.pos + z.look, buffer, todo)
    BY <1>0, <1>1 DEF NothingSkipped, Front
  <2>2. Cut(Stream, z.pos + z.look, Append(buffer, Head(todo)), Tail(todo))
    BY ONLY <1>0, <1>1, <2>1, CutTakes
  <2> QED
    BY <1>0, <1>2, <2>2 DEF NothingSkipped, Front
<1>6. RecorderControl'
  <2>1. ~ (z.finished \/ z.prev = "DONE")
    BY <1>0, <1>1 DEF RecorderControl
  <2> QED
    BY <1>0, <1>3, <2>1 DEF RecorderControl
<1> QED
  BY <1>0, <1>1, <1>2, <1>4, <1>5, <1>6 DEF RecorderInv

LEMMA RecorderRecordWritten ==
    ASSUME RecorderInv, RecordWritten
    PROVE  RecorderInv'
<1>0. /\ ppc = "write" /\ todo = <<>> /\ ppc' = "guest" /\ mode' = mode /\ accesses' = accesses
      /\ is_64_bits' = is_64_bits
      /\ current_instruction' = current_instruction /\ todo' = todo /\ buffer' = buffer
      /\ z' = z /\ src' = src /\ room' = room /\ call' = call /\ cpc' = cpc
  BY DEF RecordWritten, deflateVars
<1>1. Stream' = Stream
  BY <1>0, StreamSame
<1>2. RecorderTypeOK'
  BY <1>0 DEF RecorderInv, RecorderTypeOK
<1>3. NothingSkipped'
  BY <1>0, <1>1 DEF RecorderInv, NothingSkipped, Front
<1>4. RecorderControl'
  BY <1>0 DEF RecorderInv, RecorderControl
<1> QED
  BY <1>0, <1>1, <1>2, <1>3, <1>4 DEF RecorderInv

LEMMA RecorderExit ==
    ASSUME RecorderInv, plugin_exit
    PROVE  RecorderInv'
<1>0. /\ ppc = "guest" /\ ppc' = "compress" /\ mode' = mode /\ accesses' = accesses
      /\ is_64_bits' = is_64_bits
      /\ current_instruction' = current_instruction /\ todo' = todo /\ buffer' = buffer
      /\ z' = z /\ src' = src /\ call' = [call EXCEPT !.flush = "FINISH"]
  BY DEF plugin_exit
<1>1. Stream' = Stream
  BY <1>0, StreamSame
<1>2. DOMAIN call' = DOMAIN call /\ call'.flush = "FINISH"
  BY <1>0, RecorderFacts
<1>3. RecorderTypeOK'
  BY <1>0, <1>2 DEF RecorderInv, RecorderTypeOK
<1>4. NothingSkipped'
  BY <1>0, <1>1 DEF RecorderInv, NothingSkipped, Front
<1>5. RecorderControl'
  BY <1>0, <1>2 DEF RecorderControl
<1> QED
  BY <1>0, <1>1, <1>3, <1>4, <1>5 DEF RecorderInv

\* A call of mz_deflate with what the compressor has not taken yet.
LEMMA RecorderCall ==
    ASSUME RecorderInv, ppc \notin {"closed", "failed"}, ppc' = "deflate",
           mz_deflate(call.flush, Front, Len(buffer)),
           UNCHANGED <<mode, is_64_bits, accesses, current_instruction, todo, buffer>>
    PROVE  RecorderInv'
<1> DEFINE status == IF Len(buffer) = 0 THEN "BUF_ERROR"
                     ELSE IF z.prev = "DONE" /\ call.flush = "FINISH" THEN "STREAM_END"
                     ELSE IF z.prev = "DONE" THEN "BUF_ERROR" ELSE "OK"
<1>0. /\ mode' = mode /\ accesses' = accesses
      /\ is_64_bits' = is_64_bits /\ current_instruction' = current_instruction
      /\ todo' = todo /\ buffer' = buffer
  OBVIOUS
<1>1. /\ src' = Front /\ room' = Len(buffer) /\ z' = z
      /\ call' = [flush |-> call.flush, status |-> status, progress |-> FALSE]
      /\ cpc' = IF status = "OK" THEN "enter" ELSE "returned"
  BY DEF mz_deflate
<1> HIDE DEF status
<1>2. /\ DictHolds(z, Stream) /\ buffer \in Seq(Nat) /\ src \in Seq(Nat)
      /\ call.flush \in {"NO", "FINISH"} /\ NothingSkipped /\ RecorderControl
  BY RecorderFacts
<1>3. Stream' = Stream
  BY <1>0, StreamSame
<1>4. DOMAIN call' = {"flush", "status", "progress"} /\ call'.flush = call.flush
  BY <1>1
<1>5. src' \in Seq(Nat)
  BY <1>1, <1>2 DEF Front
<1>6. RecorderTypeOK'
  BY <1>0, <1>1, <1>2, <1>4, <1>5 DEF RecorderInv, RecorderTypeOK
<1>7. NothingSkipped'
  <2>1. Cut(Stream, z.pos + z.look, Front, todo)
    BY <1>2 DEF NothingSkipped
  <2>2. Front' = src'
    BY DEF Front
  <2> QED
    BY <1>0, <1>1, <1>3, <2>1, <2>2 DEF NothingSkipped
<1>8. RecorderControl'
  <2>1. z.finished \/ z.prev = "DONE" => call.flush = "FINISH"
    BY <1>2 DEF RecorderControl
  <2>2. cpc' = "returned" /\ call.flush = "NO" => room' = 0
    <3> SUFFICES ASSUME cpc' = "returned", call.flush = "NO" PROVE room' = 0
      OBVIOUS
    <3>1. status # "OK" /\ z.prev # "DONE"
      BY <1>1, <2>1
    <3>2. Len(buffer) = 0
      BY <3>1 DEF status
    <3> QED
      BY <1>1, <3>2
  <2> QED
    BY <1>1, <1>4, <2>1, <2>2 DEF RecorderControl
<1> QED
  BY <1>1, <1>2, <1>3, <1>6, <1>7, <1>8 DEF RecorderInv

LEMMA RecorderCompressStart ==
    ASSUME RecorderInv, CompressStart
    PROVE  RecorderInv'
<1>0. /\ ppc = "compress" /\ mode' = mode /\ accesses' = accesses /\ is_64_bits' = is_64_bits
      /\ current_instruction' = current_instruction /\ todo' = todo
  BY DEF CompressStart
<1>1. CASE Len(buffer) = 1
  <2>1. ppc' = AfterCompress /\ buffer' = <<>> /\ UNCHANGED deflateVars
    BY <1>1 DEF CompressStart
  <2>2. z' = z /\ src' = src /\ call' = call
    BY <2>1 DEF deflateVars
  <2>3. RecorderControl
    BY DEF RecorderInv
  <2>4. call.flush = "FINISH" /\ ppc' = "closed"
    <3>1. SizeBuffer # 1
      BY TraceAssumption
    <3>2. call.flush = "FINISH"
      BY <1>0, <1>1, <2>3, <3>1 DEF RecorderControl
    <3> QED
      BY <2>1, <3>2 DEF AfterCompress
  <2>5. Stream' = Stream
    BY <1>0, StreamSame
  <2>6. RecorderTypeOK'
    BY <1>0, <2>1, <2>2 DEF RecorderInv, RecorderTypeOK
  <2>7. NothingSkipped' /\ RecorderControl'
    BY <2>2, <2>4 DEF NothingSkipped, RecorderControl
  <2> QED
    BY <2>2, <2>5, <2>6, <2>7 DEF RecorderInv
<1>2. CASE Len(buffer) # 1
  <2>1. mz_deflate(call.flush, buffer, Len(buffer)) /\ ppc' = "deflate" /\ buffer' = buffer
    BY <1>2, Zenon DEF CompressStart
  <2>2. Front = buffer
    BY <1>0 DEF Front
  <2>3. mz_deflate(call.flush, Front, Len(buffer))
    BY <2>1, <2>2, Zenon
  <2> QED
    BY <1>0, <2>1, <2>3, RecorderCall
<1> QED
  BY <1>1, <1>2

LEMMA RecorderCompressAgain ==
    ASSUME RecorderInv, CompressAgain
    PROVE  RecorderInv'
<1>1. /\ ppc = "again" /\ ppc' = "deflate" /\ mz_deflate(call.flush, src, Len(buffer))
      /\ UNCHANGED <<mode, is_64_bits, accesses, current_instruction, todo, buffer>>
  BY Zenon DEF CompressAgain
<1>2. Front = src
  BY <1>1 DEF Front
<1>3. mz_deflate(call.flush, Front, Len(buffer))
  BY <1>1, <1>2, Zenon
<1> QED
  BY <1>1, <1>3, RecorderCall

LEMMA RecorderCompressWrite ==
    ASSUME RecorderInv, CompressWrite
    PROVE  RecorderInv'
<1>0. /\ ppc = "deflate" /\ cpc = "returned" /\ cpc' = "idle" /\ mode' = mode
      /\ accesses' = accesses
      /\ is_64_bits' = is_64_bits /\ current_instruction' = current_instruction /\ todo' = todo
      /\ z' = z /\ src' = src /\ room' = room /\ call' = call
  BY DEF CompressWrite
<1>1. /\ DictHolds(z, Stream) /\ NothingSkipped /\ RecorderControl /\ buffer \in Seq(Nat)
      /\ call.flush \in {"NO", "FINISH"}
  BY RecorderFacts
<1>2. Stream' = Stream
  BY <1>0, StreamSame
<1>3. DictHolds(z, Stream)'
  BY <1>0, <1>1, <1>2
<1>4. CASE call.status = "STREAM_ERROR"
  <2>1. ppc' = "failed" /\ buffer' = buffer
    BY <1>4 DEF CompressWrite
  <2>2. RecorderTypeOK'
    BY <1>0, <2>1 DEF RecorderInv, RecorderTypeOK
  <2>3. NothingSkipped' /\ RecorderControl'
    BY <1>0, <1>1, <2>1 DEF NothingSkipped, RecorderControl
  <2> QED
    BY <1>3, <2>2, <2>3 DEF RecorderInv
<1>5. CASE call.status # "STREAM_ERROR" /\ room = 0
  <2>1. ppc' = "again" /\ buffer' = buffer
    BY <1>5 DEF CompressWrite
  <2>2. RecorderTypeOK'
    BY <1>0, <2>1 DEF RecorderInv, RecorderTypeOK
  <2>3. NothingSkipped'
    BY <1>0, <1>1, <1>2, <2>1 DEF NothingSkipped, Front
  <2>4. RecorderControl'
    BY <1>0, <1>1, <2>1 DEF RecorderControl
  <2> QED
    BY <1>3, <2>2, <2>3, <2>4 DEF RecorderInv
<1>6. CASE call.status # "STREAM_ERROR" /\ room # 0
  <2>1. ppc' = AfterCompress /\ buffer' = <<>>
    BY <1>6 DEF CompressWrite
  <2>2. RecorderTypeOK'
    BY <1>0, <2>1 DEF RecorderInv, RecorderTypeOK
  <2>3. CASE call.flush = "FINISH"
    <3>1. ppc' = "closed"
      BY <2>1, <2>3 DEF AfterCompress
    <3>2. NothingSkipped' /\ RecorderControl'
      BY <1>0, <1>1, <3>1 DEF NothingSkipped, RecorderControl
    <3> QED
      BY <1>3, <2>2, <3>2 DEF RecorderInv
  <2>4. CASE call.flush = "NO"
    <3>1. ppc' = "write" /\ src = <<>>
      BY <1>0, <1>1, <1>6, <2>1, <2>4 DEF AfterCompress, RecorderControl
    <3>2. NothingSkipped'
      BY <1>0, <1>1, <1>2, <2>1, <3>1 DEF NothingSkipped, Front
    <3>3. RecorderControl'
      BY <1>0, <1>1, <2>4, <3>1 DEF RecorderControl
    <3> QED
      BY <1>3, <2>2, <3>2, <3>3 DEF RecorderInv
  <2> QED
    BY <1>1, <2>3, <2>4
<1> QED
  BY <1>4, <1>5, <1>6

\* A step of the compressor inside mz_deflate.
LEMMA RecorderDeflate ==
    ASSUME RecorderInv, ppc = "deflate", UNCHANGED pluginVars,
           IsComp(z'), DictHolds(z', Stream), src' \in Seq(Nat),
           Cut(Stream, z'.pos + z'.look, src', todo),
           DOMAIN call' = DOMAIN call, call'.flush = call.flush,
           z'.finished \/ z'.prev = "DONE" => call.flush = "FINISH",
           cpc' = "returned" /\ call.flush = "NO" /\ call'.status # "STREAM_ERROR"
             => room' = 0 \/ src' = <<>>
    PROVE  RecorderInv'
<1>0. /\ mode' = mode /\ accesses' = accesses
      /\ is_64_bits' = is_64_bits /\ current_instruction' = current_instruction
      /\ todo' = todo /\ buffer' = buffer /\ ppc' = ppc
  BY DEF pluginVars
<1>1. Stream' = Stream
  BY <1>0, StreamSame
<1>2. RecorderTypeOK'
  BY <1>0 DEF RecorderInv, RecorderTypeOK
<1>3. NothingSkipped'
  BY <1>0, <1>1 DEF NothingSkipped, Front
<1>4. RecorderControl'
  BY <1>0 DEF RecorderControl
<1> QED
  BY <1>1, <1>2, <1>3, <1>4 DEF RecorderInv

\* Steps that leave the dictionary and the input alone.
LEMMA RecorderQuiet ==
    ASSUME RecorderInv, ppc = "deflate", UNCHANGED <<pluginVars, src, call>>,
           IsComp(z'), z'.pos = z.pos, z'.look = z.look, z'.dsize = z.dsize, z'.dict = z.dict,
           z'.saved = z.saved, z'.finished \/ z'.prev = "DONE" => call.flush = "FINISH",
           cpc' # "returned"
    PROVE  RecorderInv'
<1>0. UNCHANGED pluginVars /\ src' = src /\ call' = call
  OBVIOUS
<1>1. /\ DictHolds(z, Stream) /\ NothingSkipped /\ src \in Seq(Nat)
  BY RecorderFacts
<1>2. DictHolds(z', Stream)
  BY <1>1 DEF DictHolds
<1>3. Cut(Stream, z'.pos + z'.look, src', todo)
  BY <1>0, <1>1 DEF NothingSkipped, Front
<1> QED
  BY <1>0, <1>1, <1>2, <1>3, RecorderDeflate

LEMMA RecorderOutput ==
    ASSUME RecorderInv, ppc = "deflate", UNCHANGED <<pluginVars, src, call>>, cpc' # "returned",
           NEW d, SameDict(z, d), d.saved = z.saved, flush_output_buffer(d)
    PROVE  RecorderInv'
<1> DEFINE n == Min({room, Len(d.pend)})
<1> DEFINE e == [d EXCEPT !.pend = SubSeq(d.pend, n + 1, Len(d.pend))]
<1>1. z' = [e EXCEPT !.prev = IF e.finished /\ e.pend = <<>> THEN "DONE" ELSE "OKAY"]
  BY Zenon DEF flush_output_buffer
<1>2. /\ IsComp(e) /\ e.pos = z.pos /\ e.look = z.look /\ e.dsize = z.dsize /\ e.dict = z.dict
      /\ e.saved = z.saved /\ e.finished = z.finished
  BY DEF SameDict, IsComp, CompFields
<1> HIDE DEF e
<1>3. /\ IsComp(z') /\ z'.pos = z.pos /\ z'.look = z.look /\ z'.dsize = z.dsize
      /\ z'.dict = z.dict /\ z'.saved = z.saved /\ z'.finished = z.finished
      /\ z'.prev = "DONE" => z.finished
  BY <1>1, <1>2 DEF IsComp, CompFields
<1>4. z.finished => call.flush = "FINISH"
  BY DEF RecorderInv, RecorderControl
<1>5. z'.finished \/ z'.prev = "DONE" => call.flush = "FINISH"
  BY <1>3, <1>4
<1> QED
  BY <1>3, <1>5, RecorderQuiet

LEMMA RecorderEnter ==
    ASSUME RecorderInv, ppc = "deflate", CompressEnter, UNCHANGED pluginVars
    PROVE  RecorderInv'
<1> DEFINE d == [z EXCEPT !.wants = z.wants \/ call.flush = "FINISH"]
<1>0. UNCHANGED <<pluginVars, src, call>>
  BY DEF CompressEnter
<1>1. IsComp(z) /\ RecorderControl
  BY RecorderFacts
<1>2. SameDict(z, d) /\ d.saved = z.saved
  BY <1>1 DEF SameDict, IsComp, CompFields
<1>3. \/ z' = [z EXCEPT !.prev = "BAD_PARAM"] /\ cpc' = "ret"
      \/ flush_output_buffer(d) /\ cpc' = "ret"
      \/ z' = d /\ cpc' = "loop"
  BY DEF CompressEnter
<1>4. CASE z' = [z EXCEPT !.prev = "BAD_PARAM"] /\ cpc' = "ret"
  <2>1. /\ IsComp(z') /\ z'.pos = z.pos /\ z'.look = z.look /\ z'.dsize = z.dsize
        /\ z'.dict = z.dict /\ z'.saved = z.saved /\ z'.finished = z.finished
        /\ z'.prev = "BAD_PARAM"
    BY <1>1, <1>4 DEF IsComp, CompFields
  <2>2. z'.finished \/ z'.prev = "DONE" => call.flush = "FINISH"
    BY <1>1, <2>1 DEF RecorderControl
  <2> QED
    BY <1>0, <1>4, <2>1, <2>2, RecorderQuiet
<1>5. CASE flush_output_buffer(d) /\ cpc' = "ret"
  <2> HIDE DEF d
  <2> QED
    BY <1>0, <1>2, <1>5, RecorderOutput
<1>6. CASE z' = d /\ cpc' = "loop"
  <2> HIDE DEF d
  <2>1. /\ IsComp(z') /\ z'.pos = z.pos /\ z'.look = z.look /\ z'.dsize = z.dsize
        /\ z'.dict = z.dict /\ z'.saved = z.saved /\ z'.finished = z.finished /\ z'.prev = z.prev
    BY <1>2, <1>6 DEF SameDict
  <2>2. z'.finished \/ z'.prev = "DONE" => call.flush = "FINISH"
    BY <1>1, <2>1 DEF RecorderControl
  <2> QED
    BY <1>0, <1>6, <2>1, <2>2, RecorderQuiet
<1> QED
  BY <1>3, <1>4, <1>5, <1>6

\* One iteration: bytes of the input move into the lookahead of the compressor,
\* which is then d, and a literal or a match out of it.
Iterated(d) ==
    \/ z' = d /\ cpc' = "tail" /\ UNCHANGED <<out, room>>
    \/ /\ d.look >= 1
       /\ \E m \in find_match(d) :
             \/ /\ \E raw \in {FALSE, MayBeRaw(Parse(d, m))} : flush_block(Parse(d, m), "NO", raw)
                /\ cpc' = IF z'.pend # <<>> THEN "tail" ELSE "loop"
             \/ z' = Parse(d, m) /\ UNCHANGED <<out, room, cpc>>

LEMMA IterateFills ==
    ASSUME RecorderInv, ppc = "deflate", CompressIterate
    PROVE  \E d : /\ IsComp(d) /\ DictHolds(d, Stream) /\ d.pos + d.look <= Len(Stream)
                  /\ (\E bytes : d = FillLookahead(z, bytes))
                  /\ d.finished = z.finished /\ d.prev = z.prev
                  /\ Cut(Stream, d.pos + d.look, src', todo) /\ src' \in Seq(Nat)
                  /\ Iterated(d)
<1> DEFINE n == Min({Len(src), MaxMatch - z.look})
<1> DEFINE bytes == SubSeq(src, 1, n)
<1> DEFINE rest == SubSeq(src, n + 1, Len(src))
<1> DEFINE d == FillLookahead(z, bytes)
<1>0. src' = rest /\ LoopRuns
  BY Zenon DEF CompressIterate
<1>1. \/ z' = d /\ cpc' = "tail" /\ UNCHANGED <<out, room>>
      \/ /\ call.flush # "NO" \/ ~ (d.look < MaxMatch)
         /\ \E m \in find_match(d) :
             \/ /\ \E raw \in {FALSE, MayBeRaw(Parse(d, m))} : flush_block(Parse(d, m), "NO", raw)
                /\ cpc' = IF z'.pend # <<>> THEN "tail" ELSE "loop"
             \/ z' = Parse(d, m) /\ UNCHANGED <<out, room, cpc>>
  BY Zenon DEF CompressIterate
<1>2. /\ Stream \in Seq(Nat) /\ z.pos \in Nat /\ z.look \in Nat /\ z.pos + z.look \in Nat
      /\ z.look <= MaxMatch /\ DictHolds(z, Stream) /\ IsComp(z)
      /\ src \in Seq(Nat) /\ todo \in Seq(Nat) /\ call.flush \in {"NO", "FINISH"}
      /\ NothingSkipped /\ RecorderControl
  BY RecorderFacts
<1>3. PICK pos, look : pos = z.pos /\ look = z.look
  OBVIOUS
<1>4. /\ n \in Nat /\ n <= Len(src) /\ look + n <= MaxMatch /\ Len(src) \in Nat
      /\ MaxMatch \in Nat /\ MaxMatch >= 2 /\ (n = Len(src) \/ n = MaxMatch - look)
  <2>1. MaxMatch \in Nat /\ MaxMatch >= 2
    BY DeflateAssumption
  <2>2. Len(src) \in Nat /\ MaxMatch - look \in Nat
    BY <1>2, <1>3, <2>1
  <2>3. n = Min({Len(src), MaxMatch - look})
    BY <1>3
  <2> HIDE DEF n
  <2>4. n \in Nat /\ n <= Len(src) /\ n <= MaxMatch - look
        /\ (n = Len(src) \/ n = MaxMatch - look)
    BY ONLY <2>2, <2>3, MinOfTwo
  <2>5. look \in Nat
    BY <1>2, <1>3
  <2> QED
    BY ONLY <2>1, <2>2, <2>4, <2>5
<1> HIDE DEF n
<1>5. Cut(Stream, z.pos + z.look, src, todo)
  BY <1>2 DEF NothingSkipped, Front
<1>6. /\ Cut(Stream, (z.pos + z.look) + n, rest, todo) /\ Continues(bytes, z.pos + z.look, Stream)
      /\ bytes \in Seq(Nat) /\ Len(bytes) = n /\ rest \in Seq(Nat)
  BY ONLY <1>2, <1>4, <1>5, CutReads
<1> HIDE DEF bytes, rest
<1>7. /\ IsComp(d) /\ DictHolds(d, Stream) /\ d.pos = z.pos /\ d.look = z.look + n
      /\ d.finished = z.finished /\ d.prev = z.prev
  <2>1. z.look + Len(bytes) <= MaxMatch
    BY <1>3, <1>4, <1>6
  <2> QED
    BY <1>2, <1>6, <2>1, FillKeeps
<1>8. \E b : d = FillLookahead(z, b)
  BY Zenon
<1> HIDE DEF d
<1>9. d.pos + d.look = (z.pos + z.look) + n /\ d.pos + d.look \in Nat
  BY <1>2, <1>4, <1>7
<1>10. Cut(Stream, d.pos + d.look, src', todo) /\ src' \in Seq(Nat)
  BY <1>0, <1>6, <1>9
<1>11. d.pos + d.look <= Len(Stream)
  <2>1. PICK p : p = d.pos + d.look
    OBVIOUS
  <2>2. Len(Stream) = p + Len(src') + Len(todo)
    BY <1>10, <2>1 DEF Cut
  <2>3. p \in Nat /\ Len(src') \in Nat /\ Len(todo) \in Nat
    BY <1>2, <1>9, <1>10, <2>1
  <2>4. p <= Len(Stream)
    BY ONLY <2>2, <2>3
  <2> QED
    BY <2>1, <2>4
<1>12. call.flush # "NO" \/ ~ (d.look < MaxMatch) => d.look >= 1
  <2>1. ASSUME call.flush # "NO" \/ ~ (d.look < MaxMatch)
        PROVE  look + n >= 1
    <3>1. CASE ~ (d.look < MaxMatch)
      BY <1>2, <1>3, <1>4, <1>7, <3>1
    <3>2. CASE call.flush # "NO"
      <4>1. src # <<>> \/ z.look > 0
        BY <1>0 DEF LoopRuns
      <4>2. Len(src) > 0 \/ look > 0
        BY <1>2, <1>3, <4>1
      <4>3. look \in Nat
        BY <1>2, <1>3
      <4> QED
        BY ONLY <1>4, <4>2, <4>3
    <3> QED
      BY <2>1, <3>1, <3>2
  <2> QED
    BY <1>3, <1>7, <2>1
<1>13. Iterated(d)
  BY <1>1, <1>12, Zenon DEF Iterated
<1> QED
  BY <1>7, <1>8, <1>10, <1>11, <1>13, Zenon

LEMMA RecorderIterate ==
    ASSUME RecorderInv, ppc = "deflate", CompressIterate, UNCHANGED pluginVars
    PROVE  RecorderInv'
<1>1. PICK d : /\ IsComp(d) /\ DictHolds(d, Stream) /\ d.finished = z.finished
               /\ d.prev = z.prev /\ Cut(Stream, d.pos + d.look, src', todo)
               /\ src' \in Seq(Nat) /\ Iterated(d)
  BY IterateFills
<1>2. call' = call /\ cpc = "loop"
  BY DEF CompressIterate
<1>3. z.finished \/ z.prev = "DONE" => call.flush = "FINISH"
  BY RecorderFacts DEF RecorderControl
<1>4. Kept(d, z', Stream) /\ cpc' # "returned"
  <2>1. CASE z' = d /\ cpc' = "tail"
    BY <1>1, <2>1 DEF Kept
  <2>2. CASE d.look >= 1 /\ \E m \in find_match(d) :
                 \/ \E units : z' = Flushed(Parse(d, m), units) /\ cpc' \in {"tail", "loop"}
                 \/ z' = Parse(d, m) /\ cpc' = "loop"
    <3>1. PICK m \in find_match(d) :
             \/ \E units : z' = Flushed(Parse(d, m), units) /\ cpc' \in {"tail", "loop"}
             \/ z' = Parse(d, m) /\ cpc' = "loop"
      BY <2>2
    <3> DEFINE e == Parse(d, m)
    <3>2. Kept(d, e, Stream)
      BY <1>1, <2>2, ParseKeeps
    <3> HIDE DEF e
    <3>3. ASSUME NEW units, z' = Flushed(e, units), cpc' \in {"tail", "loop"}
          PROVE  Kept(d, z', Stream) /\ cpc' # "returned"
      <4>1. IsComp(e) /\ DictHolds(e, Stream)
        BY <3>2 DEF Kept
      <4>2. Kept(e, z', Stream)
        BY <3>3, <4>1, FlushKeeps
      <4> QED
        BY <3>2, <3>3, <4>2 DEF Kept
    <3> QED
      BY <3>1, <3>2, <3>3 DEF e
  <2> QED
    BY <1>1, <1>2, <2>1, <2>2 DEF Iterated, flush_block
<1>5. /\ IsComp(z') /\ DictHolds(z', Stream) /\ z'.pos + z'.look = d.pos + d.look
      /\ z'.finished = z.finished /\ z'.prev = z.prev
  BY <1>1, <1>4 DEF Kept
<1>6. Cut(Stream, z'.pos + z'.look, src', todo)
  BY <1>1, <1>5
<1> QED
  BY <1>1, <1>2, <1>3, <1>4, <1>5, <1>6, RecorderDeflate

LEMMA RecorderLoopEnds ==
    ASSUME RecorderInv, ppc = "deflate", CompressLoopEnds, UNCHANGED pluginVars
    PROVE  RecorderInv'
<1>1. UNCHANGED <<pluginVars, src, call>> /\ z' = z /\ cpc' = "tail"
  BY DEF CompressLoopEnds
<1>2. IsComp(z') /\ (z'.finished \/ z'.prev = "DONE" => call.flush = "FINISH")
  BY <1>1, RecorderFacts DEF RecorderControl
<1> QED
  BY <1>1, <1>2, RecorderQuiet

\* The end of tdefl_compress: what is left goes out, or the last block.
LEMMA RecorderTail ==
    ASSUME RecorderInv, ppc = "deflate", CompressTail, UNCHANGED pluginVars
    PROVE  RecorderInv'
<1> DEFINE d == [z EXCEPT !.adler = mz_adler32(z.adler, taken)]
<1> DEFINE Last(units) == [Flushed(d, units) EXCEPT
                              !.finished = call.flush = "FINISH",
                              !.dsize = IF call.flush = "FULL" THEN 0 ELSE @]
<1>0. UNCHANGED <<pluginVars, src, call>> /\ cpc' = "ret"
  BY DEF CompressTail
<1>1. IsComp(z) /\ DictHolds(z, Stream) /\ call.flush \in {"NO", "FINISH"}
  BY RecorderFacts
<1>2. SameDict(z, d) /\ d.saved = z.saved
  BY <1>1 DEF SameDict, IsComp, CompFields
<1>3. \/ flush_output_buffer(d)
      \/ /\ call.flush # "NO"
         /\ \E units, prev : z' = [Last(units) EXCEPT !.prev = prev]
  <2> DEFINE ends == call.flush # "NO" /\ d.look = 0 /\ src = <<>> /\ d.pend = <<>>
  <2> DEFINE Ends(units) ==
        z' = [Last(units) EXCEPT !.prev = IF Last(units).finished /\ Last(units).pend = <<>>
                                          THEN "DONE" ELSE "OKAY"]
  <2>1. CASE ends
    <3>1. \E raw \in {FALSE, MayBeRaw(d)} : Ends(BlockUnits(d, call.flush, raw))
      BY <2>1, Zenon DEF CompressTail
    <3>2. PICK units : Ends(units)
      <4> HIDE DEF Ends
      <4> QED
        BY <3>1
    <3>3. \E prev : z' = [Last(units) EXCEPT !.prev = prev]
      <4> HIDE DEF Last
      <4> QED
        BY <3>2
    <3> QED
      BY <2>1, <3>3
  <2>2. CASE ~ ends
    BY <2>2, Zenon DEF CompressTail
  <2> QED
    BY <2>1, <2>2
<1>4. CASE flush_output_buffer(d)
  <2> HIDE DEF d
  <2> QED
    BY <1>0, <1>2, <1>4, RecorderOutput
<1>5. CASE call.flush # "NO" /\ \E units, prev : z' = [Last(units) EXCEPT !.prev = prev]
  <2>1. PICK units, prev : z' = [Last(units) EXCEPT !.prev = prev]
    BY <1>5
  <2> DEFINE e == Flushed(d, units)
  <2>2. /\ IsComp(e) /\ e.pos = d.pos /\ e.look = d.look /\ e.dsize = d.dsize
        /\ e.dict = d.dict /\ e.saved = d.saved
    <3>1. IsComp(d)
      BY <1>2 DEF SameDict
    <3> HIDE DEF d
    <3> QED
      BY <3>1 DEF Flushed, IsComp, CompFields
  <2> HIDE DEF d
  <2>3. /\ IsComp(e) /\ e.pos = z.pos /\ e.look = z.look /\ e.dsize = z.dsize
        /\ e.dict = z.dict /\ e.saved = z.saved
    BY <1>2, <2>2 DEF SameDict
  <2>4. call.flush = "FINISH"
    BY <1>1, <1>5
  <2> HIDE DEF e
  <2>5. Last(units) = [e EXCEPT !.finished = call.flush = "FINISH",
                                !.dsize = IF call.flush = "FULL" THEN 0 ELSE @]
    BY Zenon DEF e
  <2> DEFINE f == Last(units)
  <2> HIDE DEF Last
  <2>6. /\ IsComp(f) /\ f.pos = z.pos /\ f.look = z.look /\ f.dsize = z.dsize
        /\ f.dict = z.dict /\ f.saved = z.saved
    BY <2>3, <2>4, <2>5 DEF IsComp, CompFields
  <2> HIDE DEF f
  <2>7. z' = [f EXCEPT !.prev = prev]
    BY <2>1 DEF f
  <2>8. /\ IsComp(z') /\ z'.pos = z.pos /\ z'.look = z.look /\ z'.dsize = z.dsize
        /\ z'.dict = z.dict /\ z'.saved = z.saved
    BY <2>6, <2>7 DEF IsComp, CompFields
  <2> QED
    BY <1>0, <2>4, <2>8, RecorderQuiet
<1> QED
  BY <1>3, <1>4, <1>5

LEMMA RecorderLoop ==
    ASSUME RecorderInv, ppc = "deflate", DeflateLoop, UNCHANGED pluginVars
    PROVE  RecorderInv'
<1> DEFINE progress == call.progress \/ taken # <<>> \/ out # <<>>
<1>0. z' = z /\ src' = src /\ room' = room
  BY DEF DeflateLoop
<1>1. /\ DictHolds(z, Stream) /\ IsComp(z) /\ src \in Seq(Nat) /\ NothingSkipped
      /\ DOMAIN call = {"flush", "status", "progress"} /\ RecorderControl
  BY RecorderFacts
<1>2. \/ \E st : /\ call' = [call EXCEPT !.status = st]
                 /\ st = "STREAM_ERROR" \/ z.prev = "DONE" \/ room = 0 \/ src = <<>>
      \/ call' = [call EXCEPT !.progress = progress] /\ cpc' = "enter"
  BY DEF DeflateLoop
<1>3. Cut(Stream, z'.pos + z'.look, src', todo)
  BY <1>0, <1>1 DEF NothingSkipped, Front
<1>4. z.finished \/ z.prev = "DONE" => call.flush = "FINISH"
  BY <1>1 DEF RecorderControl
<1>5. /\ DOMAIN call' = DOMAIN call /\ call'.flush = call.flush
      /\ cpc' = "returned" /\ call.flush = "NO" /\ call'.status # "STREAM_ERROR"
           => room' = 0 \/ src' = <<>>
  <2>1. CASE call' = [call EXCEPT !.progress = progress] /\ cpc' = "enter"
    <3> HIDE DEF progress
    <3> QED
      BY <1>1, <2>1
  <2>2. ASSUME NEW st, call' = [call EXCEPT !.status = st],
               st = "STREAM_ERROR" \/ z.prev = "DONE" \/ room = 0 \/ src = <<>>
        PROVE  /\ DOMAIN call' = DOMAIN call /\ call'.flush = call.flush
               /\ cpc' = "returned" /\ call.flush = "NO" /\ call'.status # "STREAM_ERROR"
                    => room' = 0 \/ src' = <<>>
    <3>1. DOMAIN call' = DOMAIN call /\ call'.flush = call.flush /\ call'.status = st
      BY <1>1, <2>2
    <3> QED
      BY <1>0, <1>4, <2>2, <3>1
  <2> QED
    BY <1>2, <2>1, <2>2
<1> QED
  BY <1>0, <1>1, <1>3, <1>4, <1>5, RecorderDeflate

\* One lemma per step of the recorder; the reader touches none of its state.
LEMMA RecorderStep ==
    ASSUME RecorderInv, [Next]_vars
    PROVE  RecorderInv'
<1>1. CASE \E a \in Access : mem_cb(a)
  BY <1>1, RecorderMemCb
<1>2. CASE write_buffer \/ RecordWritten \/ plugin_exit
  BY <1>2, RecorderWriteBuffer, RecorderRecordWritten, RecorderExit
<1>3. CASE CompressStart \/ CompressWrite \/ CompressAgain
  BY <1>3, RecorderCompressStart, RecorderCompressWrite, RecorderCompressAgain
<1>4. CASE ppc = "deflate" /\ DeflateNext /\ UNCHANGED <<pluginVars, readerVars, inflateVars>>
  <2>1. ppc = "deflate" /\ UNCHANGED pluginVars
    BY <1>4
  <2> QED
    BY <1>4, <2>1, RecorderEnter, RecorderIterate, RecorderLoopEnds, RecorderTail, RecorderLoop
       DEF DeflateNext
<1>5. CASE ReaderNext
  <2>1. UNCHANGED <<pluginVars, deflateVars>>
    BY <1>5, Zenon DEF ReaderNext, OpenTrace, RunTrace, get_content_of_trace, ReadChunk,
                       InflateChunk, ChunkInflated
  <2> QED
    BY <2>1, RecorderIdle
<1>6. CASE UNCHANGED vars
  <2>1. UNCHANGED <<pluginVars, deflateVars>>
    BY <1>6 DEF vars
  <2> QED
    BY <2>1, RecorderIdle
<1> QED
  BY <1>1, <1>2, <1>3, <1>4, <1>5, <1>6 DEF Next, PluginNext

\* For any size of the dictionary, the buffer and the chunks, any guest and any
\* choice of matches and of raw blocks: every byte that a match or a raw block of
\* the compressor may refer to is the byte of the stream at that position.
THEOREM DictionaryIsKept == Spec => []DictionaryHolds
<1>1. Init => RecorderInv
  BY RecorderInit
<1>2. RecorderInv /\ [Next]_vars => RecorderInv'
  BY RecorderStep
<1>3. RecorderInv => DictionaryHolds
  BY DEF RecorderInv, DictHolds, Held, DictionaryHolds
<1> QED
  BY <1>1, <1>2, <1>3, PTL DEF Spec

-----------------------------------------------------------------------------
(* The trace recorder: what the units on the wire stand for.                 *)

LitAt(x, p, s) == p + 1 <= Len(s) /\ x = s[p + 1]

\* The len bytes of s after position p are those dist before.
MatchAt(len, dist, p, s) ==
    /\ len \in Nat /\ p + len <= Len(s) /\ dist \in 1 .. p
    /\ \A k \in 0 .. len - 1 : s[p + k + 1] = s[p + k - dist + 1]

\* Unit u stands for the bytes of stream s from position p to position q.
Codes(u, p, q, s) ==
    IF u.u \in {"lit", "byte"} THEN q = p + 1 /\ LitAt(u.x, p, s)
    ELSE IF u.u = "match" THEN q = p + u.len /\ MatchAt(u.len, u.dist, p, s)
    ELSE q = p

\* So do the units w, one after the other: at[i] is where the first i end.
Encodes(w, p, q, s) ==
    /\ \E S : w \in Seq(S)
    /\ \E at \in [0 .. Len(w) -> Nat] :
          /\ at[0] = p /\ at[Len(w)] = q
          /\ \A i \in 1 .. Len(w) : Codes(w[i], at[i - 1], at[i], s)

LEMMA EncodesNone ==
    ASSUME NEW p \in Nat, NEW s
    PROVE  Encodes(<<>>, p, p, s)
<1> DEFINE at == [i \in 0 .. 0 |-> p]
<1>1. <<>> \in Seq(Nat) /\ Len(<<>>) = 0
  OBVIOUS
<1>2. at \in [0 .. 0 -> Nat] /\ at[0] = p
  OBVIOUS
<1> HIDE DEF at
<1>3. \A i \in 1 .. 0 : Codes(<<>>[i], at[i - 1], at[i], s)
  OBVIOUS
<1> QED
  BY <1>1, <1>2, <1>3 DEF Encodes

LEMMA NoneEncodes ==
    ASSUME NEW p, NEW q, NEW s, Encodes(<<>>, p, q, s)
    PROVE  p = q
<1>1. PICK at \in [0 .. Len(<<>>) -> Nat] : at[0] = p /\ at[Len(<<>>)] = q
  BY DEF Encodes
<1>2. Len(<<>>) = 0
  OBVIOUS
<1> QED
  BY <1>1, <1>2

LEMMA EncodesOne ==
    ASSUME NEW u, NEW p \in Nat, NEW q \in Nat, NEW s, Codes(u, p, q, s)
    PROVE  Encodes(<<u>>, p, q, s)
<1> DEFINE at == [i \in 0 .. 1 |-> IF i = 0 THEN p ELSE q]
<1> DEFINE w == <<u>>
<1>1. w \in Seq({u}) /\ Len(w) = 1 /\ w[1] = u
  OBVIOUS
<1>2. at \in [0 .. 1 -> Nat] /\ at[0] = p /\ at[1] = q
  OBVIOUS
<1> HIDE DEF at, w
<1>3. \A i \in 1 .. 1 : Codes(w[i], at[i - 1], at[i], s)
  <2>1. ASSUME NEW i \in 1 .. 1 PROVE Codes(w[i], at[i - 1], at[i], s)
    <3>1. i = 1 /\ i - 1 = 0
      OBVIOUS
    <3> QED
      BY <1>1, <1>2, <3>1
  <2> QED
    BY <2>1
<1>4. Encodes(w, p, q, s)
  BY <1>1, <1>2, <1>3 DEF Encodes
<1> QED
  BY <1>4 DEF w

\* One piece after another.
LEMMA EncodesConcat ==
    ASSUME NEW v, NEW w, NEW p, NEW q, NEW r, NEW s, Encodes(v, p, q, s), Encodes(w, q, r, s)
    PROVE  Encodes(v \o w, p, r, s)
<1>1. PICK S1 : v \in Seq(S1)
  BY DEF Encodes
<1>2. PICK S2 : w \in Seq(S2)
  BY DEF Encodes
<1> DEFINE S == S1 \cup S2
<1> DEFINE c == v \o w
<1>3. v \in Seq(S) /\ w \in Seq(S)
  BY <1>1, <1>2
<1> HIDE DEF S
<1>4. /\ c \in Seq(S) /\ Len(c) = Len(v) + Len(w) /\ Len(v) \in Nat /\ Len(w) \in Nat
      /\ \A i \in 1 .. Len(c) : c[i] = IF i <= Len(v) THEN v[i] ELSE w[i - Len(v)]
  BY <1>3, ConcatProperties
<1> HIDE DEF c
<1>5. PICK a \in [0 .. Len(v) -> Nat] :
         /\ a[0] = p /\ a[Len(v)] = q
         /\ \A i \in 1 .. Len(v) : Codes(v[i], a[i - 1], a[i], s)
  BY DEF Encodes
<1>6. PICK b \in [0 .. Len(w) -> Nat] :
         /\ b[0] = q /\ b[Len(w)] = r
         /\ \A i \in 1 .. Len(w) : Codes(w[i], b[i - 1], b[i], s)
  BY DEF Encodes
<1> DEFINE at == [i \in 0 .. Len(c) |-> IF i <= Len(v) THEN a[i] ELSE b[i - Len(v)]]
<1>7. at \in [0 .. Len(c) -> Nat]
  <2>1. ASSUME NEW i \in 0 .. Len(c) PROVE at[i] \in Nat
    <3>1. CASE i <= Len(v)
      <4>1. i \in 0 .. Len(v)
        BY <1>4, <3>1
      <4> QED
        BY <3>1, <4>1
    <3>2. CASE ~ (i <= Len(v))
      <4>1. i - Len(v) \in 0 .. Len(w)
        BY <1>4, <3>2
      <4> QED
        BY <3>2, <4>1
    <3> QED
      BY <3>1, <3>2
  <2>2. at = [i \in 0 .. Len(c) |-> at[i]]
    OBVIOUS
  <2> HIDE DEF at
  <2> QED
    BY <2>1, <2>2
<1>8. at[0] = p
  BY <1>4, <1>5
<1>9. at[Len(c)] = r
  <2>1. CASE Len(w) = 0
    BY <1>4, <1>5, <1>6, <2>1
  <2>2. CASE Len(w) > 0
    BY <1>4, <1>5, <1>6, <2>2
  <2> QED
    BY <1>4, <2>1, <2>2
<1>10. ASSUME NEW i \in 1 .. Len(c) PROVE Codes(c[i], at[i - 1], at[i], s)
  <2>0. i \in 0 .. Len(c) /\ i - 1 \in 0 .. Len(c)
    BY <1>4
  <2>1. CASE i <= Len(v)
    <3>1. i \in 1 .. Len(v) /\ c[i] = v[i]
      BY <1>4, <2>1
    <3>2. at[i] = a[i] /\ at[i - 1] = a[i - 1]
      BY <1>4, <2>0, <2>1
    <3>3. Codes(v[i], a[i - 1], a[i], s)
      BY <1>5, <3>1
    <3> HIDE DEF at
    <3> QED
      BY <3>1, <3>2, <3>3
  <2>2. CASE ~ (i <= Len(v))
    <3>1. PICK j : j = i - Len(v)
      OBVIOUS
    <3>2. j \in 1 .. Len(w) /\ c[i] = w[j] /\ i - 1 - Len(v) = j - 1
      BY <1>4, <2>2, <3>1
    <3>3. at[i] = b[j]
      BY <2>0, <2>2, <3>1
    <3>4. at[i - 1] = b[j - 1]
      <4>1. CASE i - 1 <= Len(v)
        <5>1. i - 1 = Len(v) /\ j - 1 = 0
          BY <1>4, <2>2, <3>1, <4>1
        <5>2. at[i - 1] = a[Len(v)]
          BY <2>0, <5>1
        <5> QED
          BY <1>5, <1>6, <5>1, <5>2
      <4>2. CASE ~ (i - 1 <= Len(v))
        BY <2>0, <3>2, <4>2
      <4> QED
        BY <4>1, <4>2
    <3>5. Codes(w[j], b[j - 1], b[j], s)
      BY <1>6, <3>2
    <3> HIDE DEF at
    <3> QED
      BY <3>2, <3>3, <3>4, <3>5
  <2> QED
    BY <2>1, <2>2
<1> HIDE DEF at
<1>11. Encodes(c, p, r, s)
  BY <1>4, <1>7, <1>8, <1>9, <1>10 DEF Encodes
<1> QED
  BY <1>11 DEF c

\* Cut anywhere, the pieces stand for what the whole does.
LEMMA EncodesSplit ==
    ASSUME NEW w, NEW p, NEW q, NEW s, Encodes(w, p, q, s), NEW n \in Nat, n <= Len(w)
    PROVE  \E m \in Nat : /\ Encodes(SubSeq(w, 1, n), p, m, s)
                          /\ Encodes(SubSeq(w, n + 1, Len(w)), m, q, s)
<1>1. PICK S : w \in Seq(S)
  BY DEF Encodes
<1>2. PICK at \in [0 .. Len(w) -> Nat] :
         /\ at[0] = p /\ at[Len(w)] = q
         /\ \A i \in 1 .. Len(w) : Codes(w[i], at[i - 1], at[i], s)
  BY DEF Encodes
<1> DEFINE v == SubSeq(w, 1, n)
<1> DEFINE t == SubSeq(w, n + 1, Len(w))
<1>3. Len(w) \in Nat
  BY <1>1
<1>4. v \in Seq(S) /\ Len(v) = n /\ \A i \in 1 .. n : v[i] = w[i]
  BY <1>1, <1>3
<1>5. t \in Seq(S) /\ Len(t) = Len(w) - n /\ \A i \in 1 .. Len(t) : t[i] = w[n + i]
  <2>1. t \in Seq(S)
    BY <1>1, <1>3
  <2>2. Len(t) = Len(w) - n
    BY <1>1, <1>3
  <2>3. ASSUME NEW i \in 1 .. Len(w) - n PROVE t[i] = w[n + i]
    BY <1>1, <1>3
  <2> HIDE DEF t
  <2> QED
    BY <2>1, <2>2, <2>3
<1> HIDE DEF v, t
<1> DEFINE a == [i \in 0 .. n |-> at[i]]
<1> DEFINE b == [i \in 0 .. Len(t) |-> at[n + i]]
<1>6. n \in 0 .. Len(w) /\ at[n] \in Nat
  BY <1>3
<1>7. Encodes(v, p, at[n], s)
  <2>1. a \in [0 .. Len(v) -> Nat] /\ a[0] = p /\ a[Len(v)] = at[n]
    BY <1>2, <1>3, <1>4
  <2>2. ASSUME NEW i \in 1 .. Len(v) PROVE Codes(v[i], a[i - 1], a[i], s)
    <3>1. i \in 1 .. Len(w) /\ v[i] = w[i] /\ a[i] = at[i] /\ a[i - 1] = at[i - 1]
      BY <1>3, <1>4
    <3>2. Codes(w[i], at[i - 1], at[i], s)
      BY <1>2, <3>1
    <3> HIDE DEF a
    <3> QED
      BY <3>1, <3>2
  <2> HIDE DEF a
  <2> QED
    BY <1>4, <2>1, <2>2 DEF Encodes
<1>8. Encodes(t, at[n], q, s)
  <2>1. b \in [0 .. Len(t) -> Nat] /\ b[0] = at[n] /\ b[Len(t)] = q
    <3>1. ASSUME NEW i \in 0 .. Len(t) PROVE at[n + i] \in Nat
      <4>1. n + i \in 0 .. Len(w)
        BY <1>3, <1>5
      <4> QED
        BY <4>1
    <3>2. n + Len(t) = Len(w) /\ n + 0 = n /\ Len(t) \in Nat
      BY <1>3, <1>5
    <3>3. b \in [0 .. Len(t) -> Nat]
      BY <3>1
    <3>4. b[0] = at[n + 0] /\ b[Len(t)] = at[n + Len(t)]
      <4>1. 0 \in 0 .. Len(t) /\ Len(t) \in 0 .. Len(t)
        BY <3>2
      <4> QED
        BY <4>1
    <3> HIDE DEF b
    <3> QED
      BY <1>2, <3>2, <3>3, <3>4
  <2>2. ASSUME NEW i \in 1 .. Len(t) PROVE Codes(t[i], b[i - 1], b[i], s)
    <3>1. PICK j : j = n + i
      OBVIOUS
    <3>2. j \in 1 .. Len(w) /\ t[i] = w[j] /\ b[i] = at[j] /\ b[i - 1] = at[j - 1]
      <4>1. i - 1 \in 0 .. Len(t) /\ i \in 0 .. Len(t) /\ n + (i - 1) = j - 1 /\ j \in 1 .. Len(w)
        BY <1>3, <1>5, <3>1
      <4> QED
        BY <1>5, <3>1, <4>1
    <3>3. Codes(w[j], at[j - 1], at[j], s)
      BY <1>2, <3>2
    <3> HIDE DEF b
    <3> QED
      BY <3>2, <3>3
  <2> HIDE DEF b
  <2> QED
    BY <1>5, <2>1, <2>2 DEF Encodes
<1> QED
  BY <1>6, <1>7, <1>8 DEF v, t

\* A longer stream has the same bytes at the positions in use.
LEMMA MatchGrows ==
    ASSUME NEW s \in Seq(Nat), NEW t \in Seq(Nat), NEW p \in Nat, NEW len, NEW dist,
           MatchAt(len, dist, p, s)
    PROVE  MatchAt(len, dist, p, s \o t)
<1> DEFINE c == s \o t
<1>1. /\ Len(c) \in Nat /\ Len(c) >= Len(s) /\ Len(s) \in Nat
      /\ \A i \in 1 .. Len(s) : c[i] = s[i]
  BY ConcatProperties
<1> HIDE DEF c
<1>2. len \in Nat /\ p + len <= Len(s) /\ dist \in 1 .. p
  BY DEF MatchAt
<1>3. ASSUME NEW k \in 0 .. len - 1 PROVE c[p + k + 1] = c[p + k - dist + 1]
  <2>1. p + k + 1 \in 1 .. Len(s) /\ p + k - dist + 1 \in 1 .. Len(s)
    BY ONLY <1>1, <1>2, p \in Nat, k \in 0 .. len - 1
  <2>2. s[p + k + 1] = s[p + k - dist + 1]
    BY DEF MatchAt
  <2> QED
    BY <1>1, <2>1, <2>2
<1>4. MatchAt(len, dist, p, c)
  BY <1>1, <1>2, <1>3 DEF MatchAt
<1> QED
  BY <1>4 DEF c

LEMMA LitGrows ==
    ASSUME NEW s \in Seq(Nat), NEW t \in Seq(Nat), NEW p \in Nat, NEW x, LitAt(x, p, s)
    PROVE  LitAt(x, p, s \o t)
<1> DEFINE c == s \o t
<1>1. /\ Len(c) \in Nat /\ Len(c) >= Len(s) /\ Len(s) \in Nat
      /\ \A i \in 1 .. Len(s) : c[i] = s[i]
  BY ConcatProperties
<1> HIDE DEF c
<1>2. LitAt(x, p, c)
  BY <1>1 DEF LitAt
<1> QED
  BY <1>2 DEF c

LEMMA EncodesGrows ==
    ASSUME NEW s \in Seq(Nat), NEW t \in Seq(Nat), NEW w, NEW p, NEW q, Encodes(w, p, q, s)
    PROVE  Encodes(w, p, q, s \o t)
<1> DEFINE c == s \o t
<1>1. ASSUME NEW u, NEW i \in Nat, NEW j, Codes(u, i, j, s) PROVE Codes(u, i, j, c)
  <2>1. ASSUME LitAt(u.x, i, s) PROVE LitAt(u.x, i, c)
    BY <2>1, LitGrows
  <2>2. ASSUME MatchAt(u.len, u.dist, i, s) PROVE MatchAt(u.len, u.dist, i, c)
    BY <2>2, MatchGrows
  <2> HIDE DEF c
  <2> QED
    BY <1>1, <2>1, <2>2 DEF Codes
<1>2. PICK S : w \in Seq(S)
  BY DEF Encodes
<1>3. PICK at \in [0 .. Len(w) -> Nat] :
         /\ at[0] = p /\ at[Len(w)] = q
         /\ \A i \in 1 .. Len(w) : Codes(w[i], at[i - 1], at[i], s)
  BY DEF Encodes
<1> HIDE DEF c
<1>4. ASSUME NEW i \in 1 .. Len(w) PROVE Codes(w[i], at[i - 1], at[i], c)
  <2>1. at[i - 1] \in Nat
    <3>1. i - 1 \in 0 .. Len(w)
      BY <1>2
    <3> QED
      BY <3>1
  <2> QED
    BY <1>1, <1>3, <2>1
<1>5. Encodes(w, p, q, c)
  BY <1>2, <1>3, <1>4 DEF Encodes
<1> QED
  BY <1>5 DEF c

\* The codes of the block under construction stand for the stream from its start
\* to the lookahead, but for the byte before it while a match is put off there.
\* That match and the literal kept for it are true of the stream; a match of
\* length one is never put off.
Sent(d, s) ==
    /\ d.cpos \in Nat /\ d.total \in Nat /\ d.saved.len # 1
    /\ Encodes(d.codes, d.cpos, d.cpos + d.total, s)
    /\ IF d.saved.len > 0
       THEN /\ d.cpos + d.total + 1 = d.pos /\ LitAt(d.saved.lit, d.pos - 1, s)
            /\ MatchAt(d.saved.len, d.saved.dist, d.pos - 1, s)
       ELSE d.cpos + d.total = d.pos

\* Compressor e is d but for its codes and the match put off.
SameBlock(d, e) ==
    /\ IsComp(e) /\ e.pos = d.pos /\ e.dict = d.dict /\ e.cpos = d.cpos /\ e.pend = d.pend
    /\ e.finished = d.finished /\ e.prev = d.prev /\ e.wants = d.wants

LEMMA LiteralFields ==
    ASSUME NEW d, IsComp(d), NEW x, NEW e, e = record_literal(d, x)
    PROVE  /\ SameBlock(d, e) /\ e.saved = d.saved /\ e.total = d.total + 1
           /\ e.codes = Append(d.codes, [u |-> "lit", x |-> x])
  BY DEF SameBlock, IsComp, CompFields, record_literal

LEMMA MatchFields ==
    ASSUME NEW d, IsComp(d), NEW m, NEW e, e = record_match(d, m)
    PROVE  /\ SameBlock(d, e) /\ e.saved = d.saved /\ e.total = d.total + m.len
           /\ e.codes = Append(d.codes, [u |-> "match", len |-> m.len, dist |-> m.dist])
  BY DEF SameBlock, IsComp, CompFields, record_match

LEMMA DeferFields ==
    ASSUME NEW d, IsComp(d), NEW m, NEW e, e = Defer(d, m)
    PROVE  /\ SameBlock(d, e) /\ e.total = d.total /\ e.codes = d.codes
           /\ e.saved.len = m.len /\ e.saved.dist = m.dist /\ e.saved.lit = d.dict[d.pos % Dict]
  BY DEF SameBlock, IsComp, CompFields, Defer

LEMMA ForgetFields ==
    ASSUME NEW d, IsComp(d), NEW e, e = Forget(d)
    PROVE  /\ SameBlock(d, e) /\ e.total = d.total /\ e.codes = d.codes
           /\ e.saved.len = 0
  BY DEF SameBlock, IsComp, CompFields, Forget

LEMMA MoveFields ==
    ASSUME NEW d, IsComp(d), NEW n, NEW e, e = MoveLookahead(d, n)
    PROVE  /\ e.pos = d.pos + n /\ e.cpos = d.cpos /\ e.pend = d.pend /\ e.total = d.total
           /\ e.codes = d.codes /\ e.saved = d.saved
           /\ e.finished = d.finished /\ e.prev = d.prev /\ e.wants = d.wants
  BY DEF MoveLookahead, IsComp, CompFields

\* One more code.
LEMMA EncodesAppend ==
    ASSUME NEW c, NEW u, NEW p \in Nat, NEW q \in Nat, NEW r \in Nat, NEW s,
           Encodes(c, p, q, s), Codes(u, q, r, s)
    PROVE  Encodes(Append(c, u), p, r, s)
<1>1. Encodes(<<u>>, q, r, s)
  BY EncodesOne
<1>2. Encodes(c \o <<u>>, p, r, s)
  BY <1>1, EncodesConcat
<1>3. PICK S : c \in Seq(S)
  BY DEF Encodes
<1>4. c \o <<u>> = Append(c, u)
  <2>1. c \in Seq(S \cup {u}) /\ u \in S \cup {u}
    BY <1>3
  <2> QED
    BY <2>1, AppendIsConcat
<1> QED
  BY <1>2, <1>4

LEMMA LiteralSent ==
    ASSUME NEW c, NEW x, NEW p \in Nat, NEW q \in Nat, NEW s, Encodes(c, p, q, s), LitAt(x, q, s)
    PROVE  Encodes(Append(c, [u |-> "lit", x |-> x]), p, q + 1, s)
<1> DEFINE u == [u |-> "lit", x |-> x]
<1>1. Codes(u, q, q + 1, s) /\ q + 1 \in Nat
  BY DEF Codes
<1> HIDE DEF u
<1>2. Encodes(Append(c, u), p, q + 1, s)
  BY <1>1, EncodesAppend
<1> QED
  BY <1>2 DEF u

LEMMA MatchSent ==
    ASSUME NEW c, NEW len, NEW dist, NEW p \in Nat, NEW q \in Nat, NEW s, Encodes(c, p, q, s),
           MatchAt(len, dist, q, s)
    PROVE  Encodes(Append(c, [u |-> "match", len |-> len, dist |-> dist]), p, q + len, s)
<1> DEFINE u == [u |-> "match", len |-> len, dist |-> dist]
<1>1. Codes(u, q, q + len, s) /\ q + len \in Nat
  BY DEF Codes, MatchAt
<1> HIDE DEF u
<1>2. Encodes(Append(c, u), p, q + len, s)
  BY <1>1, EncodesAppend
<1> QED
  BY <1>2 DEF u

\* The first byte of the lookahead is the next byte of the stream.
LEMMA LookaheadTrue ==
    ASSUME NEW d, NEW s \in Seq(Nat), DictHolds(d, s), d.look >= 1, d.pos + d.look <= Len(s)
    PROVE  LitAt(d.dict[d.pos % Dict], d.pos, s)
<1>1. PICK pos, look, dict : pos = d.pos /\ look = d.look /\ dict = d.dict
  OBVIOUS
<1>2. pos \in Nat /\ look \in Nat /\ look >= 1 /\ pos + look <= Len(s) /\ Len(s) \in Nat
  BY <1>1 DEF DictHolds
<1>3. dict[(pos + 0) % Dict] = s[pos + 0 + 1]
  <2>1. 0 \in 0 .. look - 1
    BY <1>2
  <2>2. \A k \in 0 .. look - 1 : dict[(pos + k) % Dict] = s[pos + k + 1]
    BY <1>1 DEF DictHolds, Held
  <2> QED
    BY <2>1, <2>2
<1>4. pos + 0 = pos /\ pos + 0 + 1 = pos + 1 /\ pos + 1 <= Len(s)
  BY ONLY <1>2
<1> QED
  BY <1>1, <1>3, <1>4 DEF LitAt

\* A match that is found is true of the stream, and two bytes long at least.
LEMMA MatchTrue ==
    ASSUME NEW d, NEW s \in Seq(Nat), DictHolds(d, s), d.pos + d.look <= Len(s),
           NEW m \in find_match(d), m.len > 0 \/ m.dist # 0
    PROVE  MatchAt(m.len, m.dist, d.pos, s) /\ m.len >= 2 /\ m.len <= d.look
<1>0. d.look \in Nat /\ d.dsize \in Nat /\ d.pos \in Nat /\ d.dsize <= d.pos
  BY DEF DictHolds
<1> DEFINE least == IF d.saved.len > 0 THEN d.saved.len ELSE MinMatch - 1
<1>1. m # NoMatch
  BY DEF NoMatch
<1>2. PICK dist \in 1 .. d.dsize : /\ m = [len |-> MatchLen(d, dist), dist |-> dist]
                                   /\ MatchLen(d, dist) > least
  BY <1>1 DEF find_match
<1>3. least >= 1 /\ least \in Nat
  <2>1. d.saved.len \in Nat
    BY DEF DictHolds
  <2>2. MinMatch - 1 >= 1 /\ MinMatch - 1 \in Nat
    BY ONLY DeflateAssumption
  <2> QED
    BY <2>1, <2>2
<1> DEFINE S == {l \in 0 .. d.look : \A i \in 0 .. l - 1 :
                     d.dict[(d.pos + i) % Dict] = d.dict[(d.pos + i - dist) % Dict]}
<1>4. MatchLen(d, dist) \in S
  <2>1. S \in SUBSET (0 .. d.look) /\ 0 \in S
    BY <1>0
  <2>2. MatchLen(d, dist) = Max(S)
    BY Zenon DEF MatchLen
  <2> HIDE DEF S
  <2>3. S # {}
    BY <2>1
  <2>4. Max(S) \in S
    BY ONLY <1>0, <2>1, <2>3, MaxNat
  <2> QED
    BY ONLY <2>2, <2>4
<1>5. PICK len, pos, look, dsize, dict :
         /\ len = m.len /\ pos = d.pos /\ look = d.look /\ dsize = d.dsize /\ dict = d.dict
  OBVIOUS
<1>6. m.len = MatchLen(d, dist) /\ m.dist = dist
  BY <1>2
<1>7. /\ len \in 0 .. look
      /\ \A i \in 0 .. len - 1 : dict[(pos + i) % Dict] = dict[(pos + i - dist) % Dict]
  BY <1>4, <1>5, <1>6
<1>8. /\ pos \in Nat /\ look \in Nat /\ dsize \in Nat /\ dsize <= pos /\ pos + look <= Len(s)
      /\ Len(s) \in Nat /\ dist \in 1 .. dsize /\ len >= 2
  BY <1>0, <1>2, <1>3, <1>5, <1>6, <1>7
<1>9. /\ \A k \in 1 .. dsize : dict[(pos - k) % Dict] = s[pos - k + 1]
      /\ \A k \in 0 .. look - 1 : dict[(pos + k) % Dict] = s[pos + k + 1]
  BY <1>5, Zenon DEF DictHolds, Held
<1>10. ASSUME NEW k \in 0 .. len - 1 PROVE s[pos + k + 1] = s[pos + k - dist + 1]
  <2>1. dict[(pos + k) % Dict] = s[pos + k + 1]
    <3>1. k \in 0 .. look - 1
      BY ONLY <1>7, <1>8, k \in 0 .. len - 1
    <3> QED
      BY <1>9, <3>1
  <2>2. dict[(pos + k - dist) % Dict] = s[pos + k - dist + 1]
    <3>1. CASE k < dist
      <4>1. PICK j : j = dist - k
        OBVIOUS
      <4>2. j \in 1 .. dsize /\ pos - j = pos + k - dist
        BY ONLY <1>8, <3>1, <4>1, k \in 0 .. len - 1, <1>7
      <4>3. dict[(pos - j) % Dict] = s[pos - j + 1]
        BY <1>9, <4>2
      <4> QED
        BY ONLY <4>2, <4>3
    <3>2. CASE ~ (k < dist)
      <4>1. PICK j : j = k - dist
        OBVIOUS
      <4>2. j \in 0 .. look - 1 /\ pos + j = pos + k - dist
        BY ONLY <1>8, <3>2, <4>1, k \in 0 .. len - 1, <1>7
      <4>3. dict[(pos + j) % Dict] = s[pos + j + 1]
        BY <1>9, <4>2
      <4> QED
        BY ONLY <4>2, <4>3
    <3> QED
      BY <3>1, <3>2
  <2> QED
    BY <1>7, <2>1, <2>2
<1>11. MatchAt(len, dist, pos, s)
  <2>1. len \in Nat /\ pos + len <= Len(s) /\ dist \in 1 .. pos
    BY ONLY <1>7, <1>8
  <2> QED
    BY <1>10, <2>1 DEF MatchAt
<1> QED
  BY <1>5, <1>6, <1>7, <1>8, <1>11

\* Compressor e has the output, the start of the block and the marks of d.
SameMarks(d, e) ==
    /\ e.pend = d.pend /\ e.cpos = d.cpos
    /\ e.finished = d.finished /\ e.prev = d.prev /\ e.wants = d.wants

\* The lookahead moves by n after a code for these n bytes.
LEMMA CodedMove ==
    ASSUME NEW d, NEW g, SameBlock(d, g), NEW n \in Nat, NEW e, e = MoveLookahead(g, n),
           d.pos \in Nat, d.cpos \in Nat, g.total \in Nat, d.cpos + g.total = d.pos + n,
           g.saved.len = 0, NEW s, Encodes(g.codes, d.cpos, d.pos + n, s)
    PROVE  Sent(e, s) /\ SameMarks(d, e)
<1>1. /\ IsComp(g) /\ g.pos = d.pos /\ g.cpos = d.cpos /\ g.pend = d.pend
      /\ g.finished = d.finished /\ g.prev = d.prev /\ g.wants = d.wants
  BY DEF SameBlock
<1>2. /\ e.pos = g.pos + n /\ e.cpos = g.cpos /\ e.pend = g.pend /\ e.total = g.total
      /\ e.codes = g.codes /\ e.saved = g.saved
      /\ e.finished = g.finished /\ e.prev = g.prev /\ e.wants = g.wants
  BY <1>1, MoveFields
<1>3. SameMarks(d, e)
  BY <1>1, <1>2 DEF SameMarks
<1>4. PICK pos, cpos, total, codes :
         pos = d.pos /\ cpos = d.cpos /\ total = g.total /\ codes = g.codes
  OBVIOUS
<1>5. e.pos = pos + n /\ e.cpos = cpos /\ e.total = total /\ e.codes = codes /\ e.saved.len = 0
  BY <1>1, <1>2, <1>4
<1>6. /\ pos \in Nat /\ cpos \in Nat /\ total \in Nat /\ cpos + total = pos + n
      /\ Encodes(codes, cpos, cpos + total, s)
  BY <1>4
<1>7. Sent(e, s)
  BY ONLY <1>5, <1>6 DEF Sent
<1> QED
  BY <1>3, <1>7

\* The lookahead moves by one and the match found there is put off.
LEMMA DeferredMove ==
    ASSUME NEW d, NEW g, SameBlock(d, g), NEW m, NEW e, e = MoveLookahead(Defer(g, m), 1),
           d.pos \in Nat, d.cpos \in Nat, g.total \in Nat, d.cpos + g.total = d.pos,
           NEW s, Encodes(g.codes, d.cpos, d.pos, s), LitAt(d.dict[d.pos % Dict], d.pos, s),
           MatchAt(m.len, m.dist, d.pos, s), m.len >= 2
    PROVE  Sent(e, s) /\ SameMarks(d, e)
<1>1. /\ IsComp(g) /\ g.pos = d.pos /\ g.cpos = d.cpos /\ g.pend = d.pend /\ g.dict = d.dict
      /\ g.finished = d.finished /\ g.prev = d.prev /\ g.wants = d.wants
  BY DEF SameBlock
<1>2. PICK f : f = Defer(g, m)
  OBVIOUS
<1>3. /\ SameBlock(g, f) /\ f.total = g.total /\ f.codes = g.codes
      /\ f.saved.len = m.len /\ f.saved.dist = m.dist /\ f.saved.lit = g.dict[g.pos % Dict]
  BY <1>1, <1>2, DeferFields
<1>4. /\ IsComp(f) /\ f.pos = d.pos /\ f.cpos = d.cpos /\ f.pend = d.pend
      /\ f.finished = d.finished /\ f.prev = d.prev /\ f.wants = d.wants
  BY <1>1, <1>3 DEF SameBlock
<1>5. e = MoveLookahead(f, 1)
  BY <1>2
<1>6. /\ e.pos = f.pos + 1 /\ e.cpos = f.cpos /\ e.pend = f.pend /\ e.total = f.total
      /\ e.codes = f.codes /\ e.saved = f.saved
      /\ e.finished = f.finished /\ e.prev = f.prev /\ e.wants = f.wants
  BY <1>4, <1>5, MoveFields
<1>7. SameMarks(d, e)
  BY <1>4, <1>6 DEF SameMarks
<1>8. PICK pos, cpos, total, codes, len, dist, lit :
         /\ pos = d.pos /\ cpos = d.cpos /\ total = g.total /\ codes = g.codes
         /\ len = m.len /\ dist = m.dist /\ lit = d.dict[d.pos % Dict]
  OBVIOUS
<1>9. /\ e.pos = pos + 1 /\ e.cpos = cpos /\ e.total = total /\ e.codes = codes
      /\ e.saved.len = len /\ e.saved.dist = dist /\ e.saved.lit = lit
  BY <1>1, <1>3, <1>4, <1>6, <1>8
<1>10. /\ pos \in Nat /\ cpos \in Nat /\ total \in Nat /\ cpos + total = pos
       /\ Encodes(codes, cpos, cpos + total, s) /\ LitAt(lit, pos, s) /\ MatchAt(len, dist, pos, s)
       /\ len >= 2 /\ len \in Nat
  BY <1>8 DEF MatchAt
<1>11. pos + 1 - 1 = pos /\ cpos + total + 1 = pos + 1 /\ len # 1 /\ len > 0
  BY ONLY <1>10
<1>12. Sent(e, s)
  BY ONLY <1>9, <1>10, <1>11 DEF Sent
<1> QED
  BY <1>7, <1>12

\* One step of the parser keeps the codes true.
LEMMA ParseSent ==
    ASSUME NEW d, IsComp(d), NEW s \in Seq(Nat), DictHolds(d, s), Sent(d, s), d.look >= 1,
           d.pos + d.look <= Len(s), NEW m \in find_match(d), NEW e, e = Parse(d, m)
    PROVE  Sent(e, s) /\ SameMarks(d, e)
<1>1. PICK pos, cpos, total, codes, slen, sdist, slit, len, dist :
         /\ pos = d.pos /\ cpos = d.cpos /\ total = d.total /\ codes = d.codes
         /\ slen = d.saved.len /\ sdist = d.saved.dist /\ slit = d.saved.lit
         /\ len = m.len /\ dist = m.dist
  OBVIOUS
<1>2. pos \in Nat /\ d.look \in Nat /\ slen \in Nat
  BY <1>1 DEF DictHolds
<1>3. cpos \in Nat /\ total \in Nat /\ slen # 1 /\ Encodes(codes, cpos, cpos + total, s)
  BY <1>1 DEF Sent
<1>4. LitAt(d.dict[d.pos % Dict], pos, s)
  BY <1>1, LookaheadTrue
<1>5. len > 0 \/ dist # 0 => MatchAt(len, dist, pos, s) /\ len >= 2 /\ len \in Nat
  <2> SUFFICES ASSUME m.len > 0 \/ m.dist # 0
               PROVE  MatchAt(m.len, m.dist, d.pos, s) /\ m.len >= 2 /\ m.len \in Nat
    BY <1>1
  <2>1. MatchAt(m.len, m.dist, d.pos, s) /\ m.len >= 2
    BY MatchTrue
  <2> QED
    BY <2>1 DEF MatchAt
<1>6. SameBlock(d, d)
  BY DEF SameBlock
<1>7. ASSUME slen > 0, len > slen
      PROVE  Sent(e, s) /\ SameMarks(d, e)
  <2>1. /\ cpos + total + 1 = pos /\ LitAt(slit, pos - 1, s)
    BY <1>1, <1>7 DEF Sent
  <2>2. /\ cpos + total = pos - 1 /\ cpos + total \in Nat /\ (cpos + total) + 1 = pos
        /\ total + 1 \in Nat /\ cpos + (total + 1) = pos
    BY ONLY <1>2, <1>3, <2>1
  <2>3. MatchAt(len, dist, pos, s) /\ len >= 2 /\ len \in Nat
    <3>1. m.dist # 0 \/ m = NoMatch
      BY DEF find_match
    <3>2. m # NoMatch
      BY <1>1, <1>2, <1>7 DEF NoMatch
    <3> QED
      BY <1>1, <1>5, <3>1, <3>2
  <2>4. PICK g : g = record_literal(d, d.saved.lit)
    OBVIOUS
  <2>5. /\ SameBlock(d, g) /\ g.saved = d.saved /\ g.total = d.total + 1
        /\ g.codes = Append(d.codes, [u |-> "lit", x |-> d.saved.lit])
    BY <2>4, LiteralFields
  <2>6. Encodes(g.codes, cpos, pos, s)
    <3>1. Encodes(Append(codes, [u |-> "lit", x |-> slit]), cpos, (cpos + total) + 1, s)
      BY ONLY <1>3, <2>1, <2>2, s \in Seq(Nat), LiteralSent
    <3> QED
      BY <1>1, <2>2, <2>5, <3>1
  <2>7. g.total = total + 1
    BY <1>1, <2>5
  <2>8. CASE len >= LongMatch
    <3>1. PICK h : h = record_match(g, m)
      OBVIOUS
    <3>2. IsComp(g)
      BY <2>5 DEF SameBlock
    <3>3. /\ SameBlock(g, h) /\ h.total = g.total + m.len
          /\ h.codes = Append(g.codes, [u |-> "match", len |-> m.len, dist |-> m.dist])
      BY <3>1, <3>2, MatchFields
    <3>4. PICK f : f = Forget(h)
      OBVIOUS
    <3>5. IsComp(h)
      BY <3>3 DEF SameBlock
    <3>6. SameBlock(h, f) /\ f.total = h.total /\ f.codes = h.codes /\ f.saved.len = 0
      BY <3>4, <3>5, ForgetFields
    <3>7. SameBlock(d, f)
      BY <2>5, <3>3, <3>6 DEF SameBlock
    <3>8. f.total = (total + 1) + len
      BY <1>1, <2>7, <3>3, <3>6
    <3>9. f.total \in Nat /\ cpos + f.total = pos + len
      <4>1. total + 1 \in Nat /\ cpos \in Nat /\ len \in Nat /\ cpos + (total + 1) = pos
        BY <1>3, <2>2, <2>3
      <4>2. ASSUME NEW t \in Nat, cpos \in Nat, len \in Nat, cpos + t = pos
            PROVE  t + len \in Nat /\ cpos + (t + len) = pos + len
        BY ONLY <4>2
      <4>3. (total + 1) + len \in Nat /\ cpos + ((total + 1) + len) = pos + len
        BY ONLY <4>1, <4>2
      <4> QED
        BY ONLY <3>8, <4>3
    <3>10. Encodes(f.codes, cpos, pos + len, s)
      <4>1. Encodes(Append(g.codes, [u |-> "match", len |-> len, dist |-> dist]), cpos,
                    pos + len, s)
        BY ONLY <1>2, <1>3, <2>3, <2>6, s \in Seq(Nat), MatchSent
      <4> QED
        BY <1>1, <3>3, <3>6, <4>1
    <3>11. e = MoveLookahead(f, len)
      BY <1>1, <1>7, <2>4, <2>8, <3>1, <3>4 DEF Parse
    <3> QED
      BY <1>1, <1>2, <1>3, <2>3, <3>6, <3>7, <3>9, <3>10, <3>11, CodedMove
  <2>9. CASE ~ (len >= LongMatch)
    <3>1. e = MoveLookahead(Defer(g, m), 1)
      BY <1>1, <1>7, <2>4, <2>9 DEF Parse
    <3>2. g.total \in Nat /\ cpos + g.total = pos
      BY <2>2, <2>7
    <3>3. d.cpos + g.total = d.pos /\ d.pos \in Nat /\ d.cpos \in Nat
      BY <1>1, <1>2, <1>3, <3>2
    <3>4. Encodes(g.codes, d.cpos, d.pos, s) /\ LitAt(d.dict[d.pos % Dict], d.pos, s)
      BY <1>1, <1>4, <2>6
    <3>5. MatchAt(m.len, m.dist, d.pos, s) /\ m.len >= 2
      BY <1>1, <2>3
    <3> QED
      BY <2>5, <3>1, <3>2, <3>3, <3>4, <3>5, DeferredMove
  <2> QED
    BY <2>8, <2>9
<1>8. ASSUME slen > 0, ~ (len > slen)
      PROVE  Sent(e, s) /\ SameMarks(d, e)
  <2>1. /\ cpos + total + 1 = pos /\ MatchAt(slen, sdist, pos - 1, s)
    BY <1>1, <1>8 DEF Sent
  <2>2. PICK n : n = slen - 1
    OBVIOUS
  <2>3. /\ cpos + total = pos - 1 /\ cpos + total \in Nat /\ n \in Nat
        /\ (cpos + total) + slen = pos + n /\ total + slen \in Nat
        /\ cpos + (total + slen) = pos + n
    BY ONLY <1>2, <1>3, <1>8, <2>1, <2>2
  <2>4. PICK h : h = record_match(d, d.saved)
    OBVIOUS
  <2>5. /\ SameBlock(d, h) /\ h.total = d.total + d.saved.len
        /\ h.codes = Append(d.codes, [u |-> "match", len |-> d.saved.len, dist |-> d.saved.dist])
    BY <2>4, MatchFields
  <2>6. PICK f : f = Forget(h)
    OBVIOUS
  <2>7. IsComp(h)
    BY <2>5 DEF SameBlock
  <2>8. SameBlock(h, f) /\ f.total = h.total /\ f.codes = h.codes /\ f.saved.len = 0
    BY <2>6, <2>7, ForgetFields
  <2>9. SameBlock(d, f)
    BY <2>5, <2>8 DEF SameBlock
  <2>10. f.total = total + slen
    BY <1>1, <2>5, <2>8
  <2>11. Encodes(f.codes, cpos, pos + n, s)
    <3>1. Encodes(Append(codes, [u |-> "match", len |-> slen, dist |-> sdist]), cpos,
                  (cpos + total) + slen, s)
      BY ONLY <1>3, <2>1, <2>3, s \in Seq(Nat), MatchSent
    <3> QED
      BY <1>1, <2>3, <2>5, <2>8, <3>1
  <2>12. e = MoveLookahead(f, n)
    BY <1>1, <1>8, <2>2, <2>4, <2>6 DEF Parse
  <2>13. f.total \in Nat /\ cpos + f.total = pos + n
    BY <2>3, <2>10
  <2> QED
    BY <1>1, <1>2, <1>3, <2>3, <2>8, <2>9, <2>11, <2>12, <2>13, CodedMove
<1>9. ASSUME ~ (slen > 0), dist = 0
      PROVE  Sent(e, s) /\ SameMarks(d, e)
  <2>1. cpos + total = pos /\ slen = 0
    BY <1>1, <1>2, <1>9 DEF Sent
  <2>2. PICK y : y = d.dict[d.pos % Dict]
    OBVIOUS
  <2>3. PICK g : g = record_literal(d, y)
    OBVIOUS
  <2>4. /\ SameBlock(d, g) /\ g.saved = d.saved /\ g.total = d.total + 1
        /\ g.codes = Append(d.codes, [u |-> "lit", x |-> y])
    BY <2>3, LiteralFields
  <2>5. Encodes(g.codes, cpos, pos + 1, s)
    <3>1. Encodes(codes, cpos, pos, s) /\ LitAt(y, pos, s)
      BY <1>3, <1>4, <2>1, <2>2
    <3>2. Encodes(Append(codes, [u |-> "lit", x |-> y]), cpos, pos + 1, s)
      BY ONLY <1>2, <1>3, <3>1, s \in Seq(Nat), LiteralSent
    <3> QED
      BY <1>1, <2>4, <3>2
  <2>6. g.total = total + 1 /\ g.saved.len = 0
    BY <1>1, <2>1, <2>4
  <2>7. g.total \in Nat /\ cpos + g.total = pos + 1
    <3>1. total \in Nat /\ cpos \in Nat /\ cpos + total = pos
      BY <1>2, <1>3, <2>1
    <3>2. total + 1 \in Nat /\ cpos + (total + 1) = pos + 1
      BY ONLY <3>1
    <3> QED
      BY ONLY <2>6, <3>2
  <2>8. e = MoveLookahead(g, 1)
    BY <1>1, <1>9, <2>2, <2>3 DEF Parse
  <2> QED
    BY <1>1, <1>2, <1>3, <2>4, <2>5, <2>6, <2>7, <2>8, CodedMove
<1>10. ASSUME ~ (slen > 0), dist # 0, d.greedy \/ len >= LongMatch
      PROVE  Sent(e, s) /\ SameMarks(d, e)
  <2>1. cpos + total = pos /\ slen = 0
    BY <1>1, <1>2, <1>10 DEF Sent
  <2>2. MatchAt(len, dist, pos, s) /\ len \in Nat
    BY <1>5, <1>10
  <2>3. PICK h : h = record_match(d, m)
    OBVIOUS
  <2>4. /\ SameBlock(d, h) /\ h.saved = d.saved /\ h.total = d.total + m.len
        /\ h.codes = Append(d.codes, [u |-> "match", len |-> m.len, dist |-> m.dist])
    BY <2>3, MatchFields
  <2>5. Encodes(h.codes, cpos, pos + len, s)
    <3>1. Encodes(codes, cpos, pos, s)
      BY <1>3, <2>1
    <3>2. Encodes(Append(codes, [u |-> "match", len |-> len, dist |-> dist]), cpos, pos + len, s)
      BY ONLY <1>2, <1>3, <2>2, <3>1, s \in Seq(Nat), MatchSent
    <3> QED
      BY <1>1, <2>4, <3>2
  <2>6. h.total = total + len /\ h.saved.len = 0
    BY <1>1, <2>1, <2>4
  <2>7. h.total \in Nat /\ cpos + h.total = pos + len
    <3>1. total \in Nat /\ cpos \in Nat /\ len \in Nat /\ cpos + total = pos
      BY <1>2, <1>3, <2>1, <2>2
    <3>2. total + len \in Nat /\ cpos + (total + len) = pos + len
      BY ONLY <3>1
    <3> QED
      BY ONLY <2>6, <3>2
  <2>8. e = MoveLookahead(h, len)
    BY <1>1, <1>10, <2>3 DEF Parse
  <2> QED
    BY <1>1, <1>2, <1>3, <2>2, <2>4, <2>5, <2>6, <2>7, <2>8, CodedMove
<1>11. ASSUME ~ (slen > 0), dist # 0, ~ (d.greedy \/ len >= LongMatch)
      PROVE  Sent(e, s) /\ SameMarks(d, e)
  <2>1. cpos + total = pos /\ slen = 0
    BY <1>1, <1>2, <1>11 DEF Sent
  <2>2. e = MoveLookahead(Defer(d, m), 1)
    BY <1>1, <1>11 DEF Parse
  <2>3. d.total \in Nat /\ d.cpos + d.total = d.pos /\ d.pos \in Nat /\ d.cpos \in Nat
    BY <1>1, <1>2, <1>3, <2>1
  <2>4. Encodes(d.codes, d.cpos, d.pos, s) /\ LitAt(d.dict[d.pos % Dict], d.pos, s)
    BY <1>1, <1>3, <1>4, <2>1
  <2>5. MatchAt(m.len, m.dist, d.pos, s) /\ m.len >= 2
    BY <1>1, <1>5, <1>11
  <2> QED
    BY <1>6, <2>2, <2>3, <2>4, <2>5, DeferredMove
<1> QED
  BY <1>7, <1>8, <1>9, <1>10, <1>11

\* The bytes of a raw block are those of the stream.
LEMMA RawTrue ==
    ASSUME NEW d, NEW s \in Seq(Nat), DictHolds(d, s), Sent(d, s), d.pos <= Len(s),
           d.pos - d.cpos <= d.dsize
    PROVE  Encodes([i \in 1 .. d.total |-> [u |-> "byte", x |-> RawBytes(d)[i]]],
                   d.cpos, d.cpos + d.total, s)
<1>1. PICK pos, cpos, total, dsize, dict :
         pos = d.pos /\ cpos = d.cpos /\ total = d.total /\ dsize = d.dsize /\ dict = d.dict
  OBVIOUS
<1>2. /\ pos \in Nat /\ cpos \in Nat /\ total \in Nat /\ dsize \in Nat /\ dsize <= pos
      /\ pos <= Len(s) /\ Len(s) \in Nat /\ pos - cpos <= dsize /\ cpos + total <= pos
  BY <1>1 DEF DictHolds, Sent
<1> DEFINE Byte(i) == [u |-> "byte", x |-> RawBytes(d)[i]]
<1> DEFINE w == [i \in 1 .. total |-> Byte(i)]
<1> DEFINE at == [i \in 0 .. total |-> cpos + i]
<1>3. \E S : w \in Seq(S) /\ Len(w) = total
  <2> DEFINE S == {Byte(i) : i \in 1 .. total}
  <2>1. \A i \in 1 .. total : Byte(i) \in S
    OBVIOUS
  <2> HIDE DEF Byte, S
  <2>2. w \in Seq(S) /\ Len(w) = total
    BY <1>2, <2>1
  <2> QED
    BY <2>2
<1>4. at \in [0 .. total -> Nat] /\ at[0] = cpos /\ at[total] = cpos + total
  BY <1>2
<1>5. ASSUME NEW i \in 1 .. total PROVE Codes(w[i], at[i - 1], at[i], s)
  <2>1. w[i] = Byte(i) /\ at[i] = cpos + i /\ at[i - 1] = cpos + (i - 1)
    <3>1. i \in 0 .. total /\ i - 1 \in 0 .. total
      BY <1>2
    <3> QED
      BY <3>1
  <2>2. Byte(i).u = "byte" /\ Byte(i).x = RawBytes(d)[i]
    OBVIOUS
  <2>3. RawBytes(d)[i] = dict[(cpos + i - 1) % Dict]
    BY <1>1 DEF RawBytes
  <2>4. PICK k : k = pos - (cpos + i - 1)
    OBVIOUS
  <2>5. /\ k \in 1 .. dsize /\ pos - k = cpos + i - 1 /\ pos - k + 1 = cpos + i
        /\ cpos + i <= Len(s) /\ (cpos + (i - 1)) + 1 = cpos + i
    BY ONLY <1>2, <2>4, i \in 1 .. total
  <2>6. dict[(pos - k) % Dict] = s[pos - k + 1]
    <3>1. \A j \in 1 .. dsize : dict[(pos - j) % Dict] = s[pos - j + 1]
      BY <1>1, Zenon DEF DictHolds, Held
    <3> QED
      BY <2>5, <3>1
  <2>7. RawBytes(d)[i] = s[cpos + i]
    BY <2>3, <2>5, <2>6
  <2> HIDE DEF Byte, at, w
  <2>8. LitAt(Byte(i).x, at[i - 1], s) /\ at[i] = at[i - 1] + 1
    BY <2>1, <2>2, <2>5, <2>7 DEF LitAt
  <2> QED
    BY <2>1, <2>2, <2>8 DEF Codes
<1> HIDE DEF at
<1>6. Encodes(w, cpos, cpos + total, s)
  <2> HIDE DEF w
  <2> QED
    BY <1>3, <1>4, <1>5 DEF Encodes
<1> QED
  BY <1>1, <1>6

\* A unit that stands for no byte.
LEMMA FrameTrue ==
    ASSUME NEW u, u.u \notin {"lit", "byte", "match"}, NEW p \in Nat, NEW s
    PROVE  Encodes(<<u>>, p, p, s)
<1>1. Codes(u, p, p, s)
  BY DEF Codes
<1> QED
  BY <1>1, EncodesOne

\* A block, coded or raw, stands for the bytes of its codes.
LEMMA BlockTrue ==
    ASSUME NEW d, NEW s \in Seq(Nat), DictHolds(d, s), Sent(d, s), d.pos <= Len(s),
           NEW flush \in {"NO", "FINISH"}, NEW raw \in {FALSE, MayBeRaw(d)}
    PROVE  Encodes(BlockUnits(d, flush, raw), d.cpos, d.cpos + d.total, s)
<1> DEFINE p == d.cpos
<1> DEFINE q == d.cpos + d.total
<1>1. p \in Nat /\ q \in Nat /\ Encodes(d.codes, p, q, s)
  BY DEF Sent
<1> DEFINE head == IF d.first THEN <<[u |-> "header"]>> ELSE <<>>
<1> DEFINE body == IF raw THEN <<[u |-> "block", final |-> flush = "FINISH", raw |-> d.total]>>
                               \o [i \in 1 .. d.total |-> [u |-> "byte", x |-> RawBytes(d)[i]]]
                   ELSE <<[u |-> "block", final |-> flush = "FINISH", raw |-> -1]>>
                               \o d.codes \o <<[u |-> "eob"]>>
<1> DEFINE foot == IF flush = "FINISH" THEN <<[u |-> "adler", a |-> d.adler]>> ELSE <<>>
<1>2. BlockUnits(d, flush, raw) = head \o body \o foot
  BY DEF BlockUnits
<1>3. Encodes(head, p, p, s)
  <2>1. Encodes(<<[u |-> "header"]>>, p, p, s)
    BY <1>1, FrameTrue
  <2>2. Encodes(<<>>, p, p, s)
    BY <1>1, EncodesNone
  <2> QED
    BY <2>1, <2>2
<1>4. Encodes(foot, q, q, s)
  <2>1. Encodes(<<[u |-> "adler", a |-> d.adler]>>, q, q, s)
    BY <1>1, FrameTrue
  <2>2. Encodes(<<>>, q, q, s)
    BY <1>1, EncodesNone
  <2> QED
    BY <2>1, <2>2
<1>5. Encodes(body, p, q, s)
  <2>1. CASE raw
    <3> DEFINE b == <<[u |-> "block", final |-> flush = "FINISH", raw |-> d.total]>>
    <3> DEFINE w == [i \in 1 .. d.total |-> [u |-> "byte", x |-> RawBytes(d)[i]]]
    <3>1. Encodes(b, p, p, s)
      BY <1>1, FrameTrue
    <3>2. d.pos - d.cpos <= d.dsize
      BY <2>1 DEF MayBeRaw
    <3>3. Encodes(w, p, q, s)
      BY <3>2, RawTrue
    <3> HIDE DEF b, w
    <3>4. Encodes(b \o w, p, q, s)
      BY <3>1, <3>3, EncodesConcat
    <3> QED
      BY <2>1, <3>4 DEF b, w
  <2>2. CASE ~ raw
    <3> DEFINE b == <<[u |-> "block", final |-> flush = "FINISH", raw |-> -1]>>
    <3> DEFINE e == <<[u |-> "eob"]>>
    <3>1. Encodes(b, p, p, s) /\ Encodes(e, q, q, s)
      BY <1>1, FrameTrue
    <3> HIDE DEF b, e
    <3>2. Encodes(b \o d.codes, p, q, s)
      BY <1>1, <3>1, EncodesConcat
    <3>3. Encodes((b \o d.codes) \o e, p, q, s)
      BY <3>1, <3>2, EncodesConcat
    <3> QED
      BY <2>2, <3>3 DEF b, e
  <2> QED
    BY <2>1, <2>2
<1> HIDE DEF head, body, foot
<1>6. Encodes(head \o body, p, q, s)
  BY <1>3, <1>5, EncodesConcat
<1>7. Encodes((head \o body) \o foot, p, q, s)
  BY <1>4, <1>6, EncodesConcat
<1> QED
  BY <1>2, <1>7

-----------------------------------------------------------------------------
(* The trace recorder: what it writes to the file.                           *)

\* With the first units for the stream up to m: the output of this call and the
\* units that wait are for the stream from there to the block under construction.
OutTrue(o, d, m, s) == \E n \in Nat : Encodes(o, m, n, s) /\ Encodes(d.pend, n, d.cpos, s)

WireTrue ==
    \E m \in Nat :
        /\ Encodes(file, 0, m, Stream)
        /\ OutTrue(IF ppc = "deflate" THEN out ELSE <<>>, z, m, Stream)

\* The compressor is never called in a way it refuses, and is finished only with
\* all of the stream.
SenderControl ==
    /\ call.flush = "FINISH" => todo = <<>>
    /\ z.prev \in {"OKAY", "DONE"} /\ (z.prev = "DONE" => z.finished /\ z.pend = <<>>)
    /\ z.wants => call.flush = "FINISH"
    /\ cpc \in {"enter", "loop", "tail"} => z.prev = "OKAY"
    /\ cpc \in {"loop", "tail"} => ~ z.finished
    /\ cpc = "loop" => z.pend = <<>>
    /\ cpc = "returned" => call.status # "STREAM_ERROR"
    /\ z.finished => z.cpos = Len(Stream)
    /\ room \in Nat /\ ppc # "failed"

SenderInv == Sent(z, Stream) /\ WireTrue /\ SenderControl

LEMMA SentGrows ==
    ASSUME NEW d, NEW s \in Seq(Nat), NEW t \in Seq(Nat), d.pos \in Nat, Sent(d, s)
    PROVE  Sent(d, s \o t)
<1>1. PICK r : r = s \o t
  OBVIOUS
<1>2. Encodes(d.codes, d.cpos, d.cpos + d.total, r)
  <2>1. Encodes(d.codes, d.cpos, d.cpos + d.total, s)
    BY DEF Sent
  <2> QED
    BY <1>1, <2>1, EncodesGrows
<1>3. CASE d.saved.len > 0
  <2>1. /\ d.cpos + d.total + 1 = d.pos /\ LitAt(d.saved.lit, d.pos - 1, s)
        /\ MatchAt(d.saved.len, d.saved.dist, d.pos - 1, s) /\ d.cpos \in Nat /\ d.total \in Nat
    BY <1>3 DEF Sent
  <2>2. PICK p : p = d.pos - 1
    OBVIOUS
  <2>3. p \in Nat
    BY <2>1, <2>2
  <2>4. LitAt(d.saved.lit, p, r) /\ MatchAt(d.saved.len, d.saved.dist, p, r)
    BY <1>1, <2>1, <2>2, <2>3, LitGrows, MatchGrows
  <2> QED
    BY <1>1, <1>2, <1>3, <2>2, <2>4 DEF Sent
<1>4. CASE ~ (d.saved.len > 0)
  BY <1>1, <1>2, <1>4 DEF Sent
<1> QED
  BY <1>3, <1>4

LEMMA OutGrows ==
    ASSUME NEW o, NEW d, NEW m, NEW s \in Seq(Nat), NEW t \in Seq(Nat), OutTrue(o, d, m, s)
    PROVE  OutTrue(o, d, m, s \o t)
<1>1. PICK n \in Nat : Encodes(o, m, n, s) /\ Encodes(d.pend, n, d.cpos, s)
  BY DEF OutTrue
<1>2. PICK r : r = s \o t
  OBVIOUS
<1>3. Encodes(o, m, n, r) /\ Encodes(d.pend, n, d.cpos, r)
  BY <1>1, <1>2, EncodesGrows
<1> QED
  BY <1>2, <1>3 DEF OutTrue

\* As many units as the output has room for go out, the others wait.
LEMMA OutputSize ==
    ASSUME NEW s, NEW w, NEW n, NEW q, Encodes(w, n, q, s), NEW r \in Nat,
           NEW k, k = Min({r, Len(w)})
    PROVE  /\ k \in Nat /\ r - k \in Nat /\ k <= Len(w)
           /\ SubSeq(w, r + 1, Len(w)) = SubSeq(w, k + 1, Len(w))
<1>1. PICK S : w \in Seq(S)
  BY DEF Encodes
<1>2. Len(w) \in Nat
  BY <1>1
<1>3. k \in Nat /\ k <= r /\ k <= Len(w) /\ (k = r \/ k = Len(w))
  BY ONLY <1>2, r \in Nat, k = Min({r, Len(w)}), MinOfTwo
<1>4. r - k \in Nat
  BY ONLY <1>3, r \in Nat
<1>5. SubSeq(w, r + 1, Len(w)) = SubSeq(w, k + 1, Len(w))
  <2>1. CASE k = r
    BY <2>1
  <2>2. CASE k = Len(w)
    <3>1. r >= Len(w)
      BY <1>3, <2>2
    <3>2. SubSeq(w, r + 1, Len(w)) = <<>> /\ SubSeq(w, Len(w) + 1, Len(w)) = <<>>
      BY ONLY <1>1, <1>2, <3>1, r \in Nat
    <3> QED
      BY <2>2, <3>2
  <2> QED
    BY <1>3, <2>1, <2>2
<1> QED
  BY <1>3, <1>4, <1>5

LEMMA OutputSplits ==
    ASSUME NEW s, NEW o, NEW w, NEW m, NEW n, NEW q, Encodes(o, m, n, s), Encodes(w, n, q, s),
           NEW k \in Nat, k <= Len(w), NEW d, d.pend = SubSeq(w, k + 1, Len(w)), d.cpos = q
    PROVE  OutTrue(o \o SubSeq(w, 1, k), d, m, s)
<1>1. PICK i \in Nat : /\ Encodes(SubSeq(w, 1, k), n, i, s)
                       /\ Encodes(SubSeq(w, k + 1, Len(w)), i, q, s)
  BY EncodesSplit
<1>2. Encodes(o \o SubSeq(w, 1, k), m, i, s)
  BY <1>1, EncodesConcat
<1> QED
  BY <1>1, <1>2 DEF OutTrue

\* A block is flushed: its codes are no longer under construction.
LEMMA FlushFields ==
    ASSUME NEW e, IsComp(e), NEW units
    PROVE  LET f == Flushed(e, units)
           IN  /\ IsComp(f) /\ f.cpos = e.cpos + e.total /\ f.total = 0 /\ f.codes = <<>>
               /\ f.pend = SubSeq(units, room + 1, Len(units)) /\ f.pos = e.pos
               /\ f.saved = e.saved
               /\ f.finished = e.finished /\ f.prev = e.prev /\ f.wants = e.wants
<1>1. PICK rest : rest = SubSeq(units, room + 1, Len(units))
  OBVIOUS
<1>2. Flushed(e, units) = [e EXCEPT !.cpos = e.cpos + e.total, !.total = 0, !.codes = <<>>,
                                    !.first = FALSE, !.pend = rest]
  BY <1>1 DEF Flushed
<1> QED
  BY <1>1, <1>2 DEF IsComp, CompFields

LEMMA FlushSent ==
    ASSUME NEW s, NEW e, NEW f, Sent(e, s), f.cpos = e.cpos + e.total, f.total = 0,
           f.codes = <<>>, f.pos = e.pos, f.saved = e.saved
    PROVE  Sent(f, s)
<1>1. PICK pos, cpos, total, len, dist, lit, q :
         /\ pos = e.pos /\ cpos = e.cpos /\ total = e.total /\ len = e.saved.len
         /\ dist = e.saved.dist /\ lit = e.saved.lit /\ q = e.cpos + e.total
  OBVIOUS
<1>2. /\ cpos \in Nat /\ total \in Nat /\ len # 1 /\ q = cpos + total
      /\ IF len > 0 THEN cpos + total + 1 = pos /\ LitAt(lit, pos - 1, s)
                          /\ MatchAt(len, dist, pos - 1, s)
                    ELSE cpos + total = pos
  BY <1>1 DEF Sent
<1>3. q \in Nat /\ q + 0 = q /\ 0 \in Nat
  BY ONLY <1>2
<1>4. Encodes(<<>>, q, q, s)
  BY <1>3, EncodesNone
<1>5. /\ f.cpos = q /\ f.total = 0 /\ f.codes = <<>> /\ f.pos = pos /\ f.saved.len = len
      /\ f.saved.dist = dist /\ f.saved.lit = lit
  BY <1>1
<1>6. Sent(f, s)
  BY ONLY <1>2, <1>3, <1>4, <1>5 DEF Sent
<1> QED
  BY <1>6

\* Nothing waits when a block is flushed: its units go out after the others.
LEMMA FlushTrue ==
    ASSUME NEW s, NEW o, NEW e, e.pend = <<>>, NEW m, OutTrue(o, e, m, s), NEW units, NEW q,
           Encodes(units, e.cpos, q, s), NEW k \in Nat, k <= Len(units),
           NEW f, f.cpos = q, f.pend = SubSeq(units, k + 1, Len(units))
    PROVE  OutTrue(o \o SubSeq(units, 1, k), f, m, s)
<1>1. PICK n \in Nat : Encodes(o, m, n, s) /\ Encodes(<<>>, n, e.cpos, s)
  BY DEF OutTrue
<1>2. n = e.cpos
  BY <1>1, NoneEncodes
<1>3. Encodes(units, n, q, s)
  BY <1>2
<1> QED
  BY <1>1, <1>3, OutputSplits

\* The input that moves into the lookahead is in no code yet.
LEMMA FillFields ==
    ASSUME NEW d, IsComp(d), NEW bytes, NEW e, e = FillLookahead(d, bytes)
    PROVE  /\ e.pos = d.pos /\ e.cpos = d.cpos /\ e.total = d.total /\ e.codes = d.codes
           /\ e.saved = d.saved /\ e.pend = d.pend /\ e.finished = d.finished
           /\ e.prev = d.prev /\ e.wants = d.wants
<1> DEFINE new == FilledWith(d.dict, d.pos + d.look, bytes)
<1> DEFINE size == Min({d.dsize, Dict - (d.look + Len(bytes))})
<1>1. e = [d EXCEPT !.look = d.look + Len(bytes), !.dict = new, !.dsize = size]
  BY Zenon DEF FillLookahead, FilledWith
<1> HIDE DEF new, size
<1> QED
  BY <1>1 DEF IsComp, CompFields

\* A step outside mz_deflate that leaves the output and the compressor alone.
LEMMA SenderQuiet ==
    ASSUME RecorderInv, SenderInv, Stream' = Stream, z' = z, room' = room, file' = file,
           cpc' = cpc, call'.status = call.status,
           (ppc' = ppc /\ out' = out) \/ (ppc # "deflate" /\ ppc' # "deflate"), ppc' # "failed",
           call'.flush = "FINISH" => todo' = <<>>, z.wants => call'.flush = "FINISH"
    PROVE  SenderInv'
<1>1. Sent(z, Stream) /\ WireTrue /\ SenderControl
  BY DEF SenderInv
<1>2. Sent(z, Stream)'
  BY <1>1
<1>3. WireTrue'
  <2>1. (IF ppc' = "deflate" THEN out' ELSE <<>>) = (IF ppc = "deflate" THEN out ELSE <<>>)
    OBVIOUS
  <2>2. PICK m \in Nat : /\ Encodes(file, 0, m, Stream)
                         /\ OutTrue(IF ppc = "deflate" THEN out ELSE <<>>, z, m, Stream)
    BY <1>1 DEF WireTrue
  <2>3. /\ Encodes(file', 0, m, Stream')
        /\ OutTrue(IF ppc' = "deflate" THEN out' ELSE <<>>, z', m, Stream')
    BY <2>1, <2>2
  <2> QED
    BY <2>3, Zenon DEF WireTrue
<1>4. SenderControl'
  BY <1>1 DEF SenderControl
<1> QED
  BY <1>2, <1>3, <1>4 DEF SenderInv

LEMMA SenderInit ==
    ASSUME Init, RecorderInv
    PROVE  SenderInv
<1>1. PICK greedy \in Greedy : DeflateInit(greedy)
  BY DEF Init
<1>2. PICK arg \in ModeArgs, target \in Targets : qemu_plugin_install(arg, target)
  BY DEF Init
<1>3. /\ accesses = <<>> /\ todo = <<>> /\ ppc = "guest" /\ cpc = "idle" /\ room = 0
      /\ file = <<>> /\ call = [flush |-> "NO", status |-> "OK", progress |-> FALSE]
      /\ z = tdefl_init(greedy)
  BY <1>1, <1>2, Zenon DEF Init, qemu_plugin_install, DeflateInit
<1>4. /\ z.pos = 0 /\ z.cpos = 0 /\ z.total = 0 /\ z.codes = <<>> /\ z.pend = <<>>
      /\ z.saved.len = 0 /\ z.finished = FALSE /\ z.wants = FALSE /\ z.prev = "OKAY"
  BY <1>3 DEF tdefl_init
<1>5. Encodes(<<>>, 0, 0, Stream)
  BY EncodesNone
<1>6. Sent(z, Stream)
  BY <1>4, <1>5 DEF Sent
<1>7. WireTrue
  <2>1. OutTrue(<<>>, z, 0, Stream)
    BY <1>4, <1>5 DEF OutTrue
  <2> QED
    BY <1>3, <1>5, <2>1 DEF WireTrue
<1>8. SenderControl
  BY <1>3, <1>4 DEF SenderControl
<1> QED
  BY <1>6, <1>7, <1>8 DEF SenderInv

LEMMA SenderMemCb ==
    ASSUME RecorderInv, SenderInv, NEW a \in Access, mem_cb(a)
    PROVE  SenderInv'
<1> DEFINE w == write_in_file(a, a.insns)
<1>0. /\ ppc = "guest" /\ file' = file /\ out' = out
      /\ todo' = (IF mode = "BINARY" THEN write_in_file(a, counter_inst(a.insns)) ELSE <<>>)
      /\ accesses' = (IF mode = "BINARY" THEN Append(accesses, a) ELSE accesses)
      /\ ppc' = (IF mode = "BINARY" THEN "write" ELSE "guest")
      /\ is_64_bits' = is_64_bits /\ z' = z /\ room' = room /\ call' = call /\ cpc' = cpc
  BY DEF mem_cb, deflateVars
<1>1. /\ Stream \in Seq(Nat) /\ z.pos \in Nat /\ accesses \in Seq(Access) /\ RecorderControl
  BY RecorderFacts
<1>2. call.flush = "NO" /\ ~ z.finished
  BY <1>0, <1>1 DEF RecorderControl
<1>3. Sent(z, Stream) /\ WireTrue /\ SenderControl
  BY DEF SenderInv
<1>4. CASE mode = "BINARY"
  <2>1. w \in Seq(Nat)
    BY RecordBytes
  <2>2. accesses' = Append(accesses, a) /\ ppc' = "write"
    BY <1>0, <1>4
  <2>3. Stream' = Stream \o w
    BY <1>0, <1>1, <2>2, StreamGrows
  <2> HIDE DEF w
  <2>4. Sent(z, Stream)'
    BY <1>0, <1>1, <1>3, <2>1, <2>3, SentGrows
  <2>5. WireTrue'
    <3>1. PICK m \in Nat : Encodes(file, 0, m, Stream) /\ OutTrue(<<>>, z, m, Stream)
      BY <1>0, <1>3 DEF WireTrue
    <3>2. Encodes(file, 0, m, Stream \o w) /\ OutTrue(<<>>, z, m, Stream \o w)
      BY <1>1, <2>1, <3>1, EncodesGrows, OutGrows
    <3> QED
      BY <1>0, <2>2, <2>3, <3>2 DEF WireTrue
  <2>6. SenderControl'
    BY <1>0, <1>2, <1>3, <2>2 DEF SenderControl
  <2> QED
    BY <2>4, <2>5, <2>6 DEF SenderInv
<1>5. CASE mode # "BINARY"
  <2>1. todo' = <<>> /\ accesses' = accesses /\ is_64_bits' = is_64_bits /\ ppc' = ppc
    BY <1>0, <1>5
  <2>2. Stream' = Stream
    BY <2>1, StreamSame
  <2>3. z.wants => call'.flush = "FINISH"
    BY <1>0, <1>3 DEF SenderControl
  <2> QED
    BY <1>0, <2>1, <2>2, <2>3, SenderQuiet
<1> QED
  BY <1>4, <1>5

LEMMA SenderBuffer ==
    ASSUME RecorderInv, SenderInv, write_buffer \/ RecordWritten \/ plugin_exit
    PROVE  SenderInv'
<1>1. /\ DOMAIN call = {"flush", "status", "progress"} /\ RecorderControl
  BY RecorderFacts
<1>2. SenderControl
  BY DEF SenderInv
<1>3. /\ ppc # "deflate" /\ ppc' \notin {"deflate", "failed"} /\ z' = z /\ room' = room
      /\ file' = file /\ cpc' = cpc /\ accesses' = accesses /\ is_64_bits' = is_64_bits
  BY DEF write_buffer, RecordWritten, plugin_exit, deflateVars
<1>4. Stream' = Stream
  BY <1>3, StreamSame
<1>5. CASE write_buffer
  <2>1. call'.flush = "NO" /\ call'.status = call.status /\ call.flush = "NO"
    BY <1>1, <1>5 DEF write_buffer, RecorderControl
  <2>2. ~ z.wants
    BY <1>2, <2>1 DEF SenderControl
  <2> QED
    BY <1>3, <1>4, <2>1, <2>2, SenderQuiet
<1>6. CASE RecordWritten
  <2>1. call' = call /\ todo' = todo
    BY <1>6 DEF RecordWritten, deflateVars
  <2> QED
    BY <1>2, <1>3, <1>4, <2>1, SenderQuiet DEF SenderControl
<1>7. CASE plugin_exit
  <2>1. call'.flush = "FINISH" /\ call'.status = call.status /\ todo' = <<>>
    BY <1>1, <1>7 DEF plugin_exit, RecorderControl
  <2> QED
    BY <1>3, <1>4, <2>1, SenderQuiet
<1> QED
  BY <1>5, <1>6, <1>7

\* A call of mz_deflate.
LEMMA SenderCall ==
    ASSUME RecorderInv, SenderInv, ppc # "deflate", ppc' = "deflate", NEW bytes,
           mz_deflate(call.flush, bytes, Len(buffer)),
           UNCHANGED <<accesses, is_64_bits, todo, file>>
    PROVE  SenderInv'
<1> DEFINE status == IF Len(buffer) = 0 THEN "BUF_ERROR"
                     ELSE IF z.prev = "DONE" /\ call.flush = "FINISH" THEN "STREAM_END"
                     ELSE IF z.prev = "DONE" THEN "BUF_ERROR" ELSE "OK"
<1>0. accesses' = accesses /\ is_64_bits' = is_64_bits /\ todo' = todo /\ file' = file
  OBVIOUS
<1>1. /\ room' = Len(buffer) /\ z' = z /\ out' = <<>>
      /\ call' = [flush |-> call.flush, status |-> status, progress |-> FALSE]
      /\ cpc' = IF status = "OK" THEN "enter" ELSE "returned"
  BY DEF mz_deflate
<1>2. status # "STREAM_ERROR" /\ (status = "OK" => z.prev # "DONE")
  OBVIOUS
<1> HIDE DEF status
<1>3. call'.flush = call.flush /\ call'.status = status
  BY <1>1
<1>4. Stream' = Stream
  BY <1>0, StreamSame
<1>5. Sent(z, Stream) /\ WireTrue /\ SenderControl
  BY DEF SenderInv
<1>6. Len(buffer) \in Nat
  BY RecorderFacts
<1>7. WireTrue'
  <2>1. PICK m \in Nat : Encodes(file, 0, m, Stream) /\ OutTrue(<<>>, z, m, Stream)
    BY <1>5 DEF WireTrue
  <2> QED
    BY <1>0, <1>1, <1>4, <2>1 DEF WireTrue
<1>8. SenderControl'
  BY <1>0, <1>1, <1>2, <1>3, <1>4, <1>5, <1>6 DEF SenderControl
<1>9. Sent(z, Stream)'
  BY <1>1, <1>4, <1>5
<1> QED
  BY <1>7, <1>8, <1>9 DEF SenderInv

LEMMA SenderCompress ==
    ASSUME RecorderInv, SenderInv, CompressStart \/ CompressAgain
    PROVE  SenderInv'
<1>1. CASE CompressAgain
  <2>1. /\ ppc = "again" /\ ppc' = "deflate" /\ mz_deflate(call.flush, src, Len(buffer))
        /\ UNCHANGED <<accesses, is_64_bits, todo, file>>
    BY <1>1, Zenon DEF CompressAgain
  <2> QED
    BY <2>1, SenderCall
<1>2. CASE CompressStart /\ Len(buffer) # 1
  <2>1. /\ ppc = "compress" /\ ppc' = "deflate" /\ mz_deflate(call.flush, buffer, Len(buffer))
        /\ UNCHANGED <<accesses, is_64_bits, todo, file>>
    BY <1>2, Zenon DEF CompressStart
  <2> QED
    BY <2>1, SenderCall
<1>3. CASE CompressStart /\ Len(buffer) = 1
  <2>1. /\ ppc = "compress" /\ ppc' \in {"closed", "write"} /\ z' = z /\ room' = room
        /\ file' = file /\ cpc' = cpc /\ call' = call /\ todo' = todo /\ accesses' = accesses
        /\ is_64_bits' = is_64_bits
    BY <1>3 DEF CompressStart, AfterCompress, deflateVars
  <2>2. Stream' = Stream
    BY <2>1, StreamSame
  <2>3. SenderControl
    BY DEF SenderInv
  <2> QED
    BY <2>1, <2>2, <2>3, SenderQuiet DEF SenderControl
<1> QED
  BY <1>1, <1>2, <1>3

\* The output buffer goes to the file.
LEMMA SenderWrite ==
    ASSUME RecorderInv, SenderInv, CompressWrite
    PROVE  SenderInv'
<1>1. Sent(z, Stream) /\ WireTrue /\ SenderControl
  BY DEF SenderInv
<1>2. ppc = "deflate" /\ cpc = "returned" /\ call.status # "STREAM_ERROR"
  BY <1>1 DEF CompressWrite, SenderControl
<1>3. /\ cpc' = "idle" /\ file' = file \o out /\ ppc' \in {"again", "closed", "write"}
      /\ accesses' = accesses
      /\ is_64_bits' = is_64_bits /\ todo' = todo /\ z' = z /\ room' = room /\ call' = call
  BY <1>2 DEF CompressWrite, AfterCompress
<1>4. Stream' = Stream
  BY <1>3, StreamSame
<1>5. WireTrue'
  <2>1. PICK m \in Nat : Encodes(file, 0, m, Stream) /\ OutTrue(out, z, m, Stream)
    BY <1>1, <1>2 DEF WireTrue
  <2>2. PICK n \in Nat : Encodes(out, m, n, Stream) /\ Encodes(z.pend, n, z.cpos, Stream)
    BY <2>1 DEF OutTrue
  <2>3. Encodes(file \o out, 0, n, Stream)
    BY <2>1, <2>2, EncodesConcat
  <2>4. OutTrue(<<>>, z, n, Stream)
    BY <2>2, EncodesNone DEF OutTrue
  <2> QED
    BY <1>3, <1>4, <2>3, <2>4 DEF WireTrue
<1>6. SenderControl'
  BY <1>1, <1>3, <1>4 DEF SenderControl
<1>7. Sent(z, Stream)'
  BY <1>1, <1>3, <1>4
<1> QED
  BY <1>5, <1>6, <1>7 DEF SenderInv

\* A step of the compressor inside mz_deflate.
LEMMA SenderDeflate ==
    ASSUME RecorderInv, SenderInv, ppc = "deflate", UNCHANGED pluginVars, Sent(z', Stream),
           \A m : OutTrue(out, z, m, Stream) => OutTrue(out', z', m, Stream), room' \in Nat,
           z'.prev \in {"OKAY", "DONE"}, z'.prev = "DONE" => z'.finished /\ z'.pend = <<>>,
           call'.flush = call.flush, z'.wants => call.flush = "FINISH",
           cpc' \in {"enter", "loop", "tail"} => z'.prev = "OKAY",
           cpc' \in {"loop", "tail"} => ~ z'.finished,
           cpc' = "loop" => z'.pend = <<>>,
           cpc' = "returned" => call'.status # "STREAM_ERROR",
           z'.finished => z'.cpos = Len(Stream)
    PROVE  SenderInv'
<1>0. accesses' = accesses /\ is_64_bits' = is_64_bits /\ todo' = todo /\ file' = file /\ ppc' = ppc
  BY DEF pluginVars
<1>1. Stream' = Stream
  BY <1>0, StreamSame
<1>2. WireTrue /\ SenderControl
  BY DEF SenderInv
<1>3. Sent(z, Stream)'
  BY <1>1
<1>4. WireTrue'
  <2>1. PICK m \in Nat : Encodes(file, 0, m, Stream) /\ OutTrue(out, z, m, Stream)
    BY <1>2 DEF WireTrue
  <2>2. OutTrue(out', z', m, Stream)
    BY <2>1
  <2> QED
    BY <1>0, <1>1, <2>1, <2>2 DEF WireTrue
<1>5. SenderControl'
  BY <1>0, <1>1, <1>2 DEF SenderControl
<1> QED
  BY <1>3, <1>4, <1>5 DEF SenderInv

LEMMA SentSame ==
    ASSUME NEW d, NEW e, NEW s, Sent(d, s), e.pos = d.pos, e.cpos = d.cpos, e.total = d.total,
           e.codes = d.codes, e.saved = d.saved
    PROVE  Sent(e, s)
  BY DEF Sent

LEMMA OutSame ==
    ASSUME NEW o, NEW d, NEW e, NEW m, NEW s, OutTrue(o, d, m, s), e.cpos = d.cpos,
           e.pend = d.pend
    PROVE  OutTrue(o, e, m, s)
  BY DEF OutTrue

\* tdefl_flush_output_buffer, for a compressor that differs from z in its marks.
LEMMA SenderOutput ==
    ASSUME RecorderInv, SenderInv, ppc = "deflate", UNCHANGED pluginVars, call' = call,
           cpc' = "ret", NEW d, IsComp(d), d.pos = z.pos, d.cpos = z.cpos, d.total = z.total,
           d.codes = z.codes, d.saved = z.saved, d.pend = z.pend, d.finished = z.finished,
           d.wants => call.flush = "FINISH", flush_output_buffer(d)
    PROVE  SenderInv'
<1>1. PICK k : k = Min({room, Len(d.pend)})
  OBVIOUS
<1>2. PICK rest : rest = SubSeq(d.pend, k + 1, Len(d.pend))
  OBVIOUS
<1>3. PICK e : e = [d EXCEPT !.pend = rest]
  OBVIOUS
<1>4. /\ out' = out \o SubSeq(d.pend, 1, k) /\ room' = room - k
      /\ z' = [e EXCEPT !.prev = IF e.finished /\ e.pend = <<>> THEN "DONE" ELSE "OKAY"]
  BY <1>1, <1>2, <1>3 DEF flush_output_buffer
<1>5. /\ IsComp(e) /\ e.pend = rest /\ e.pos = z.pos /\ e.cpos = z.cpos /\ e.total = z.total
      /\ e.codes = z.codes /\ e.saved = z.saved /\ e.finished = z.finished /\ e.wants = d.wants
  BY <1>3 DEF IsComp, CompFields
<1>6. /\ z'.pend = rest /\ z'.pos = z.pos /\ z'.cpos = z.cpos /\ z'.total = z.total
      /\ z'.codes = z.codes /\ z'.saved = z.saved /\ z'.finished = z.finished
      /\ z'.wants = d.wants
      /\ z'.prev = IF z.finished /\ rest = <<>> THEN "DONE" ELSE "OKAY"
  BY <1>4, <1>5 DEF IsComp, CompFields
<1>7. Sent(z, Stream) /\ WireTrue /\ SenderControl
  BY DEF SenderInv
<1>8. room \in Nat
  BY <1>7 DEF SenderControl
<1>9. \E n : Encodes(d.pend, n, z.cpos, Stream)
  BY <1>7 DEF WireTrue, OutTrue
<1>10. k \in Nat /\ room - k \in Nat /\ k <= Len(d.pend)
  BY <1>1, <1>8, <1>9, OutputSize
<1>11. ASSUME NEW m, OutTrue(out, z, m, Stream)
       PROVE  OutTrue(out', z', m, Stream)
  <2>1. PICK n \in Nat : Encodes(out, m, n, Stream) /\ Encodes(d.pend, n, z.cpos, Stream)
    BY <1>11 DEF OutTrue
  <2>2. z'.pend = SubSeq(d.pend, k + 1, Len(d.pend)) /\ z'.cpos = z.cpos
    BY <1>2, <1>6
  <2>3. OutTrue(out \o SubSeq(d.pend, 1, k), z', m, Stream)
    BY ONLY <1>10, <2>1, <2>2, OutputSplits
  <2> QED
    BY <1>4, <2>3
<1>12. Sent(z', Stream)
  BY <1>6, <1>7, SentSame
<1>13. /\ z'.prev \in {"OKAY", "DONE"} /\ (z'.prev = "DONE" => z'.finished /\ z'.pend = <<>>)
       /\ (z'.wants => call.flush = "FINISH") /\ (z'.finished => z'.cpos = Len(Stream))
       /\ room' \in Nat
  BY <1>4, <1>6, <1>7, <1>10 DEF SenderControl
<1> QED
  BY <1>11, <1>12, <1>13, SenderDeflate

LEMMA SenderEnter ==
    ASSUME RecorderInv, SenderInv, ppc = "deflate", CompressEnter, UNCHANGED pluginVars
    PROVE  SenderInv'
<1>1. PICK d : d = [z EXCEPT !.wants = z.wants \/ call.flush = "FINISH"]
  OBVIOUS
<1>2. Sent(z, Stream) /\ SenderControl /\ IsComp(z)
  BY RecorderFacts DEF SenderInv
<1>3. /\ IsComp(d) /\ d.pos = z.pos /\ d.cpos = z.cpos /\ d.total = z.total
      /\ d.codes = z.codes /\ d.saved = z.saved /\ d.pend = z.pend /\ d.finished = z.finished
      /\ d.prev = z.prev /\ d.wants = (z.wants \/ call.flush = "FINISH")
  BY <1>1, <1>2 DEF IsComp, CompFields
<1>4. call' = call /\ cpc = "enter"
  BY DEF CompressEnter
<1>5. z.prev = "OKAY" /\ (z.wants => call.flush = "FINISH")
  BY <1>2, <1>4 DEF SenderControl
<1>6. \/ flush_output_buffer(d) /\ cpc' = "ret"
      \/ /\ d.pend = <<>> /\ ~ d.finished
         /\ z' = d /\ cpc' = "loop" /\ out' = out /\ room' = room
  BY <1>1, <1>5 DEF CompressEnter
<1>7. CASE flush_output_buffer(d) /\ cpc' = "ret"
  BY <1>3, <1>4, <1>5, <1>7, SenderOutput
<1>8. CASE /\ d.pend = <<>> /\ ~ d.finished
           /\ z' = d /\ cpc' = "loop" /\ out' = out /\ room' = room
  <2>1. Sent(z', Stream)
    BY <1>2, <1>3, <1>8, SentSame
  <2>2. \A m : OutTrue(out, z, m, Stream) => OutTrue(out', z', m, Stream)
    BY <1>3, <1>8, OutSame
  <2>3. /\ z'.prev = "OKAY" /\ (z'.wants => call.flush = "FINISH") /\ room' \in Nat
        /\ ~ z'.finished /\ z'.pend = <<>> /\ call'.flush = call.flush
    BY <1>2, <1>3, <1>4, <1>5, <1>8 DEF SenderControl
  <2> QED
    BY <1>8, <2>1, <2>2, <2>3, SenderDeflate
<1> QED
  BY <1>6, <1>7, <1>8

LEMMA SenderLoop ==
    ASSUME RecorderInv, SenderInv, ppc = "deflate", CompressLoopEnds \/ DeflateLoop,
           UNCHANGED pluginVars
    PROVE  SenderInv'
<1>1. z' = z /\ out' = out /\ room' = room
  BY DEF CompressLoopEnds, DeflateLoop
<1>2. /\ Sent(z, Stream) /\ SenderControl /\ DOMAIN call = {"flush", "status", "progress"}
  BY RecorderFacts DEF SenderInv
<1>3. \A m : OutTrue(out, z, m, Stream) => OutTrue(out', z', m, Stream)
  BY <1>1
<1>4. /\ call'.flush = call.flush /\ cpc' # "loop"
      /\ (cpc' \in {"enter", "loop", "tail"} => z.prev = "OKAY")
      /\ (cpc' = "tail" => ~ z.finished)
      /\ (cpc' = "returned" => call'.status # "STREAM_ERROR")
  <2>1. CASE CompressLoopEnds
    BY <1>2, <2>1 DEF CompressLoopEnds, SenderControl
  <2>2. CASE DeflateLoop
    <3>1. z.prev \in {"OKAY", "DONE"}
      BY <1>2 DEF SenderControl
    <3>2. \/ \E st : /\ st # "STREAM_ERROR" /\ cpc' = "returned"
                     /\ call' = [call EXCEPT !.status = st]
          \/ \E progress : /\ call' = [call EXCEPT !.progress = progress] /\ cpc' = "enter"
                           /\ z.prev = "OKAY"
      BY <2>2, <3>1 DEF DeflateLoop
    <3> QED
      BY <1>2, <3>2
  <2> QED
    BY <2>1, <2>2
<1>5. /\ Sent(z', Stream) /\ z'.prev \in {"OKAY", "DONE"} /\ room' \in Nat
      /\ (z'.prev = "DONE" => z'.finished /\ z'.pend = <<>>)
      /\ (z'.wants => call.flush = "FINISH") /\ (z'.finished => z'.cpos = Len(Stream))
  BY <1>1, <1>2 DEF SenderControl
<1> QED
  BY <1>1, <1>3, <1>4, <1>5, SenderDeflate

LEMMA SenderIterate ==
    ASSUME RecorderInv, SenderInv, ppc = "deflate", CompressIterate, UNCHANGED pluginVars
    PROVE  SenderInv'
<1>1. PICK d : /\ IsComp(d) /\ DictHolds(d, Stream) /\ d.pos + d.look <= Len(Stream)
               /\ (\E bytes : d = FillLookahead(z, bytes)) /\ Iterated(d)
  BY IterateFills
<1>2. call' = call /\ cpc = "loop"
  BY DEF CompressIterate
<1>3. Sent(z, Stream) /\ SenderControl /\ IsComp(z) /\ Stream \in Seq(Nat)
  BY RecorderFacts DEF SenderInv
<1>4. /\ z.prev = "OKAY" /\ ~ z.finished /\ z.pend = <<>> /\ (z.wants => call.flush = "FINISH")
      /\ room \in Nat
  BY <1>2, <1>3 DEF SenderControl
<1>5. /\ d.pos = z.pos /\ d.cpos = z.cpos /\ d.total = z.total /\ d.codes = z.codes
      /\ d.saved = z.saved /\ d.pend = z.pend /\ d.finished = z.finished
      /\ d.prev = z.prev /\ d.wants = z.wants
  BY <1>1, <1>3, FillFields
<1>6. Sent(d, Stream)
  BY <1>3, <1>5, SentSame
\* What the parser makes of d.
<1>7. ASSUME NEW e, SameMarks(d, e)
      PROVE  /\ e.pend = <<>> /\ e.prev = "OKAY" /\ ~ e.finished
             /\ (e.wants => call.flush = "FINISH")
  BY <1>4, <1>5, <1>7 DEF SameMarks
<1>8. CASE z' = d /\ cpc' = "tail" /\ UNCHANGED <<out, room>>
  <2>1. \A m : OutTrue(out, z, m, Stream) => OutTrue(out', z', m, Stream)
    BY <1>5, <1>8, OutSame
  <2>2. SameMarks(d, d)
    BY DEF SameMarks
  <2> QED
    BY <1>2, <1>4, <1>6, <1>7, <1>8, <2>1, <2>2, SenderDeflate
<1>9. CASE /\ d.look >= 1
           /\ \E m \in find_match(d) :
             \/ /\ \E raw \in {FALSE, MayBeRaw(Parse(d, m))} : flush_block(Parse(d, m), "NO", raw)
                /\ cpc' = IF z'.pend # <<>> THEN "tail" ELSE "loop"
             \/ z' = Parse(d, m) /\ UNCHANGED <<out, room, cpc>>
  <2>1. PICK m \in find_match(d) :
             \/ /\ \E raw \in {FALSE, MayBeRaw(Parse(d, m))} : flush_block(Parse(d, m), "NO", raw)
                /\ cpc' = IF z'.pend # <<>> THEN "tail" ELSE "loop"
             \/ z' = Parse(d, m) /\ UNCHANGED <<out, room, cpc>>
    BY <1>9
  <2>2. PICK e : e = Parse(d, m)
    OBVIOUS
  <2>3. Sent(e, Stream) /\ SameMarks(d, e)
    BY <1>1, <1>3, <1>6, <1>9, <2>2, ParseSent
  <2>4. IsComp(e) /\ DictHolds(e, Stream) /\ e.pos + e.look = d.pos + d.look
    <3>1. Kept(d, e, Stream)
      BY <1>1, <1>9, <2>2, ParseKeeps
    <3> QED
      BY <3>1 DEF Kept
  <2>5. \A i : OutTrue(out, z, i, Stream) => OutTrue(out, e, i, Stream)
    <3>1. e.pend = z.pend
      BY <1>4, <1>7, <2>3
    <3> SUFFICES ASSUME NEW i, OutTrue(out, z, i, Stream)
                 PROVE  OutTrue(out, e, i, Stream)
      OBVIOUS
    <3>3. e.cpos = z.cpos
      BY <1>5, <2>3 DEF SameMarks
    <3> QED
      BY <3>1, <3>3, OutSame
  <2>6. CASE z' = e /\ UNCHANGED <<out, room, cpc>>
    <3>1. \A i : OutTrue(out, z, i, Stream) => OutTrue(out', z', i, Stream)
      BY <2>5, <2>6
    <3> QED
      BY <1>2, <1>4, <1>7, <2>3, <2>6, <3>1, SenderDeflate
  <2>7. CASE /\ \E raw \in {FALSE, MayBeRaw(e)} : flush_block(e, "NO", raw)
             /\ cpc' = IF z'.pend # <<>> THEN "tail" ELSE "loop"
    <3>1. PICK raw \in {FALSE, MayBeRaw(e)} : flush_block(e, "NO", raw)
      BY <2>7
    <3>2. PICK units : units = BlockUnits(e, "NO", raw)
      OBVIOUS
    <3>3. PICK k : k = Min({room, Len(units)})
      OBVIOUS
    <3>4. z' = Flushed(e, units) /\ out' = out \o SubSeq(units, 1, k) /\ room' = room - k
      BY <3>1, <3>2, <3>3 DEF flush_block
    <3>5. e.pos <= Len(Stream) /\ e.pend = <<>>
      <4>1. e.pend = <<>>
        BY <1>7, <2>3
      <4>2. PICK pos, look : pos = e.pos /\ look = e.look
        OBVIOUS
      <4>3. pos \in Nat /\ look \in Nat /\ pos + look <= Len(Stream) /\ Len(Stream) \in Nat
        BY <1>1, <1>3, <2>4, <4>2 DEF DictHolds
      <4>4. pos <= Len(Stream)
        BY ONLY <4>3
      <4> QED
        BY <4>1, <4>2, <4>4
    <3>6. PICK f : f = Flushed(e, units)
      OBVIOUS
    <3>7. /\ Sent(f, Stream) /\ room - k \in Nat
          /\ f.finished = e.finished /\ f.prev = e.prev /\ f.wants = e.wants
          /\ \A i : OutTrue(out, e, i, Stream) => OutTrue(out \o SubSeq(units, 1, k), f, i, Stream)
      <4>1. Encodes(units, e.cpos, e.cpos + e.total, Stream)
        BY <1>3, <2>3, <2>4, <3>2, <3>5, BlockTrue
      <4>2. /\ Sent(f, Stream) /\ f.cpos = e.cpos + e.total
            /\ f.pend = SubSeq(units, room + 1, Len(units))
            /\ f.finished = e.finished /\ f.prev = e.prev /\ f.wants = e.wants
        <5>1. /\ f.cpos = e.cpos + e.total /\ f.total = 0 /\ f.codes = <<>>
              /\ f.pend = SubSeq(units, room + 1, Len(units)) /\ f.pos = e.pos
              /\ f.saved = e.saved
              /\ f.finished = e.finished /\ f.prev = e.prev /\ f.wants = e.wants
          BY <2>4, <3>6, FlushFields
        <5> QED
          BY <2>3, <5>1, FlushSent
      <4>3. /\ k \in Nat /\ room - k \in Nat /\ k <= Len(units)
            /\ SubSeq(units, room + 1, Len(units)) = SubSeq(units, k + 1, Len(units))
        BY <1>4, <3>3, <4>1, OutputSize
      <4>4. ASSUME NEW i, OutTrue(out, e, i, Stream)
            PROVE  OutTrue(out \o SubSeq(units, 1, k), f, i, Stream)
        <5>1. f.pend = SubSeq(units, k + 1, Len(units))
          BY <4>2, <4>3
        <5> QED
          BY <3>5, <4>1, <4>2, <4>3, <4>4, <5>1, FlushTrue
      <4> QED
        BY <4>2, <4>3, <4>4
    <3>8. f = z'
      BY <3>4, <3>6
    <3>9. \A i : OutTrue(out, z, i, Stream) => OutTrue(out', z', i, Stream)
      BY <2>5, <3>4, <3>7, <3>8
    <3>10. /\ ~ z'.finished /\ z'.prev = "OKAY" /\ (z'.wants => call.flush = "FINISH")
           /\ Sent(z', Stream) /\ room' \in Nat
      BY <1>7, <2>3, <3>4, <3>7, <3>8
    <3>11. cpc' \in {"tail", "loop"} /\ (cpc' = "loop" => z'.pend = <<>>)
      BY <2>7
    <3> QED
      BY <1>2, <3>9, <3>10, <3>11, SenderDeflate
  <2> QED
    BY <2>1, <2>2, <2>6, <2>7
<1> QED
  BY <1>1, <1>8, <1>9 DEF Iterated

\* The end of tdefl_compress.  The last block is made with an empty lookahead, so
\* that no match is put off any more, and with no input left: it is up to the end
\* of the stream.
LEMMA SenderTail ==
    ASSUME RecorderInv, SenderInv, ppc = "deflate", CompressTail, UNCHANGED pluginVars
    PROVE  SenderInv'
<1> DEFINE d == [z EXCEPT !.adler = mz_adler32(z.adler, taken)]
<1> DEFINE ends == call.flush # "NO" /\ d.look = 0 /\ src = <<>> /\ d.pend = <<>>
<1> DEFINE Units(raw) == BlockUnits(d, call.flush, raw)
<1> DEFINE Last(raw) == [Flushed(d, Units(raw)) EXCEPT
                            !.finished = call.flush = "FINISH",
                            !.dsize = IF call.flush = "FULL" THEN 0 ELSE @]
<1> DEFINE Ends(raw) ==
      /\ z' = [Last(raw) EXCEPT !.prev = IF Last(raw).finished /\ Last(raw).pend = <<>>
                                        THEN "DONE" ELSE "OKAY"]
      /\ out' = out \o SubSeq(Units(raw), 1, Min({room, Len(Units(raw))}))
      /\ room' = room - Min({room, Len(Units(raw))})
<1>1. /\ ends => \E raw \in {FALSE, MayBeRaw(d)} : Ends(raw)
      /\ ~ ends => flush_output_buffer(d)
  BY Zenon DEF CompressTail
<1>2. call' = call /\ cpc = "tail" /\ cpc' = "ret"
  BY DEF CompressTail
<1>3. /\ Sent(z, Stream) /\ SenderControl /\ IsComp(z) /\ Stream \in Seq(Nat)
      /\ DictHolds(z, Stream) /\ NothingSkipped /\ call.flush \in {"NO", "FINISH"}
  BY RecorderFacts DEF SenderInv
<1>4. /\ z.prev = "OKAY" /\ ~ z.finished /\ (z.wants => call.flush = "FINISH") /\ room \in Nat
  BY <1>2, <1>3 DEF SenderControl
<1>5. /\ IsComp(d) /\ d.pos = z.pos /\ d.cpos = z.cpos /\ d.total = z.total /\ d.look = z.look
      /\ d.dsize = z.dsize /\ d.dict = z.dict
      /\ d.codes = z.codes /\ d.saved = z.saved /\ d.pend = z.pend /\ d.finished = z.finished
      /\ d.prev = z.prev /\ d.wants = z.wants
  BY <1>3 DEF IsComp, CompFields
<1> HIDE DEF d
<1>6. DictHolds(d, Stream) /\ Sent(d, Stream)
  <2>1. DictHolds(d, Stream)
    BY <1>3, <1>5 DEF DictHolds
  <2> QED
    BY <1>3, <1>5, <2>1, SentSame
<1>7. CASE ~ ends
  <2>1. flush_output_buffer(d)
    BY <1>1, <1>7
  <2> QED
    BY <1>2, <1>4, <1>5, <2>1, SenderOutput
<1>8. CASE ends
  <2>1. call.flush = "FINISH"
    BY <1>3, <1>8
  <2>2. PICK raw \in {FALSE, MayBeRaw(d)} : Ends(raw)
    BY <1>1, <1>8, Zenon
  <2>3. PICK units : units = BlockUnits(d, "FINISH", raw)
    OBVIOUS
  <2>4. PICK k : k = Min({room, Len(units)})
    OBVIOUS
  <2>5. PICK f : f = Flushed(d, units)
    OBVIOUS
  <2>6. PICK e : e = [f EXCEPT !.finished = call.flush = "FINISH",
                               !.dsize = IF call.flush = "FULL" THEN 0 ELSE @]
    OBVIOUS
  <2>7. /\ z' = [e EXCEPT !.prev = IF e.finished /\ e.pend = <<>> THEN "DONE" ELSE "OKAY"]
        /\ out' = out \o SubSeq(units, 1, k) /\ room' = room - k
    BY <2>1, <2>2, <2>3, <2>4, <2>5, <2>6
  <2>8. PICK pos, cpos, total, len : pos = d.pos /\ cpos = d.cpos /\ total = d.total
                                     /\ len = d.saved.len
    OBVIOUS
  <2>9. pos = Len(Stream)
    <3>1. Cut(Stream, z.pos + z.look, src, todo)
      BY <1>3 DEF NothingSkipped, Front
    <3>2. todo = <<>> /\ src = <<>> /\ z.look = 0
      BY <1>3, <1>5, <1>8, <2>1 DEF SenderControl
    <3>3. Len(Stream) = pos + 0 + 0 + 0
      BY <1>5, <2>8, <3>1, <3>2 DEF Cut
    <3>4. pos \in Nat
      BY <1>6, <2>8 DEF DictHolds
    <3> QED
      BY ONLY <3>3, <3>4
  <2>10. cpos + total = pos
    <3>1. len \in Nat /\ len <= 0 + 1 /\ pos \in Nat
      BY <1>6, <1>8, <2>8 DEF DictHolds
    <3>2. len # 1 /\ (~ (len > 0) => cpos + total = pos)
      BY <1>6, <2>8 DEF Sent
    <3> QED
      BY ONLY <3>1, <3>2
  <2>11. d.pos <= Len(Stream) /\ d.pend = <<>>
    BY <1>3, <1>8, <2>8, <2>9
  <2>12. /\ IsComp(f) /\ Sent(f, Stream) /\ f.cpos = d.cpos + d.total /\ room - k \in Nat
         /\ f.wants = d.wants
         /\ \A m : OutTrue(out, d, m, Stream) => OutTrue(out \o SubSeq(units, 1, k), f, m, Stream)
    <3>1. Encodes(units, d.cpos, d.cpos + d.total, Stream)
      BY <1>3, <1>6, <2>3, <2>11, BlockTrue
    <3>2. /\ IsComp(f) /\ Sent(f, Stream) /\ f.cpos = d.cpos + d.total /\ f.wants = d.wants
          /\ f.pend = SubSeq(units, room + 1, Len(units))
      <4>1. /\ IsComp(f) /\ f.cpos = d.cpos + d.total /\ f.total = 0 /\ f.codes = <<>>
            /\ f.pend = SubSeq(units, room + 1, Len(units)) /\ f.pos = d.pos
            /\ f.saved = d.saved /\ f.wants = d.wants
        <5>1. IsComp(d)
          BY <1>5
        <5> QED
          BY ONLY <2>5, <5>1, FlushFields
      <4> QED
        BY <1>6, <4>1, FlushSent
    <3>3. /\ k \in Nat /\ room - k \in Nat /\ k <= Len(units)
          /\ SubSeq(units, room + 1, Len(units)) = SubSeq(units, k + 1, Len(units))
      BY <1>4, <2>4, <3>1, OutputSize
    <3>4. ASSUME NEW m, OutTrue(out, d, m, Stream)
          PROVE  OutTrue(out \o SubSeq(units, 1, k), f, m, Stream)
      <4>1. f.pend = SubSeq(units, k + 1, Len(units))
        BY <3>2, <3>3
      <4> QED
        BY <2>11, <3>1, <3>2, <3>3, <3>4, <4>1, FlushTrue
    <3> QED
      BY <3>2, <3>3, <3>4
  <2>13. /\ IsComp(e) /\ e.pos = f.pos /\ e.cpos = f.cpos /\ e.total = f.total
         /\ e.codes = f.codes /\ e.saved = f.saved /\ e.pend = f.pend /\ e.wants = f.wants
         /\ e.finished = TRUE
    BY <2>1, <2>6, <2>12 DEF IsComp, CompFields
  <2>14. /\ z'.pos = f.pos /\ z'.cpos = f.cpos /\ z'.total = f.total
         /\ z'.codes = f.codes /\ z'.saved = f.saved /\ z'.pend = f.pend /\ z'.wants = f.wants
         /\ z'.finished = TRUE /\ z'.prev = IF f.pend = <<>> THEN "DONE" ELSE "OKAY"
    BY <2>7, <2>13 DEF IsComp, CompFields
  <2>15. Sent(z', Stream)
    BY <2>12, <2>14, SentSame
  <2>16. \A m : OutTrue(out, z, m, Stream) => OutTrue(out', z', m, Stream)
    <3> SUFFICES ASSUME NEW m, OutTrue(out, z, m, Stream)
                 PROVE  OutTrue(out', z', m, Stream)
      OBVIOUS
    <3>1. OutTrue(out, d, m, Stream)
      BY <1>5, OutSame
    <3>2. OutTrue(out \o SubSeq(units, 1, k), f, m, Stream)
      BY <2>12, <3>1
    <3>3. OutTrue(out', f, m, Stream)
      BY <2>7, <3>2
    <3> QED
      BY <2>14, <3>3, OutSame
  <2>17. z'.cpos = Len(Stream)
    BY <2>8, <2>9, <2>10, <2>12, <2>14
  <2>18. /\ z'.prev \in {"OKAY", "DONE"} /\ (z'.prev = "DONE" => z'.finished /\ z'.pend = <<>>)
         /\ room' \in Nat /\ call'.flush = call.flush
    BY <1>2, <2>7, <2>12, <2>14
  <2> QED
    BY <1>2, <2>1, <2>15, <2>16, <2>17, <2>18, SenderDeflate
<1> QED
  BY <1>7, <1>8

LEMMA SenderIdle ==
    ASSUME RecorderInv, SenderInv, UNCHANGED <<pluginVars, deflateVars>>
    PROVE  SenderInv'
<1>1. /\ accesses' = accesses
      /\ is_64_bits' = is_64_bits /\ todo' = todo /\ file' = file /\ ppc' = ppc /\ z' = z
      /\ out' = out /\ room' = room /\ call' = call /\ cpc' = cpc
  BY DEF pluginVars, deflateVars
<1>2. Stream' = Stream
  BY <1>1, StreamSame
<1>3. SenderControl
  BY DEF SenderInv
<1>4. /\ ppc' # "failed" /\ (call'.flush = "FINISH" => todo' = <<>>)
      /\ (z.wants => call'.flush = "FINISH")
  BY <1>1, <1>3 DEF SenderControl
<1>5. /\ call'.status = call.status
      /\ ((ppc' = ppc /\ out' = out) \/ (ppc # "deflate" /\ ppc' # "deflate"))
  BY <1>1
<1> QED
  BY <1>1, <1>2, <1>4, <1>5, SenderQuiet, Zenon

LEMMA SenderStep ==
    ASSUME RecorderInv, SenderInv, [Next]_vars
    PROVE  SenderInv'
<1>1. CASE \E a \in Access : mem_cb(a)
  BY <1>1, SenderMemCb
<1>2. CASE write_buffer \/ RecordWritten \/ plugin_exit
  BY <1>2, SenderBuffer
<1>3. CASE CompressStart \/ CompressWrite \/ CompressAgain
  BY <1>3, SenderCompress, SenderWrite
<1>4. CASE ppc = "deflate" /\ DeflateNext /\ UNCHANGED <<pluginVars, readerVars, inflateVars>>
  <2>1. ppc = "deflate" /\ UNCHANGED pluginVars
    BY <1>4
  <2> QED
    BY <1>4, <2>1, SenderEnter, SenderIterate, SenderLoop, SenderTail DEF DeflateNext
<1>5. CASE ReaderNext
  <2>1. UNCHANGED <<pluginVars, deflateVars>>
    BY <1>5, Zenon DEF ReaderNext, OpenTrace, RunTrace, get_content_of_trace, ReadChunk,
                       InflateChunk, ChunkInflated
  <2> QED
    BY <2>1, SenderIdle
<1>6. CASE UNCHANGED vars
  <2>1. UNCHANGED <<pluginVars, deflateVars>>
    BY <1>6 DEF vars
  <2> QED
    BY <2>1, SenderIdle
<1> QED
  BY <1>1, <1>2, <1>3, <1>4, <1>5, <1>6 DEF Next, PluginNext

LEMMA SenderInvariant == Spec => [](RecorderInv /\ SenderInv)
<1>1. Init => RecorderInv /\ SenderInv
  BY RecorderInit, SenderInit
<1>2. RecorderInv /\ SenderInv /\ [Next]_vars => (RecorderInv /\ SenderInv)'
  BY RecorderStep, SenderStep
<1> QED
  BY <1>1, <1>2, PTL DEF Spec

\* A file whose stream is ended is a true account of all that the plugin gave to
\* the compressor: every literal and every byte of a raw block is the byte of the
\* stream at its position, every match repeats the bytes that are its distance
\* before, and the units end at the end of the stream.
THEOREM FileIsTrue == Spec => [](StreamEnded => Encodes(file, 0, Len(Stream), Stream))
<1>1. RecorderInv /\ SenderInv => (StreamEnded => Encodes(file, 0, Len(Stream), Stream))
  <2> SUFFICES ASSUME SenderInv, StreamEnded
               PROVE  Encodes(file, 0, Len(Stream), Stream)
    OBVIOUS
  <2>1. ppc = "closed" /\ z.pend = <<>> /\ z.cpos = Len(Stream)
    BY DEF StreamEnded, SenderInv, SenderControl
  <2>2. PICK m \in Nat : Encodes(file, 0, m, Stream) /\ OutTrue(<<>>, z, m, Stream)
    BY <2>1 DEF SenderInv, WireTrue
  <2>3. PICK n \in Nat : Encodes(<<>>, m, n, Stream) /\ Encodes(<<>>, n, z.cpos, Stream)
    BY <2>1, <2>2 DEF OutTrue
  <2>4. m = n /\ n = z.cpos
    BY <2>3, NoneEncodes
  <2> QED
    BY <2>1, <2>2, <2>4
<1> QED
  BY <1>1, SenderInvariant, PTL

\* While the guest runs the file is a true account of a beginning of the stream:
\* nothing that is written has to be taken back.
THEOREM FileIsPrefix == Spec => [](\E m \in Nat : Encodes(file, 0, m, Stream))
<1>1. RecorderInv /\ SenderInv => \E m \in Nat : Encodes(file, 0, m, Stream)
  BY DEF SenderInv, WireTrue
<1> QED
  BY <1>1, SenderInvariant, PTL

\* The plugin never calls the compressor in a way that it refuses: mz_deflate does
\* not return MZ_STREAM_ERROR and the recording does not end in the error branch of
\* compress_data_to_file.
THEOREM NeverRefused == Spec => [](ppc # "failed")
<1>1. RecorderInv /\ SenderInv => ppc # "failed"
  BY DEF SenderInv, SenderControl
<1> QED
  BY <1>1, SenderInvariant, PTL

-----------------------------------------------------------------------------
(* The trace on the wire: the order in which its units come.                 *)

\* Where a wire is after some of its units: before the header, between blocks,
\* inside a block of codes, n bytes before the end of a stored block, at the
\* checksum, at the end.  Inside a block, f says if it is the last.
AtStart == <<"header", 0, FALSE>>
AtBlock == <<"block", 0, FALSE>>
InCodes(f) == <<"codes", 0, f>>
AfterBlock(f) == IF f THEN <<"check", 0, TRUE>> ELSE AtBlock
InRaw(n, f) == IF n = 0 THEN AfterBlock(f) ELSE <<"raw", n, f>>
AtEnd == <<"done", 0, TRUE>>

\* A code of a block: a match is not longer ago than the window.
IsCode(u) == u.u = "lit" \/ (u.u = "match" /\ u.dist <= Dict)

\* Unit u takes the wire from c to e.
Frame(u, c, e) ==
    \/ u.u = "header" /\ c = AtStart /\ e = AtBlock
    \/ /\ u.u = "block" /\ c = AtBlock /\ u.final \in BOOLEAN
       /\ \/ u.raw = -1 /\ e = InCodes(u.final)
          \/ u.raw \in Nat /\ e = InRaw(u.raw, u.final)
    \/ u.u = "byte" /\ \E n \in Nat, f \in BOOLEAN : c = <<"raw", n + 1, f>> /\ e = InRaw(n, f)
    \/ IsCode(u) /\ e = c /\ \E f \in BOOLEAN : c = InCodes(f)
    \/ u.u = "eob" /\ \E f \in BOOLEAN : c = InCodes(f) /\ e = AfterBlock(f)
    \/ u.u = "adler" /\ c = AfterBlock(TRUE) /\ e = AtEnd

\* So do the units w, one after the other.
Framed(w, c, e) ==
    /\ \E S : w \in Seq(S)
    /\ \E at : /\ at[0] = c /\ at[Len(w)] = e
               /\ \A i \in 1 .. Len(w) : Frame(w[i], at[i - 1], at[i])

LEMMA FramedNone ==
    ASSUME NEW c
    PROVE  Framed(<<>>, c, c)
<1> DEFINE at == [i \in 0 .. 0 |-> c]
<1>1. <<>> \in Seq(Nat) /\ Len(<<>>) = 0
  OBVIOUS
<1>2. at[0] = c
  OBVIOUS
<1> HIDE DEF at
<1>3. \A i \in 1 .. 0 : Frame(<<>>[i], at[i - 1], at[i])
  OBVIOUS
<1> QED
  BY <1>1, <1>2, <1>3 DEF Framed

LEMMA FramedOne ==
    ASSUME NEW u, NEW c, NEW e, Frame(u, c, e)
    PROVE  Framed(<<u>>, c, e)
<1> DEFINE at == [i \in 0 .. 1 |-> IF i = 0 THEN c ELSE e]
<1> DEFINE w == <<u>>
<1>1. w \in Seq({u}) /\ Len(w) = 1 /\ w[1] = u
  OBVIOUS
<1>2. at[0] = c /\ at[1] = e
  OBVIOUS
<1> HIDE DEF at, w
<1>3. ASSUME NEW i \in 1 .. 1 PROVE Frame(w[i], at[i - 1], at[i])
  <2>1. i = 1 /\ i - 1 = 0
    OBVIOUS
  <2> QED
    BY <1>1, <1>2, <2>1
<1>4. Framed(w, c, e)
  BY <1>1, <1>2, <1>3 DEF Framed
<1> QED
  BY <1>4 DEF w

LEMMA FramedConcat ==
    ASSUME NEW v, NEW w, NEW b, NEW c, NEW e, Framed(v, b, c), Framed(w, c, e)
    PROVE  Framed(v \o w, b, e)
<1>1. PICK S1 : v \in Seq(S1)
  BY DEF Framed
<1>2. PICK S2 : w \in Seq(S2)
  BY DEF Framed
<1> DEFINE S == S1 \cup S2
<1> DEFINE t == v \o w
<1>3. v \in Seq(S) /\ w \in Seq(S)
  BY <1>1, <1>2
<1> HIDE DEF S
<1>4. /\ t \in Seq(S) /\ Len(t) = Len(v) + Len(w) /\ Len(v) \in Nat /\ Len(w) \in Nat
      /\ \A i \in 1 .. Len(t) : t[i] = IF i <= Len(v) THEN v[i] ELSE w[i - Len(v)]
  BY <1>3, ConcatProperties
<1> HIDE DEF t
<1>5. PICK a1 : /\ a1[0] = b /\ a1[Len(v)] = c
                /\ \A i \in 1 .. Len(v) : Frame(v[i], a1[i - 1], a1[i])
  BY DEF Framed
<1>6. PICK a2 : /\ a2[0] = c /\ a2[Len(w)] = e
                /\ \A i \in 1 .. Len(w) : Frame(w[i], a2[i - 1], a2[i])
  BY DEF Framed
<1> DEFINE at == [i \in 0 .. Len(t) |-> IF i <= Len(v) THEN a1[i] ELSE a2[i - Len(v)]]
<1>8. at[0] = b
  BY <1>4, <1>5
<1>9. at[Len(t)] = e
  <2>1. CASE Len(w) = 0
    BY <1>4, <1>5, <1>6, <2>1
  <2>2. CASE Len(w) > 0
    BY <1>4, <1>5, <1>6, <2>2
  <2> QED
    BY <1>4, <2>1, <2>2
<1>10. ASSUME NEW i \in 1 .. Len(t) PROVE Frame(t[i], at[i - 1], at[i])
  <2>0. i \in 0 .. Len(t) /\ i - 1 \in 0 .. Len(t)
    BY <1>4
  <2>1. CASE i <= Len(v)
    <3>1. i \in 1 .. Len(v) /\ t[i] = v[i]
      BY <1>4, <2>1
    <3>2. at[i] = a1[i] /\ at[i - 1] = a1[i - 1]
      BY <1>4, <2>0, <2>1
    <3>3. Frame(v[i], a1[i - 1], a1[i])
      BY <1>5, <3>1
    <3> HIDE DEF at
    <3> QED
      BY <3>1, <3>2, <3>3
  <2>2. CASE ~ (i <= Len(v))
    <3>1. PICK j : j = i - Len(v)
      OBVIOUS
    <3>2. j \in 1 .. Len(w) /\ t[i] = w[j] /\ i - 1 - Len(v) = j - 1
      BY <1>4, <2>2, <3>1
    <3>3. at[i] = a2[j]
      BY <2>0, <2>2, <3>1
    <3>4. at[i - 1] = a2[j - 1]
      <4>1. CASE i - 1 <= Len(v)
        <5>1. i - 1 = Len(v) /\ j - 1 = 0
          BY <1>4, <2>2, <3>1, <4>1
        <5>2. at[i - 1] = a1[Len(v)]
          BY <2>0, <5>1
        <5> QED
          BY <1>5, <1>6, <5>1, <5>2
      <4>2. CASE ~ (i - 1 <= Len(v))
        BY <2>0, <3>2, <4>2
      <4> QED
        BY <4>1, <4>2
    <3>5. Frame(w[j], a2[j - 1], a2[j])
      BY <1>6, <3>2
    <3> HIDE DEF at
    <3> QED
      BY <3>2, <3>3, <3>4, <3>5
  <2> QED
    BY <2>1, <2>2
<1> HIDE DEF at
<1>11. Framed(t, b, e)
  BY <1>4, <1>8, <1>9, <1>10 DEF Framed
<1> QED
  BY <1>11 DEF t

\* The codes of a block are for nothing else.
AllCodes(w) == (\E S : w \in Seq(S)) /\ \A i \in 1 .. Len(w) : IsCode(w[i])

LEMMA CodesFramed ==
    ASSUME NEW w, AllCodes(w), NEW f \in BOOLEAN
    PROVE  Framed(w, InCodes(f), InCodes(f))
<1> DEFINE c == InCodes(f)
<1> DEFINE at == [i \in 0 .. Len(w) |-> c]
<1>1. PICK S : w \in Seq(S)
  BY DEF AllCodes
<1>2. Len(w) \in Nat
  BY <1>1
<1>3. at[0] = c /\ at[Len(w)] = c /\ \A i \in 1 .. Len(w) : at[i - 1] = c /\ at[i] = c
  BY <1>2
<1>4. \A i \in 1 .. Len(w) : Frame(w[i], c, c)
  <2>1. \A i \in 1 .. Len(w) : IsCode(w[i])
    BY DEF AllCodes
  <2> QED
    BY <2>1, Zenon DEF Frame
<1> HIDE DEF at, c
<1>5. Framed(w, c, c)
  BY <1>1, <1>3, <1>4, Zenon DEF Framed
<1> QED
  BY <1>5 DEF c

\* The bytes of a stored block.
LEMMA BytesFramed ==
    ASSUME NEW n \in Nat, NEW w, NEW S, w \in Seq(S), Len(w) = n,
           \A i \in 1 .. n : w[i].u = "byte", NEW f \in BOOLEAN
    PROVE  Framed(w, InRaw(n, f), AfterBlock(f))
<1> DEFINE at == [i \in 0 .. n |-> InRaw(n - i, f)]
<1>1. at[0] = InRaw(n, f) /\ at[n] = AfterBlock(f)
  BY DEF InRaw
<1>2. ASSUME NEW i \in 1 .. n PROVE Frame(w[i], at[i - 1], at[i])
  <2>1. PICK m : m = n - i
    OBVIOUS
  <2>2. m \in Nat /\ n - (i - 1) = m + 1 /\ m + 1 # 0
    BY <2>1
  <2>3. at[i - 1] = InRaw(m + 1, f) /\ at[i] = InRaw(m, f)
    BY <2>1, <2>2
  <2>4. InRaw(m + 1, f) = <<"raw", m + 1, f>>
    BY <2>2 DEF InRaw
  <2> HIDE DEF at
  <2>5. w[i].u = "byte"
    OBVIOUS
  <2> QED
    BY <2>2, <2>3, <2>4, <2>5, Zenon DEF Frame
<1> HIDE DEF at
<1> QED
  BY <1>1, <1>2 DEF Framed

\* The units of one block, with the header before the first and the checksum
\* after the last.
LEMMA BlockFramed ==
    ASSUME NEW d, AllCodes(d.codes), d.total \in Nat, NEW flush \in {"NO", "FINISH"},
           NEW raw \in {FALSE, MayBeRaw(d)}
    PROVE  Framed(BlockUnits(d, flush, raw), IF d.first THEN AtStart ELSE AtBlock,
                  IF flush = "FINISH" THEN AtEnd ELSE AtBlock)
<1>0. PICK f \in BOOLEAN : f = (flush = "FINISH")
  OBVIOUS
<1> DEFINE head == IF d.first THEN <<[u |-> "header"]>> ELSE <<>>
<1> DEFINE body == IF raw THEN <<[u |-> "block", final |-> f, raw |-> d.total]>>
                               \o [i \in 1 .. d.total |-> [u |-> "byte", x |-> RawBytes(d)[i]]]
                   ELSE <<[u |-> "block", final |-> f, raw |-> -1]>>
                               \o d.codes \o <<[u |-> "eob"]>>
<1> DEFINE foot == IF flush = "FINISH" THEN <<[u |-> "adler", a |-> d.adler]>> ELSE <<>>
<1> DEFINE start == IF d.first THEN AtStart ELSE AtBlock
<1> DEFINE end == IF flush = "FINISH" THEN AtEnd ELSE AtBlock
<1>2. BlockUnits(d, flush, raw) = head \o body \o foot
  BY <1>0 DEF BlockUnits
<1>3. Framed(head, start, AtBlock)
  <2>1. CASE d.first
    <3> DEFINE h == [u |-> "header"]
    <3>1. Frame(h, AtStart, AtBlock)
      BY DEF Frame
    <3> HIDE DEF h
    <3>2. Framed(<<h>>, AtStart, AtBlock)
      BY <3>1, FramedOne
    <3> QED
      BY <2>1, <3>2 DEF h
  <2>2. CASE ~ d.first
    BY <2>2, FramedNone
  <2> QED
    BY <2>1, <2>2
<1>4. Framed(foot, AfterBlock(f), end)
  <2>1. CASE flush = "FINISH"
    <3> DEFINE h == [u |-> "adler", a |-> d.adler]
    <3>1. h.u = "adler"
      OBVIOUS
    <3> HIDE DEF h
    <3>2. Frame(h, AfterBlock(TRUE), AtEnd)
      BY <3>1 DEF Frame
    <3>3. Framed(<<h>>, AfterBlock(TRUE), AtEnd)
      BY <3>2, FramedOne
    <3>4. f = TRUE
      BY <1>0, <2>1
    <3> QED
      BY <2>1, <3>3, <3>4 DEF h
  <2>2. CASE flush # "FINISH"
    <3>1. AfterBlock(f) = AtBlock
      BY <1>0, <2>2 DEF AfterBlock
    <3> QED
      BY <2>2, <3>1, FramedNone
  <2> QED
    BY <2>1, <2>2
<1>5. Framed(body, AtBlock, AfterBlock(f))
  <2>1. CASE raw
    <3> DEFINE h == [u |-> "block", final |-> f, raw |-> d.total]
    <3> DEFINE Byte(i) == [u |-> "byte", x |-> RawBytes(d)[i]]
    <3> DEFINE w == [i \in 1 .. d.total |-> Byte(i)]
    <3>1. h.u = "block" /\ h.final = f /\ h.raw = d.total
      OBVIOUS
    <3>2. \A i \in 1 .. d.total : w[i].u = "byte"
      OBVIOUS
    <3>3. \E S : w \in Seq(S) /\ Len(w) = d.total
      <4> DEFINE S == {Byte(i) : i \in 1 .. d.total}
      <4>1. \A i \in 1 .. d.total : Byte(i) \in S
        OBVIOUS
      <4> HIDE DEF Byte, S
      <4>2. w \in Seq(S) /\ Len(w) = d.total
        BY <4>1
      <4> QED
        BY <4>2
    <3> HIDE DEF h, w
    <3>4. Frame(h, AtBlock, InRaw(d.total, f))
      BY <3>1 DEF Frame
    <3>5. Framed(<<h>>, AtBlock, InRaw(d.total, f))
      BY <3>4, FramedOne
    <3>6. Framed(w, InRaw(d.total, f), AfterBlock(f))
      BY <3>2, <3>3, BytesFramed
    <3>7. Framed(<<h>> \o w, AtBlock, AfterBlock(f))
      BY <3>5, <3>6, FramedConcat
    <3> QED
      BY <2>1, <3>7 DEF h, w
  <2>2. CASE ~ raw
    <3> DEFINE h == [u |-> "block", final |-> f, raw |-> -1]
    <3> DEFINE e == [u |-> "eob"]
    <3>1. h.u = "block" /\ h.final = f /\ h.raw = -1 /\ e.u = "eob"
      OBVIOUS
    <3> HIDE DEF h, e
    <3>2. Frame(h, AtBlock, InCodes(f)) /\ Frame(e, InCodes(f), AfterBlock(f))
      BY <3>1 DEF Frame
    <3>3. Framed(<<h>>, AtBlock, InCodes(f)) /\ Framed(<<e>>, InCodes(f), AfterBlock(f))
      BY <3>2, FramedOne
    <3>4. Framed(<<h>> \o d.codes, AtBlock, InCodes(f))
      BY <3>3, CodesFramed, FramedConcat
    <3>5. Framed((<<h>> \o d.codes) \o <<e>>, AtBlock, AfterBlock(f))
      BY <3>3, <3>4, FramedConcat
    <3> QED
      BY <2>2, <3>5 DEF h, e
  <2> QED
    BY <2>1, <2>2
<1> HIDE DEF head, body, foot, start, end
<1>6. Framed(head \o body, start, AfterBlock(f))
  BY <1>3, <1>5, FramedConcat
<1>7. Framed((head \o body) \o foot, start, end)
  BY <1>4, <1>6, FramedConcat
<1> QED
  BY <1>2, <1>7 DEF start, end

\* The block under construction has only codes, and a match that is put off is
\* not longer ago than the window.
Shape(d) == AllCodes(d.codes) /\ (d.saved.len > 0 => d.saved.dist <= Dict)

LEMMA CodesAppend ==
    ASSUME NEW c, AllCodes(c), NEW u, IsCode(u)
    PROVE  AllCodes(Append(c, u))
<1>1. PICK S : c \in Seq(S)
  BY DEF AllCodes
<1> DEFINE T == S \cup {u}
<1>2. c \in Seq(T) /\ u \in T
  BY <1>1
<1> HIDE DEF T
<1>3. /\ Append(c, u) \in Seq(T) /\ Len(Append(c, u)) = Len(c) + 1 /\ Len(c) \in Nat
      /\ \A i \in 1 .. Len(c) : Append(c, u)[i] = c[i]
      /\ Append(c, u)[Len(c) + 1] = u
  BY <1>2, AppendProperties
<1>4. PICK a : a = Append(c, u)
  OBVIOUS
<1>5. ASSUME NEW i \in 1 .. Len(a) PROVE IsCode(a[i])
  <2>1. CASE i \in 1 .. Len(c)
    BY <1>3, <1>4, <2>1 DEF AllCodes
  <2>2. CASE i = Len(c) + 1
    BY <1>3, <1>4, <2>2
  <2> QED
    BY <1>3, <1>4, <2>1, <2>2
<1>6. AllCodes(a)
  BY <1>3, <1>4, <1>5 DEF AllCodes
<1> QED
  BY <1>4, <1>6

LEMMA LiteralCode ==
    ASSUME NEW x
    PROVE  IsCode([u |-> "lit", x |-> x])
  BY DEF IsCode

LEMMA MatchCode ==
    ASSUME NEW len, NEW dist, dist <= Dict
    PROVE  IsCode([u |-> "match", len |-> len, dist |-> dist])
  BY DEF IsCode

\* The steps of the parser one by one.
LEMMA LiteralStep ==
    ASSUME NEW d, IsComp(d), NEW x, NEW e, e = record_literal(d, x)
    PROVE  /\ IsComp(e) /\ e.first = d.first /\ e.finished = d.finished /\ e.saved = d.saved
           /\ e.codes = Append(d.codes, [u |-> "lit", x |-> x])
  BY DEF IsComp, CompFields, record_literal

LEMMA MatchStep ==
    ASSUME NEW d, IsComp(d), NEW m, NEW e, e = record_match(d, m)
    PROVE  /\ IsComp(e) /\ e.first = d.first /\ e.finished = d.finished /\ e.saved = d.saved
           /\ e.codes = Append(d.codes, [u |-> "match", len |-> m.len, dist |-> m.dist])
  BY DEF IsComp, CompFields, record_match

LEMMA DeferStep ==
    ASSUME NEW d, IsComp(d), NEW m, NEW e, e = Defer(d, m)
    PROVE  /\ IsComp(e) /\ e.first = d.first /\ e.finished = d.finished /\ e.codes = d.codes
           /\ e.saved.len = m.len /\ e.saved.dist = m.dist
  BY DEF IsComp, CompFields, Defer

LEMMA ForgetStep ==
    ASSUME NEW d, IsComp(d), NEW e, e = Forget(d)
    PROVE  /\ IsComp(e) /\ e.first = d.first /\ e.finished = d.finished /\ e.codes = d.codes
           /\ e.saved.len = 0
  BY DEF IsComp, CompFields, Forget

LEMMA MoveStep ==
    ASSUME NEW d, IsComp(d), NEW n, NEW e, e = MoveLookahead(d, n)
    PROVE  /\ IsComp(e) /\ e.first = d.first /\ e.finished = d.finished /\ e.codes = d.codes
           /\ e.saved = d.saved
  BY DEF IsComp, CompFields, MoveLookahead

\* A match that is found is in the dictionary.
LEMMA MatchNear ==
    ASSUME NEW d, NEW s, DictHolds(d, s), NEW m \in find_match(d)
    PROVE  m.dist <= Dict
<1>1. /\ d.dsize \in Nat /\ d.look \in Nat /\ d.look + d.dsize <= Dict /\ Dict \in Nat
  BY DeflateAssumption DEF DictHolds
<1>2. m.dist = 0 \/ m.dist \in 1 .. d.dsize
  BY DEF find_match, NoMatch
<1> QED
  BY <1>1, <1>2

LEMMA ParseShape ==
    ASSUME NEW d, IsComp(d), NEW s, DictHolds(d, s), Shape(d), NEW m \in find_match(d),
           NEW e, e = Parse(d, m)
    PROVE  Shape(e) /\ e.first = d.first /\ e.finished = d.finished
<1>1. m.dist <= Dict
  BY MatchNear
<1>2. AllCodes(d.codes) /\ (d.saved.len > 0 => d.saved.dist <= Dict)
  BY DEF Shape
<1>3. CASE d.saved.len > 0 /\ m.len > d.saved.len
  <2>1. PICK g : g = record_literal(d, d.saved.lit)
    OBVIOUS
  <2>2. /\ IsComp(g) /\ g.first = d.first /\ g.finished = d.finished
        /\ g.codes = Append(d.codes, [u |-> "lit", x |-> d.saved.lit])
    BY <2>1, LiteralStep
  <2>3. AllCodes(g.codes)
    BY <1>2, <2>2, LiteralCode, CodesAppend
  <2>4. CASE m.len >= LongMatch
    <3>1. PICK h : h = record_match(g, m)
      OBVIOUS
    <3>2. /\ IsComp(h) /\ h.first = g.first /\ h.finished = g.finished
          /\ h.codes = Append(g.codes, [u |-> "match", len |-> m.len, dist |-> m.dist])
      BY <2>2, <3>1, MatchStep
    <3>3. AllCodes(h.codes)
      BY <1>1, <2>3, <3>2, MatchCode, CodesAppend
    <3>4. PICK k : k = Forget(h)
      OBVIOUS
    <3>5. /\ IsComp(k) /\ k.first = h.first /\ k.finished = h.finished /\ k.codes = h.codes
          /\ k.saved.len = 0
      BY <3>2, <3>4, ForgetStep
    <3>6. e = MoveLookahead(k, m.len)
      BY <1>3, <2>1, <2>4, <3>1, <3>4 DEF Parse
    <3>7. /\ e.first = k.first /\ e.finished = k.finished /\ e.codes = k.codes
          /\ e.saved = k.saved
      BY <3>5, <3>6, MoveStep
    <3> QED
      BY <2>2, <3>2, <3>3, <3>5, <3>7 DEF Shape
  <2>5. CASE ~ (m.len >= LongMatch)
    <3>1. PICK k : k = Defer(g, m)
      OBVIOUS
    <3>2. /\ IsComp(k) /\ k.first = g.first /\ k.finished = g.finished /\ k.codes = g.codes
          /\ k.saved.dist = m.dist
      BY <2>2, <3>1, DeferStep
    <3>3. e = MoveLookahead(k, 1)
      BY <1>3, <2>1, <2>5, <3>1 DEF Parse
    <3>4. /\ e.first = k.first /\ e.finished = k.finished /\ e.codes = k.codes
          /\ e.saved = k.saved
      BY <3>2, <3>3, MoveStep
    <3> QED
      BY <1>1, <2>2, <2>3, <3>2, <3>4 DEF Shape
  <2> QED
    BY <2>4, <2>5
<1>4. CASE d.saved.len > 0 /\ ~ (m.len > d.saved.len)
  <2>1. PICK h : h = record_match(d, d.saved)
    OBVIOUS
  <2>2. /\ IsComp(h) /\ h.first = d.first /\ h.finished = d.finished
        /\ h.codes = Append(d.codes, [u |-> "match", len |-> d.saved.len, dist |-> d.saved.dist])
    BY <2>1, MatchStep
  <2>3. AllCodes(h.codes)
    BY <1>2, <1>4, <2>2, MatchCode, CodesAppend
  <2>4. PICK k : k = Forget(h)
    OBVIOUS
  <2>5. /\ IsComp(k) /\ k.first = h.first /\ k.finished = h.finished /\ k.codes = h.codes
        /\ k.saved.len = 0
    BY <2>2, <2>4, ForgetStep
  <2>6. e = MoveLookahead(k, d.saved.len - 1)
    BY <1>4, <2>1, <2>4 DEF Parse
  <2>7. e.first = k.first /\ e.finished = k.finished /\ e.codes = k.codes /\ e.saved = k.saved
    BY <2>5, <2>6, MoveStep
  <2> QED
    BY <2>2, <2>3, <2>5, <2>7 DEF Shape
<1>5. CASE ~ (d.saved.len > 0) /\ m.dist = 0
  <2>1. PICK g : g = record_literal(d, d.dict[d.pos % Dict])
    OBVIOUS
  <2>2. /\ IsComp(g) /\ g.first = d.first /\ g.finished = d.finished /\ g.saved = d.saved
        /\ g.codes = Append(d.codes, [u |-> "lit", x |-> d.dict[d.pos % Dict]])
    BY <2>1, LiteralStep
  <2>3. AllCodes(g.codes)
    BY <1>2, <2>2, LiteralCode, CodesAppend
  <2>4. e = MoveLookahead(g, 1)
    BY <1>5, <2>1 DEF Parse
  <2>5. e.first = g.first /\ e.finished = g.finished /\ e.codes = g.codes /\ e.saved = g.saved
    BY <2>2, <2>4, MoveStep
  <2> QED
    BY <1>5, <2>2, <2>3, <2>5 DEF Shape
<1>6. CASE ~ (d.saved.len > 0) /\ m.dist # 0 /\ (d.greedy \/ m.len >= LongMatch)
  <2>1. PICK h : h = record_match(d, m)
    OBVIOUS
  <2>2. /\ IsComp(h) /\ h.first = d.first /\ h.finished = d.finished /\ h.saved = d.saved
        /\ h.codes = Append(d.codes, [u |-> "match", len |-> m.len, dist |-> m.dist])
    BY <2>1, MatchStep
  <2>3. AllCodes(h.codes)
    BY <1>1, <1>2, <2>2, MatchCode, CodesAppend
  <2>4. e = MoveLookahead(h, m.len)
    BY <1>6, <2>1 DEF Parse
  <2>5. e.first = h.first /\ e.finished = h.finished /\ e.codes = h.codes /\ e.saved = h.saved
    BY <2>2, <2>4, MoveStep
  <2> QED
    BY <1>6, <2>2, <2>3, <2>5 DEF Shape
<1>7. CASE ~ (d.saved.len > 0) /\ m.dist # 0 /\ ~ (d.greedy \/ m.len >= LongMatch)
  <2>1. PICK k : k = Defer(d, m)
    OBVIOUS
  <2>2. /\ IsComp(k) /\ k.first = d.first /\ k.finished = d.finished /\ k.codes = d.codes
        /\ k.saved.dist = m.dist
    BY <2>1, DeferStep
  <2>3. e = MoveLookahead(k, 1)
    BY <1>7, <2>1 DEF Parse
  <2>4. e.first = k.first /\ e.finished = k.finished /\ e.codes = k.codes /\ e.saved = k.saved
    BY <2>2, <2>3, MoveStep
  <2> QED
    BY <1>1, <1>2, <2>2, <2>4 DEF Shape
<1> QED
  BY <1>3, <1>4, <1>5, <1>6, <1>7

\* The file, the output of the call in progress and the units that wait.
Sending == IF ppc = "deflate" THEN out ELSE <<>>
Wire(f, o, p) == (f \o o) \o p
Mark(d) == IF d.finished THEN AtEnd ELSE IF d.first THEN AtStart ELSE AtBlock

\* The units come in their order: a header, blocks, a checksum after the last.
WireInv == Shape(z) /\ Framed(Wire(file, Sending, z.pend), AtStart, Mark(z))

LEMMA WireTypes ==
    ASSUME SenderInv
    PROVE  \E S : file \in Seq(S) /\ Sending \in Seq(S) /\ z.pend \in Seq(S)
<1>1. PICK m \in Nat : Encodes(file, 0, m, Stream) /\ OutTrue(Sending, z, m, Stream)
  BY DEF SenderInv, WireTrue, Sending
<1>2. PICK n \in Nat : Encodes(Sending, m, n, Stream) /\ Encodes(z.pend, n, z.cpos, Stream)
  BY <1>1 DEF OutTrue
<1>3. PICK S1 : file \in Seq(S1)
  BY <1>1 DEF Encodes
<1>4. PICK S2 : Sending \in Seq(S2)
  BY <1>2 DEF Encodes
<1>5. PICK S3 : z.pend \in Seq(S3)
  BY <1>2 DEF Encodes
<1> DEFINE S == S1 \cup S2 \cup S3
<1>6. S1 \subseteq S /\ S2 \subseteq S /\ S3 \subseteq S
  OBVIOUS
<1> HIDE DEF S
<1>7. file \in Seq(S) /\ Sending \in Seq(S) /\ z.pend \in Seq(S)
  BY <1>3, <1>4, <1>5, <1>6, SeqMonotonic
<1> QED
  BY <1>7

\* Units move from those that wait to the output.
LEMMA WireMoves ==
    ASSUME NEW S, NEW f \in Seq(S), NEW o \in Seq(S), NEW w \in Seq(S), NEW k \in Nat,
           k <= Len(w)
    PROVE  Wire(f, o \o SubSeq(w, 1, k), SubSeq(w, k + 1, Len(w))) = Wire(f, o, w)
<1>1. PICK a, b : a = SubSeq(w, 1, k) /\ b = SubSeq(w, k + 1, Len(w))
  OBVIOUS
<1>2. a \in Seq(S) /\ b \in Seq(S)
  BY <1>1
<1>3. a \o b = w
  <2>1. Len(w) \in Nat
    OBVIOUS
  <2>2. 1 \in 1 .. Len(w) + 1 /\ k \in 1 - 1 .. Len(w) /\ Len(w) \in k .. Len(w)
    BY <2>1
  <2>3. SubSeq(w, 1, k) \o SubSeq(w, k + 1, Len(w)) = SubSeq(w, 1, Len(w))
    BY <2>2, ConcatAdjacentSubSeq
  <2>4. SubSeq(w, 1, Len(w)) = w
    BY SubSeqFull
  <2> QED
    BY <1>1, <2>3, <2>4
<1>4. PICK g : g = f \o o
  OBVIOUS
<1>5. g \in Seq(S)
  BY <1>4, ConcatProperties
<1>6. \A x \in Seq(S) : \A y \in Seq(S) : \A v \in Seq(S) : (x \o y) \o v = x \o (y \o v)
  BY ONLY ConcatAssociative, SMTT(30)
<1>7. g \o a = f \o (o \o a)
  <2>1. (f \o o) \o a = f \o (o \o a)
    BY <1>6, <1>2, Zenon
  <2> QED
    BY ONLY <1>4, <2>1, Zenon
<1>8. PICK h : h = g \o a
  OBVIOUS
<1>9. h \o b = g \o (a \o b)
  <2>1. (g \o a) \o b = g \o (a \o b)
    BY <1>6, <1>2, <1>5, Zenon
  <2> QED
    BY ONLY <1>8, <2>1, Zenon
<1> QED
  BY <1>1, <1>3, <1>4, <1>7, <1>8, <1>9 DEF Wire

\* A block goes on the wire when nothing waits.
LEMMA WireGrows ==
    ASSUME NEW S, NEW f \in Seq(S), NEW o \in Seq(S), NEW w, NEW k \in Nat, k <= Len(w),
           NEW c, NEW e, Framed(Wire(f, o, <<>>), AtStart, c), Framed(w, c, e)
    PROVE  Framed(Wire(f, o \o SubSeq(w, 1, k), SubSeq(w, k + 1, Len(w))), AtStart, e)
<1>1. PICK S2 : w \in Seq(S2)
  BY DEF Framed
<1> DEFINE T == S \cup S2
<1>2. S \subseteq T /\ S2 \subseteq T
  OBVIOUS
<1> HIDE DEF T
<1>3. f \in Seq(T) /\ o \in Seq(T) /\ w \in Seq(T)
  BY <1>1, <1>2, SeqMonotonic
<1>4. Wire(f, o \o SubSeq(w, 1, k), SubSeq(w, k + 1, Len(w))) = Wire(f, o, w)
  BY <1>3, WireMoves
<1>5. Wire(f, o, <<>>) = f \o o
  <2>1. f \o o \in Seq(T)
    BY <1>3, ConcatProperties
  <2> QED
    BY <2>1, ConcatEmptySeq DEF Wire
<1>6. Framed((f \o o) \o w, AtStart, e)
  BY <1>5, FramedConcat
<1> QED
  BY <1>4, <1>6 DEF Wire

\* A step that leaves the wire and the block alone.
LEMMA WireQuiet ==
    ASSUME WireInv, file' = file, Sending' = Sending, z'.pend = z.pend, z'.codes = z.codes,
           z'.saved = z.saved, z'.first = z.first, z'.finished = z.finished
    PROVE  WireInv'
<1>1. Shape(z')
  BY DEF WireInv, Shape
<1>2. Mark(z') = Mark(z)
  BY DEF Mark
<1>3. Framed(Wire(file', Sending', z'.pend), AtStart, Mark(z'))
  BY <1>2 DEF WireInv
<1>4. WireInv' = (Shape(z') /\ Framed(Wire(file', Sending', z'.pend), AtStart, Mark(z')))
  BY DEF WireInv, Shape, Framed, Wire, Mark, AtStart, AtBlock, AtEnd
<1> QED
  BY <1>1, <1>3, <1>4

LEMMA WireInit ==
    ASSUME Init
    PROVE  WireInv
<1>1. PICK greedy \in Greedy : DeflateInit(greedy)
  BY DEF Init
<1>2. PICK arg \in ModeArgs, target \in Targets : qemu_plugin_install(arg, target)
  BY DEF Init
<1>3. ppc = "guest" /\ file = <<>> /\ z = tdefl_init(greedy)
  BY <1>1, <1>2, Zenon DEF Init, qemu_plugin_install, DeflateInit
<1>4. /\ z.codes = <<>> /\ z.pend = <<>> /\ z.saved.len = 0 /\ z.finished = FALSE
      /\ z.first = TRUE
  BY <1>3 DEF tdefl_init
<1>5. Wire(file, Sending, z.pend) = <<>>
  <2>1. <<>> \in Seq(Nat)
    OBVIOUS
  <2>2. <<>> \o <<>> = <<>>
    BY <2>1, ConcatEmptySeq
  <2> QED
    BY <1>3, <1>4, <2>2 DEF Wire, Sending
<1>6. AllCodes(<<>>)
  <2>1. <<>> \in Seq(Nat) /\ Len(<<>>) = 0
    OBVIOUS
  <2> QED
    BY <2>1 DEF AllCodes
<1>7. Framed(<<>>, AtStart, AtStart)
  BY FramedNone
<1> QED
  BY <1>4, <1>5, <1>6, <1>7 DEF WireInv, Shape, Mark

LEMMA WireQuietSteps ==
    ASSUME WireInv, RecorderInv, SenderInv,
           \/ \E a \in Access : mem_cb(a)
           \/ write_buffer \/ RecordWritten \/ plugin_exit \/ CompressStart \/ CompressAgain
           \/ UNCHANGED <<pluginVars, deflateVars>>
           \/ ppc = "deflate" /\ (CompressLoopEnds \/ DeflateLoop) /\ UNCHANGED pluginVars
    PROVE  WireInv'
<1>1. CASE \E a \in Access : mem_cb(a)
  <2>1. z' = z /\ file' = file /\ ppc # "deflate" /\ ppc' # "deflate"
    BY <1>1 DEF mem_cb, deflateVars
  <2> QED
    BY <2>1, WireQuiet DEF Sending
<1>2. CASE write_buffer \/ RecordWritten \/ plugin_exit
  <2>1. z' = z /\ file' = file /\ ppc # "deflate" /\ ppc' # "deflate"
    BY <1>2 DEF write_buffer, RecordWritten, plugin_exit, deflateVars
  <2> QED
    BY <2>1, WireQuiet DEF Sending
<1>3. CASE CompressStart \/ CompressAgain
  <2>1. /\ z' = z /\ file' = file /\ ppc # "deflate"
        /\ (ppc' = "deflate" => out' = <<>>)
    BY <1>3 DEF CompressStart, CompressAgain, AfterCompress, mz_deflate, deflateVars
  <2> QED
    BY <2>1, WireQuiet DEF Sending
<1>4. CASE UNCHANGED <<pluginVars, deflateVars>>
  <2>1. z' = z /\ file' = file /\ ppc' = ppc /\ out' = out
    BY <1>4 DEF pluginVars, deflateVars
  <2> QED
    BY <2>1, WireQuiet DEF Sending
<1>5. CASE ppc = "deflate" /\ (CompressLoopEnds \/ DeflateLoop) /\ UNCHANGED pluginVars
  <2>1. z' = z /\ file' = file /\ ppc' = ppc /\ out' = out
    BY <1>5 DEF pluginVars, CompressLoopEnds, DeflateLoop
  <2> QED
    BY <2>1, WireQuiet DEF Sending
<1> QED
  BY <1>1, <1>2, <1>3, <1>4, <1>5

LEMMA WireWrite ==
    ASSUME WireInv, SenderInv, CompressWrite
    PROVE  WireInv'
<1>1. SenderControl
  BY DEF SenderInv
<1>2. ppc = "deflate" /\ cpc = "returned" /\ call.status # "STREAM_ERROR"
  BY <1>1 DEF CompressWrite, SenderControl
<1>3. file' = file \o out /\ ppc' \in {"again", "closed", "write"} /\ z' = z
  BY <1>2 DEF CompressWrite, AfterCompress
<1>4. PICK S : file \in Seq(S) /\ Sending \in Seq(S) /\ z.pend \in Seq(S)
  BY WireTypes
<1>5. Sending = out /\ Sending' = <<>>
  BY <1>2, <1>3 DEF Sending
<1>6. Wire(file', <<>>, z.pend) = Wire(file, out, z.pend)
  <2>1. file \o out \in Seq(S)
    BY <1>4, <1>5, ConcatProperties
  <2>2. (file \o out) \o <<>> = file \o out
    BY <2>1, ConcatEmptySeq
  <2> QED
    BY <1>3, <2>2 DEF Wire
<1>7. Framed(Wire(file', Sending', z'.pend), AtStart, Mark(z'))
  BY <1>3, <1>5, <1>6 DEF WireInv
<1>8. Shape(z')
  BY <1>3 DEF WireInv
<1>9. WireInv' = (Shape(z') /\ Framed(Wire(file', Sending', z'.pend), AtStart, Mark(z')))
  BY DEF WireInv, Shape, Framed, Wire, Mark, AtStart, AtBlock, AtEnd
<1> QED
  BY <1>7, <1>8, <1>9

\* tdefl_flush_output_buffer.
LEMMA WireOutput ==
    ASSUME WireInv, SenderInv, ppc = "deflate", UNCHANGED pluginVars, NEW d, IsComp(d),
           d.codes = z.codes, d.saved = z.saved, d.pend = z.pend, d.first = z.first,
           d.finished = z.finished, flush_output_buffer(d)
    PROVE  WireInv'
<1>1. PICK k : k = Min({room, Len(d.pend)})
  OBVIOUS
<1>2. PICK rest : rest = SubSeq(d.pend, k + 1, Len(d.pend))
  OBVIOUS
<1>3. PICK e : e = [d EXCEPT !.pend = rest]
  OBVIOUS
<1>4. /\ out' = out \o SubSeq(d.pend, 1, k)
      /\ z' = [e EXCEPT !.prev = IF e.finished /\ e.pend = <<>> THEN "DONE" ELSE "OKAY"]
  BY <1>1, <1>2, <1>3 DEF flush_output_buffer
<1>5. /\ IsComp(e) /\ e.pend = rest /\ e.codes = z.codes /\ e.saved = z.saved
      /\ e.finished = z.finished /\ e.first = z.first
  BY <1>3 DEF IsComp, CompFields
<1>6. /\ z'.pend = rest /\ z'.codes = z.codes /\ z'.saved = z.saved
      /\ z'.finished = z.finished /\ z'.first = z.first
  BY <1>4, <1>5 DEF IsComp, CompFields
<1>7. PICK S : file \in Seq(S) /\ Sending \in Seq(S) /\ z.pend \in Seq(S)
  BY WireTypes
<1>8. /\ file' = file /\ ppc' = ppc /\ Sending = out /\ Sending' = out'
  BY DEF pluginVars, Sending
<1>9. room \in Nat
  BY DEF SenderInv, SenderControl
<1>10. k \in Nat /\ k <= Len(z.pend)
  <2>1. Len(z.pend) \in Nat
    BY <1>7
  <2> QED
    BY <1>1, <1>9, <2>1, MinOfTwo
<1>11. Wire(file, out \o SubSeq(z.pend, 1, k), SubSeq(z.pend, k + 1, Len(z.pend)))
         = Wire(file, out, z.pend)
  BY <1>7, <1>8, <1>10, WireMoves
<1>12. Wire(file', Sending', z'.pend) = Wire(file, Sending, z.pend)
  BY <1>2, <1>4, <1>6, <1>8, <1>11
<1>13. Shape(z')
  BY <1>6 DEF WireInv, Shape
<1>14. Mark(z') = Mark(z)
  BY <1>6 DEF Mark
<1>15. Framed(Wire(file', Sending', z'.pend), AtStart, Mark(z'))
  BY <1>12, <1>14 DEF WireInv
<1>16. WireInv' = (Shape(z') /\ Framed(Wire(file', Sending', z'.pend), AtStart, Mark(z')))
  BY DEF WireInv, Shape, Framed, Wire, Mark, AtStart, AtBlock, AtEnd
<1> QED
  BY <1>13, <1>15, <1>16

\* tdefl_flush_block for a compressor whose block is that of d, with nothing waiting.
LEMMA WireBlock ==
    ASSUME WireInv, SenderInv, ppc = "deflate", UNCHANGED pluginVars, NEW d, Shape(d),
           z.pend = <<>>, ~ z.finished, d.first = z.first,
           d.total \in Nat, NEW flush \in {"NO", "FINISH"}, NEW raw \in {FALSE, MayBeRaw(d)},
           NEW units, units = BlockUnits(d, flush, raw),
           out' = out \o SubSeq(units, 1, Min({room, Len(units)})),
           z'.pend = SubSeq(units, room + 1, Len(units)), z'.codes = <<>>,
           z'.saved = d.saved, z'.first = FALSE, z'.finished = (flush = "FINISH")
    PROVE  WireInv'
<1>1. PICK k : k = Min({room, Len(units)})
  OBVIOUS
<1>2. PICK S : file \in Seq(S) /\ Sending \in Seq(S) /\ z.pend \in Seq(S)
  BY WireTypes
<1>3. /\ file' = file /\ ppc' = ppc /\ Sending = out /\ Sending' = out'
  BY DEF pluginVars, Sending
<1>4. room \in Nat
  BY DEF SenderInv, SenderControl
<1>5. Framed(units, IF d.first THEN AtStart ELSE AtBlock,
             IF flush = "FINISH" THEN AtEnd ELSE AtBlock)
  BY BlockFramed DEF Shape
<1>6. PICK S2 : units \in Seq(S2)
  BY <1>5 DEF Framed
<1>7. Len(units) \in Nat
  BY <1>6
<1>8. k \in Nat /\ k <= room /\ k <= Len(units) /\ (k = room \/ k = Len(units))
  BY ONLY <1>1, <1>4, <1>7, MinOfTwo
<1>9. z'.pend = SubSeq(units, k + 1, Len(units))
  <2>1. CASE k = room
    BY <2>1
  <2>2. CASE k = Len(units)
    <3>1. SubSeq(units, room + 1, Len(units)) = <<>> /\ SubSeq(units, k + 1, Len(units)) = <<>>
      <4>1. room + 1 \in Int /\ k + 1 \in Int /\ Len(units) \in Int /\ Len(units) < room + 1
            /\ Len(units) < k + 1
        BY ONLY <1>4, <1>7, <1>8, <2>2
      <4> QED
        BY ONLY <4>1, SubSeqEmpty
    <3> QED
      BY <3>1
  <2> QED
    BY <1>8, <2>1, <2>2
<1>10. Framed(Wire(file, out, <<>>), AtStart, IF d.first THEN AtStart ELSE AtBlock)
  BY <1>3 DEF WireInv, Mark
<1>11. Framed(Wire(file, out \o SubSeq(units, 1, k), SubSeq(units, k + 1, Len(units))), AtStart,
              IF flush = "FINISH" THEN AtEnd ELSE AtBlock)
  BY <1>2, <1>3, <1>5, <1>8, <1>10, WireGrows
<1>12. Mark(z') = IF flush = "FINISH" THEN AtEnd ELSE AtBlock
  BY DEF Mark
<1>13. Framed(Wire(file', Sending', z'.pend), AtStart, Mark(z'))
  BY <1>1, <1>3, <1>9, <1>11, <1>12
<1>14. Shape(z')
  <2>1. <<>> \in Seq(Nat) /\ Len(<<>>) = 0
    OBVIOUS
  <2>2. AllCodes(<<>>)
    BY <2>1 DEF AllCodes
  <2> QED
    BY <2>2 DEF Shape
<1>15. WireInv' = (Shape(z') /\ Framed(Wire(file', Sending', z'.pend), AtStart, Mark(z')))
  BY DEF WireInv, Shape, Framed, Wire, Mark, AtStart, AtBlock, AtEnd
<1> QED
  BY <1>13, <1>14, <1>15

LEMMA WireEnter ==
    ASSUME WireInv, RecorderInv, SenderInv, ppc = "deflate", CompressEnter, UNCHANGED pluginVars
    PROVE  WireInv'
<1>1. PICK d : d = [z EXCEPT !.wants = z.wants \/ call.flush = "FINISH"]
  OBVIOUS
<1>2. SenderControl /\ IsComp(z)
  BY RecorderFacts DEF SenderInv
<1>3. /\ IsComp(d) /\ d.codes = z.codes /\ d.saved = z.saved /\ d.pend = z.pend
      /\ d.finished = z.finished /\ d.first = z.first
  BY <1>1, <1>2 DEF IsComp, CompFields
<1>4. cpc = "enter"
  BY DEF CompressEnter
<1>5. z.prev = "OKAY" /\ (z.wants => call.flush = "FINISH")
  BY <1>2, <1>4 DEF SenderControl
<1>6. flush_output_buffer(d) \/ (z' = d /\ out' = out)
  BY <1>1, <1>5 DEF CompressEnter
<1>7. CASE flush_output_buffer(d)
  BY <1>3, <1>7, WireOutput
<1>8. CASE z' = d /\ out' = out
  <2>1. file' = file /\ ppc' = ppc
    BY DEF pluginVars
  <2> QED
    BY <1>3, <1>8, <2>1, WireQuiet DEF Sending
<1> QED
  BY <1>6, <1>7, <1>8

\* Input in the lookahead changes nothing of the block.
LEMMA FillShape ==
    ASSUME NEW d, IsComp(d), NEW bytes, NEW e, e = FillLookahead(d, bytes)
    PROVE  /\ e.first = d.first /\ e.codes = d.codes /\ e.saved = d.saved
           /\ e.finished = d.finished /\ e.pend = d.pend
<1> DEFINE new == FilledWith(d.dict, d.pos + d.look, bytes)
<1> DEFINE size == Min({d.dsize, Dict - (d.look + Len(bytes))})
<1>1. e = [d EXCEPT !.look = d.look + Len(bytes), !.dict = new, !.dsize = size]
  BY Zenon DEF FillLookahead, FilledWith
<1> HIDE DEF new, size
<1> QED
  BY <1>1 DEF IsComp, CompFields

\* Flushed, for the fields that matter here.
LEMMA FlushStep ==
    ASSUME NEW e, IsComp(e), NEW units
    PROVE  LET f == Flushed(e, units)
           IN  /\ IsComp(f) /\ f.codes = <<>> /\ f.first = FALSE /\ f.saved = e.saved
               /\ f.pend = SubSeq(units, room + 1, Len(units)) /\ f.finished = e.finished
<1>1. PICK rest : rest = SubSeq(units, room + 1, Len(units))
  OBVIOUS
<1>2. Flushed(e, units) = [e EXCEPT !.cpos = e.cpos + e.total, !.total = 0, !.codes = <<>>,
                                    !.first = FALSE, !.pend = rest]
  BY <1>1 DEF Flushed
<1> QED
  BY <1>1, <1>2 DEF IsComp, CompFields

LEMMA WireIterate ==
    ASSUME WireInv, RecorderInv, SenderInv, ppc = "deflate", CompressIterate,
           UNCHANGED pluginVars
    PROVE  WireInv'
<1>1. PICK d : /\ IsComp(d) /\ DictHolds(d, Stream) /\ d.pos + d.look <= Len(Stream)
               /\ (\E bytes : d = FillLookahead(z, bytes)) /\ Iterated(d)
  BY IterateFills
<1>2. cpc = "loop"
  BY DEF CompressIterate
<1>3. Sent(z, Stream) /\ SenderControl /\ IsComp(z) /\ Stream \in Seq(Nat)
  BY RecorderFacts DEF SenderInv
<1>4. ~ z.finished /\ z.pend = <<>> /\ z.finished = FALSE
  <2>1. ~ z.finished /\ z.pend = <<>>
    BY <1>2, <1>3 DEF SenderControl
  <2> QED
    BY <2>1
<1>5. /\ d.codes = z.codes /\ d.saved = z.saved /\ d.first = z.first
      /\ d.pend = z.pend /\ d.finished = z.finished
  BY <1>1, <1>3, FillShape
<1>6. Shape(d)
  BY <1>5 DEF WireInv, Shape
<1>7. file' = file /\ ppc' = ppc
  BY DEF pluginVars
<1>8. CASE z' = d /\ cpc' = "tail" /\ UNCHANGED <<out, room>>
  BY <1>5, <1>7, <1>8, WireQuiet DEF Sending
<1>9. CASE /\ d.look >= 1
           /\ \E m \in find_match(d) :
             \/ /\ \E raw \in {FALSE, MayBeRaw(Parse(d, m))} : flush_block(Parse(d, m), "NO", raw)
                /\ cpc' = IF z'.pend # <<>> THEN "tail" ELSE "loop"
             \/ z' = Parse(d, m) /\ UNCHANGED <<out, room, cpc>>
  <2>1. PICK m \in find_match(d) :
             \/ /\ \E raw \in {FALSE, MayBeRaw(Parse(d, m))} : flush_block(Parse(d, m), "NO", raw)
                /\ cpc' = IF z'.pend # <<>> THEN "tail" ELSE "loop"
             \/ z' = Parse(d, m) /\ UNCHANGED <<out, room, cpc>>
    BY <1>9
  <2>2. PICK e : e = Parse(d, m)
    OBVIOUS
  <2>3. Shape(e) /\ e.first = d.first /\ e.finished = d.finished
    BY <1>1, <1>6, <2>2, ParseShape
  <2>4. IsComp(e)
    <3>1. Kept(d, e, Stream)
      BY <1>1, <1>9, <2>2, ParseKeeps
    <3> QED
      BY <3>1 DEF Kept
  <2>5. Sent(e, Stream) /\ SameMarks(d, e)
    <3>1. Sent(d, Stream)
      <4>1. PICK bytes : d = FillLookahead(z, bytes)
        BY <1>1
      <4>2. d.pos = z.pos /\ d.cpos = z.cpos /\ d.total = z.total
        BY <1>3, <4>1, FillFields
      <4> QED
        BY <1>3, <1>5, <4>2, SentSame
    <3> QED
      BY <1>1, <1>3, <1>9, <2>2, <3>1, ParseSent
  <2>6. e.pend = <<>> /\ e.total \in Nat
    BY <1>4, <1>5, <2>5 DEF SameMarks, Sent
  <2>7. CASE z' = e /\ UNCHANGED <<out, room, cpc>>
    <3>1. Wire(file', Sending', z'.pend) = Wire(file, Sending, z.pend)
      BY <1>4, <1>7, <2>6, <2>7 DEF Sending
    <3>2. Mark(z') = Mark(z)
      BY <1>5, <2>3, <2>7 DEF Mark
    <3>3. Framed(Wire(file', Sending', z'.pend), AtStart, Mark(z'))
      BY <3>1, <3>2 DEF WireInv
    <3>4. Shape(z')
      BY <2>3, <2>7
    <3>5. WireInv' = (Shape(z') /\ Framed(Wire(file', Sending', z'.pend), AtStart, Mark(z')))
      BY DEF WireInv, Shape, Framed, Wire, Mark, AtStart, AtBlock, AtEnd
    <3> QED
      BY <3>3, <3>4, <3>5
  <2>8. CASE \E raw \in {FALSE, MayBeRaw(e)} : flush_block(e, "NO", raw)
    <3>1. PICK raw \in {FALSE, MayBeRaw(e)} : flush_block(e, "NO", raw)
      BY <2>8
    <3>2. PICK units : units = BlockUnits(e, "NO", raw)
      OBVIOUS
    <3>3. /\ z' = Flushed(e, units)
          /\ out' = out \o SubSeq(units, 1, Min({room, Len(units)}))
      BY <3>1, <3>2 DEF flush_block
    <3>4. /\ z'.codes = <<>> /\ z'.first = FALSE /\ z'.saved = e.saved
          /\ z'.pend = SubSeq(units, room + 1, Len(units)) /\ z'.finished = e.finished
      BY <2>4, <3>3, FlushStep
    <3>5. z'.finished = ("NO" = "FINISH") /\ e.first = z.first
      BY <1>4, <1>5, <2>3, <3>4
    <3> QED
      BY <1>4, <2>3, <2>6, <3>1, <3>2, <3>3, <3>4, <3>5, WireBlock
  <2> QED
    BY <2>1, <2>2, <2>7, <2>8
<1> QED
  BY <1>1, <1>8, <1>9 DEF Iterated

LEMMA WireTail ==
    ASSUME WireInv, RecorderInv, SenderInv, ppc = "deflate", CompressTail, UNCHANGED pluginVars
    PROVE  WireInv'
<1> DEFINE d == [z EXCEPT !.adler = mz_adler32(z.adler, taken)]
<1> DEFINE ends == call.flush # "NO" /\ d.look = 0 /\ src = <<>> /\ d.pend = <<>>
<1> DEFINE Units(raw) == BlockUnits(d, call.flush, raw)
<1> DEFINE Last(raw) == [Flushed(d, Units(raw)) EXCEPT
                            !.finished = call.flush = "FINISH",
                            !.dsize = IF call.flush = "FULL" THEN 0 ELSE @]
<1> DEFINE Ends(raw) ==
      /\ z' = [Last(raw) EXCEPT !.prev = IF Last(raw).finished /\ Last(raw).pend = <<>>
                                        THEN "DONE" ELSE "OKAY"]
      /\ out' = out \o SubSeq(Units(raw), 1, Min({room, Len(Units(raw))}))
      /\ room' = room - Min({room, Len(Units(raw))})
<1>1. /\ ends => \E raw \in {FALSE, MayBeRaw(d)} : Ends(raw)
      /\ ~ ends => flush_output_buffer(d)
  BY Zenon DEF CompressTail
<1>2. cpc = "tail"
  BY DEF CompressTail
<1>3. /\ Sent(z, Stream) /\ SenderControl /\ IsComp(z) /\ call.flush \in {"NO", "FINISH"}
  BY RecorderFacts DEF SenderInv
<1>4. ~ z.finished
  BY <1>2, <1>3 DEF SenderControl
<1>5. /\ IsComp(d) /\ d.total = z.total /\ d.codes = z.codes /\ d.saved = z.saved
      /\ d.pend = z.pend /\ d.finished = z.finished /\ d.first = z.first
  BY <1>3 DEF IsComp, CompFields
<1> HIDE DEF d
<1>6. Shape(d) /\ d.total \in Nat
  BY <1>3, <1>5 DEF WireInv, Shape, Sent
<1>7. CASE ~ ends
  <2>1. flush_output_buffer(d)
    BY <1>1, <1>7
  <2> QED
    BY <1>5, <2>1, WireOutput
<1>8. CASE ends
  <2>1. call.flush = "FINISH" /\ z.pend = <<>>
    BY <1>3, <1>5, <1>8
  <2>2. PICK raw \in {FALSE, MayBeRaw(d)} : Ends(raw)
    BY <1>1, <1>8, Zenon
  <2>3. PICK units : units = BlockUnits(d, "FINISH", raw)
    OBVIOUS
  <2>5. PICK f : f = Flushed(d, units)
    OBVIOUS
  <2>6. PICK e : e = [f EXCEPT !.finished = call.flush = "FINISH",
                               !.dsize = IF call.flush = "FULL" THEN 0 ELSE @]
    OBVIOUS
  <2>7. /\ z' = [e EXCEPT !.prev = IF e.finished /\ e.pend = <<>> THEN "DONE" ELSE "OKAY"]
        /\ out' = out \o SubSeq(units, 1, Min({room, Len(units)}))
    BY <2>1, <2>2, <2>3, <2>5, <2>6
  <2>8. /\ IsComp(f) /\ f.codes = <<>> /\ f.first = FALSE /\ f.saved = d.saved
        /\ f.pend = SubSeq(units, room + 1, Len(units))
    BY <1>5, <2>5, FlushStep
  <2>9. /\ IsComp(e) /\ e.codes = f.codes /\ e.first = f.first /\ e.saved = f.saved
        /\ e.pend = f.pend /\ e.finished = TRUE
    BY <2>1, <2>6, <2>8 DEF IsComp, CompFields
  <2>10. /\ z'.codes = e.codes /\ z'.first = e.first /\ z'.saved = e.saved
         /\ z'.pend = e.pend /\ z'.finished = e.finished
    BY <2>7, <2>9 DEF IsComp, CompFields
  <2>11. /\ z'.codes = <<>> /\ z'.first = FALSE /\ z'.saved = d.saved
         /\ z'.pend = SubSeq(units, room + 1, Len(units))
         /\ z'.finished = ("FINISH" = "FINISH")
    BY <2>8, <2>9, <2>10
  <2> QED
    BY <1>4, <1>5, <1>6, <2>1, <2>2, <2>3, <2>7, <2>11, WireBlock
<1> QED
  BY <1>7, <1>8

LEMMA WireStep ==
    ASSUME RecorderInv, SenderInv, WireInv, [Next]_vars
    PROVE  WireInv'
<1>1. CASE \/ \E a \in Access : mem_cb(a)
           \/ write_buffer \/ RecordWritten \/ plugin_exit \/ CompressStart \/ CompressAgain
  BY <1>1, WireQuietSteps
<1>2. CASE CompressWrite
  BY <1>2, WireWrite
<1>3. CASE ppc = "deflate" /\ DeflateNext /\ UNCHANGED <<pluginVars, readerVars, inflateVars>>
  <2>1. ppc = "deflate" /\ UNCHANGED pluginVars
    BY <1>3
  <2>2. CASE CompressEnter \/ CompressIterate \/ CompressTail
    BY <2>1, <2>2, WireEnter, WireIterate, WireTail
  <2>3. CASE CompressLoopEnds \/ DeflateLoop
    BY <2>1, <2>3, WireQuietSteps
  <2> QED
    BY <1>3, <2>2, <2>3 DEF DeflateNext
<1>4. CASE ReaderNext
  <2>1. UNCHANGED <<pluginVars, deflateVars>>
    BY <1>4, Zenon DEF ReaderNext, OpenTrace, RunTrace, get_content_of_trace, ReadChunk,
                       InflateChunk, ChunkInflated
  <2> QED
    BY <2>1, WireQuietSteps
<1>5. CASE UNCHANGED vars
  <2>1. UNCHANGED <<pluginVars, deflateVars>>
    BY <1>5 DEF vars
  <2> QED
    BY <2>1, WireQuietSteps
<1> QED
  BY <1>1, <1>2, <1>3, <1>4, <1>5 DEF Next, PluginNext

\* What the reader finds in a file whose stream is ended: units in their order
\* that stand for the bytes of the stream, all of them.
TrueFile(F, S) == Encodes(F, 0, Len(S), S) /\ Framed(F, AtStart, AtEnd)

LEMMA EndedFile ==
    ASSUME SenderInv, WireInv, StreamEnded
    PROVE  TrueFile(file, Stream)
<1>1. ppc = "closed" /\ z.pend = <<>> /\ z.cpos = Len(Stream) /\ z.finished
  BY DEF StreamEnded, SenderInv, SenderControl
<1>2. PICK m \in Nat : Encodes(file, 0, m, Stream) /\ OutTrue(<<>>, z, m, Stream)
  BY <1>1 DEF SenderInv, WireTrue
<1>3. PICK n \in Nat : Encodes(<<>>, m, n, Stream) /\ Encodes(<<>>, n, z.cpos, Stream)
  BY <1>1, <1>2 DEF OutTrue
<1>4. m = n /\ n = z.cpos
  BY <1>3, NoneEncodes
<1>5. PICK S : file \in Seq(S)
  BY WireTypes
<1>6. Wire(file, Sending, z.pend) = file
  BY <1>1, <1>5, ConcatEmptySeq DEF Wire, Sending
<1>7. Framed(file, AtStart, AtEnd)
  BY <1>1, <1>6 DEF WireInv, Mark
<1> QED
  BY <1>1, <1>2, <1>4, <1>7 DEF TrueFile

-----------------------------------------------------------------------------
(* The trace reader: the decompressor.                                       *)

\* What the next unit can be, by where the wire is.
LEMMA NextAtStart ==
    ASSUME NEW u, NEW e, NEW p, NEW q, NEW s, Frame(u, AtStart, e), Codes(u, p, q, s)
    PROVE  u.u = "header" /\ e = AtBlock /\ q = p
<1>1. u.u = "header" /\ e = AtBlock
  BY DEF Frame, AtStart, AtBlock, InCodes, AfterBlock, InRaw, AtEnd
<1> QED
  BY <1>1 DEF Codes

LEMMA NextAtBlock ==
    ASSUME NEW u, NEW e, NEW p, NEW q, NEW s, Frame(u, AtBlock, e), Codes(u, p, q, s)
    PROVE  /\ u.u = "block" /\ u.final \in BOOLEAN /\ q = p
           /\ (u.raw = -1 /\ e = InCodes(u.final)) \/ (u.raw \in Nat /\ e = InRaw(u.raw, u.final))
<1>1. /\ u.u = "block" /\ u.final \in BOOLEAN
      /\ (u.raw = -1 /\ e = InCodes(u.final)) \/ (u.raw \in Nat /\ e = InRaw(u.raw, u.final))
  <2>1. \A f \in BOOLEAN : AtBlock # InCodes(f) /\ \A n \in Nat : AtBlock # <<"raw", n + 1, f>>
    BY DEF AtBlock, InCodes
  <2>2. AtBlock # AtStart /\ AtBlock # AfterBlock(TRUE)
    BY DEF AtBlock, AtStart, AfterBlock
  <2> QED
    BY <2>1, <2>2 DEF Frame
<1> QED
  BY <1>1 DEF Codes

LEMMA NextInRaw ==
    ASSUME NEW u, NEW n \in Nat, n > 0, NEW f \in BOOLEAN, NEW e, NEW p, NEW q, NEW s,
           Frame(u, InRaw(n, f), e), Codes(u, p, q, s)
    PROVE  u.u = "byte" /\ e = InRaw(n - 1, f) /\ q = p + 1 /\ LitAt(u.x, p, s)
<1>0. InRaw(n, f) = <<"raw", n, f>>
  BY DEF InRaw
<1>1. u.u = "byte" /\ e = InRaw(n - 1, f)
  <2>1. \A g \in BOOLEAN : InRaw(n, f) # InCodes(g)
    BY <1>0 DEF InCodes
  <2>2. /\ InRaw(n, f) # AtStart /\ InRaw(n, f) # AfterBlock(TRUE)
        /\ InRaw(n, f) # AtBlock
    BY <1>0 DEF AtBlock, AtStart, AfterBlock
  <2>3. \A m \in Nat, g \in BOOLEAN : InRaw(n, f) = <<"raw", m + 1, g>> => m = n - 1 /\ g = f
    BY <1>0
  <2> QED
    BY <2>1, <2>2, <2>3 DEF Frame
<1> QED
  BY <1>1 DEF Codes

LEMMA NextInCodes ==
    ASSUME NEW u, NEW f \in BOOLEAN, NEW e, NEW p, NEW q, NEW s,
           Frame(u, InCodes(f), e), Codes(u, p, q, s)
    PROVE  \/ u.u = "lit" /\ e = InCodes(f) /\ q = p + 1 /\ LitAt(u.x, p, s)
           \/ /\ u.u = "match" /\ e = InCodes(f) /\ q = p + u.len /\ MatchAt(u.len, u.dist, p, s)
              /\ u.dist <= Dict
           \/ u.u = "eob" /\ e = AfterBlock(f) /\ q = p
<1>1. \/ IsCode(u) /\ e = InCodes(f)
      \/ u.u = "eob" /\ e = AfterBlock(f)
  <2>1. \A n \in Nat, g \in BOOLEAN : InCodes(f) # <<"raw", n + 1, g>>
    BY DEF InCodes
  <2>2. /\ InCodes(f) # AtStart /\ InCodes(f) # AfterBlock(TRUE)
        /\ InCodes(f) # AtBlock
    BY DEF AtBlock, AtStart, AfterBlock, InCodes
  <2>3. \A g \in BOOLEAN : InCodes(f) = InCodes(g) => g = f
    BY DEF InCodes
  <2> QED
    BY <2>1, <2>2, <2>3 DEF Frame
<1> QED
  BY <1>1 DEF Codes, IsCode

LEMMA NextAtCheck ==
    ASSUME NEW u, NEW e, NEW p, NEW q, NEW s, Frame(u, AfterBlock(TRUE), e), Codes(u, p, q, s)
    PROVE  u.u = "adler" /\ e = AtEnd /\ q = p
<1>1. u.u = "adler" /\ e = AtEnd
  <2>1. \A f \in BOOLEAN : /\ AfterBlock(TRUE) # InCodes(f)
                           /\ \A n \in Nat : AfterBlock(TRUE) # <<"raw", n + 1, f>>
    BY DEF AfterBlock, InCodes
  <2>2. AfterBlock(TRUE) # AtStart /\ AfterBlock(TRUE) # AtBlock
    BY DEF AtBlock, AtStart, AfterBlock
  <2> QED
    BY <2>1, <2>2 DEF Frame
<1> QED
  BY <1>1 DEF Codes

LEMMA NoneAtEnd ==
    ASSUME NEW u, NEW e, Frame(u, AtEnd, e)
    PROVE  FALSE
<1>1. \A f \in BOOLEAN : AtEnd # InCodes(f) /\ \A n \in Nat : AtEnd # <<"raw", n + 1, f>>
  BY DEF AtEnd, InCodes
<1>2. AtEnd # AtStart /\ AtEnd # AtBlock /\ AtEnd # AfterBlock(TRUE)
  BY DEF AtBlock, AtStart, AfterBlock, AtEnd
<1> QED
  BY <1>1, <1>2 DEF Frame

\* Two positions that differ by some dictionaries have the same place.
LEMMA SamePlace ==
    ASSUME NEW a \in Int, NEW q \in Int
    PROVE  (a + q * Dict) % Dict = a % Dict
<1>1. PICK n : n = Dict
  OBVIOUS
<1>2. n \in Nat /\ n > 0
  BY <1>1, DeflateAssumption
<1>3. PICK b : b = a + q * n
  OBVIOUS
<1>4. b \in Int
  BY <1>2, <1>3
<1>5. /\ a = n * (a \div n) + (a % n) /\ b = n * (b \div n) + (b % n)
      /\ a \div n \in Int /\ b \div n \in Int
      /\ a % n \in Int /\ b % n \in Int /\ 0 <= a % n /\ a % n < n /\ 0 <= b % n /\ b % n < n
  BY <1>2, <1>4
<1>6. PICK x, y, r, t : x = a \div n /\ y = b \div n /\ r = a % n /\ t = b % n
  OBVIOUS
<1>7. PICK k : k = y - x - q
  OBVIOUS
<1>8. k \in Int /\ r - t = n * k
  <2>1. /\ x \in Int /\ y \in Int /\ r \in Int /\ t \in Int /\ a = n * x + r /\ b = n * y + t
    BY <1>5, <1>6
  <2>2. k \in Int
    BY <1>7, <2>1
  <2>3. PICK nx, ny, nq : nx = n * x /\ ny = n * y /\ nq = n * q
    OBVIOUS
  <2>4. nx \in Int /\ ny \in Int /\ nq \in Int /\ q * n = nq
    BY <1>2, <2>1, <2>3
  <2>5. n * k = ny - nx - nq
    BY ONLY <1>2, <1>7, <2>1, <2>3, q \in Int
  <2>6. nx + r + nq = ny + t
    BY <1>3, <2>1, <2>3, <2>4
  <2> QED
    BY ONLY <2>1, <2>2, <2>4, <2>5, <2>6
<1>9. r \in Int /\ t \in Int /\ r - t < n /\ t - r < n
  <2>1. r \in Int /\ t \in Int /\ 0 <= r /\ r < n /\ 0 <= t /\ t < n
    BY ONLY <1>5, <1>6
  <2> QED
    BY ONLY <1>2, <2>1
<1>10. k = 0
  <2>1. CASE k >= 1
    <3>1. n * k >= n
      BY ONLY <1>2, <1>8, <2>1
    <3> QED
      BY ONLY <1>2, <1>8, <1>9, <3>1
  <2>2. CASE k <= -1
    <3>1. n * k <= -n
      BY ONLY <1>2, <1>8, <2>2
    <3> QED
      BY ONLY <1>2, <1>8, <1>9, <3>1
  <2> QED
    BY <1>8, <2>1, <2>2
<1>11. r = t
  BY ONLY <1>2, <1>8, <1>9, <1>10
<1> QED
  BY <1>1, <1>3, <1>6, <1>11

\* A place and the places after it, as they follow in the window.
LEMMA PlaceAfter ==
    ASSUME NEW a \in Nat, NEW k \in Nat
    PROVE  ((a % Dict) + k) % Dict = (a + k) % Dict
<1>1. Dict \in Nat /\ Dict > 0
  BY DeflateAssumption
<1>2. PICK q, r : q = a \div Dict /\ r = a % Dict
  OBVIOUS
<1>3. q \in Int /\ r \in Int /\ a = Dict * q + r
  BY <1>1, <1>2
<1>4. (r + k) + q * Dict = a + k /\ r + k \in Int
  BY <1>1, <1>3
<1>5. ((r + k) + q * Dict) % Dict = (r + k) % Dict
  BY ONLY <1>3, <1>4, SamePlace
<1> QED
  BY <1>2, <1>4, <1>5

LEMMA PlaceInside ==
    ASSUME NEW a \in Nat, NEW k \in Nat, (a % Dict) + k < Dict
    PROVE  (a + k) % Dict = (a % Dict) + k
<1>1. Dict \in Nat /\ Dict > 0
  BY DeflateAssumption
<1>2. PICK r : r = (a % Dict) + k
  OBVIOUS
<1>3. r \in 0 .. Dict - 1
  BY <1>1, <1>2
<1>4. r % Dict = r
  BY <1>1, <1>3
<1> QED
  BY <1>2, <1>4, PlaceAfter

InfFields == {"pc", "ahead", "took", "n", "counter", "dist", "from", "final", "back",
              "check", "sum"}
IsInf(d) == DOMAIN d = InfFields

\* The file F of units T: the stream s it stands for, and where each unit ends.
Path(F, T, s, pos, ctl) ==
    /\ F \in Seq(T) /\ s \in Seq(Nat)
    /\ pos \in [0 .. Len(F) -> Nat] /\ pos[0] = 0 /\ pos[Len(F)] = Len(s)
    /\ ctl[0] = AtStart
    /\ \A i \in 1 .. Len(F) : Codes(F[i], pos[i - 1], pos[i], s) /\ Frame(F[i], ctl[i - 1], ctl[i])

LEMMA FilePath ==
    ASSUME NEW F, NEW s \in Seq(Nat), TrueFile(F, s)
    PROVE  \E T, pos, ctl : Path(F, T, s, pos, ctl)
<1>1. Encodes(F, 0, Len(s), s) /\ Framed(F, AtStart, AtEnd)
  BY DEF TrueFile
<1>2. PICK T : F \in Seq(T)
  BY <1>1 DEF Encodes
<1>3. PICK pos \in [0 .. Len(F) -> Nat] :
         /\ pos[0] = 0 /\ pos[Len(F)] = Len(s)
         /\ \A i \in 1 .. Len(F) : Codes(F[i], pos[i - 1], pos[i], s)
  BY <1>1 DEF Encodes
<1>4. PICK ctl : ctl[0] = AtStart /\ \A i \in 1 .. Len(F) : Frame(F[i], ctl[i - 1], ctl[i])
  BY <1>1 DEF Framed
<1>5. Path(F, T, s, pos, ctl)
  BY <1>2, <1>3, <1>4 DEF Path
<1> QED
  BY <1>5

\* The decoder has used the first j units of F; those up to fp wait in its bit
\* buffer a and in the input buffer b.
Unread(a, b, j, fp, F, T) ==
    /\ a \in Seq(T) /\ b \in Seq(T) /\ j \in Nat /\ fp \in Nat /\ fp <= Len(F)
    /\ fp = j + Len(a) + Len(b)
    /\ Continues(a, j, F) /\ Continues(b, j + Len(a), F)

\* The next unit comes from the bit buffer, else from the input buffer.
LEMMA NextIsNext ==
    ASSUME NEW F, NEW T, NEW a, NEW b, NEW j, NEW fp, F \in Seq(T), Unread(a, b, j, fp, F, T),
           a # <<>> \/ b # <<>>
    PROVE  j + 1 \in 1 .. Len(F) /\ Head(a \o b) = F[j + 1]
<1>1. /\ a \in Seq(T) /\ b \in Seq(T) /\ j \in Nat /\ fp \in Nat /\ fp <= Len(F)
      /\ fp = j + Len(a) + Len(b) /\ Len(F) \in Nat /\ Len(a) \in Nat /\ Len(b) \in Nat
  BY DEF Unread
<1>2. Len(a) + Len(b) >= 1
  BY <1>1, EmptySeq
<1>3. Head(a \o b) = (a \o b)[1]
  OBVIOUS
<1>4. CASE a # <<>>
  <2>1. 1 \in 1 .. Len(a)
    BY <1>1, <1>4
  <2>2. (a \o b)[1] = a[1]
    BY <1>1, <2>1, ConcatProperties
  <2> QED
    BY <1>1, <1>2, <1>3, <2>1, <2>2 DEF Unread, Continues
<1>5. CASE a = <<>>
  <2>1. 1 \in 1 .. Len(b) /\ Len(a) = 0
    BY <1>1, <1>2, <1>5
  <2>2. a \o b = b
    BY <1>1, <1>5
  <2>3. j + Len(a) + 1 = j + 1
    BY <1>1, <2>1
  <2> QED
    BY <1>1, <1>2, <1>3, <2>1, <2>2, <2>3 DEF Unread, Continues
<1> QED
  BY <1>4, <1>5

LEMMA TakeAhead ==
    ASSUME NEW F, NEW T, NEW a, NEW b, NEW j, NEW fp, Unread(a, b, j, fp, F, T), a # <<>>
    PROVE  Unread(Tail(a), b, j + 1, fp, F, T)
<1>1. /\ a \in Seq(T) /\ b \in Seq(T) /\ j \in Nat /\ fp \in Nat /\ fp <= Len(F)
      /\ fp = j + Len(a) + Len(b) /\ Len(a) \in Nat /\ Len(b) \in Nat
  BY DEF Unread
<1>2. PICK c : c = Tail(a)
  OBVIOUS
<1>3. c \in Seq(T) /\ Len(c) = Len(a) - 1 /\ \A k \in 1 .. Len(c) : c[k] = a[k + 1]
  BY <1>1, <1>2
<1>4. Continues(c, j + 1, F)
  <2>1. ASSUME NEW k \in 1 .. Len(c) PROVE c[k] = F[(j + 1) + k]
    <3>1. k + 1 \in 1 .. Len(a) /\ j + (k + 1) = (j + 1) + k
      BY <1>1, <1>3
    <3>2. a[k + 1] = F[j + (k + 1)]
      BY <3>1 DEF Unread, Continues
    <3> QED
      BY <1>3, <3>1, <3>2
  <2> QED
    BY <2>1 DEF Continues
<1>5. (j + 1) + Len(c) = j + Len(a) /\ j + 1 \in Nat
  BY <1>1, <1>3
<1>6. Continues(b, (j + 1) + Len(c), F)
  BY <1>5 DEF Unread
<1> QED
  BY <1>1, <1>2, <1>3, <1>4, <1>5, <1>6 DEF Unread

LEMMA TakeInput ==
    ASSUME NEW F, NEW T, NEW a, NEW b, NEW j, NEW fp, Unread(a, b, j, fp, F, T), a = <<>>,
           b # <<>>
    PROVE  Unread(a, Tail(b), j + 1, fp, F, T)
<1>1. /\ a \in Seq(T) /\ b \in Seq(T) /\ j \in Nat /\ fp \in Nat /\ fp <= Len(F)
      /\ fp = j + Len(a) + Len(b) /\ Len(a) = 0 /\ Len(b) \in Nat
  BY DEF Unread
<1>2. PICK c : c = Tail(b)
  OBVIOUS
<1>3. c \in Seq(T) /\ Len(c) = Len(b) - 1 /\ \A k \in 1 .. Len(c) : c[k] = b[k + 1]
  BY <1>1, <1>2
<1>4. Continues(c, (j + 1) + Len(a), F)
  <2>1. ASSUME NEW k \in 1 .. Len(c) PROVE c[k] = F[((j + 1) + Len(a)) + k]
    <3>1. k + 1 \in 1 .. Len(b) /\ (j + Len(a)) + (k + 1) = ((j + 1) + Len(a)) + k
      BY <1>1, <1>3
    <3>2. b[k + 1] = F[(j + Len(a)) + (k + 1)]
      BY <3>1 DEF Unread, Continues
    <3> QED
      BY <1>3, <3>1, <3>2
  <2> QED
    BY <2>1 DEF Continues
<1>5. Continues(a, j + 1, F)
  BY <1>1 DEF Continues
<1>6. fp = (j + 1) + Len(a) + Len(c) /\ j + 1 \in Nat
  BY <1>1, <1>3
<1> QED
  BY <1>1, <1>2, <1>3, <1>4, <1>5, <1>6 DEF Unread

\* Units go from the one buffer to the other: a \o b stays.
LEMMA Rebuffer ==
    ASSUME NEW F, NEW T, NEW a, NEW b, NEW c, NEW d, NEW j, NEW fp, Unread(a, b, j, fp, F, T),
           c \in Seq(T), d \in Seq(T), c \o d = a \o b
    PROVE  Unread(c, d, j, fp, F, T)
<1>1. /\ a \in Seq(T) /\ b \in Seq(T) /\ j \in Nat /\ fp \in Nat /\ fp <= Len(F)
      /\ fp = j + Len(a) + Len(b)
      /\ Len(a) \in Nat /\ Len(b) \in Nat /\ Len(c) \in Nat /\ Len(d) \in Nat
  BY DEF Unread
<1>2. PICK w : w = a \o b
  OBVIOUS
<1>3. /\ Len(w) = Len(a) + Len(b) /\ Len(w) = Len(c) + Len(d)
  BY <1>1, <1>2, ConcatProperties
<1>4. \A k \in 1 .. Len(w) : w[k] = F[j + k]
  <2>1. ASSUME NEW k \in 1 .. Len(w) PROVE w[k] = F[j + k]
    <3>1. CASE k <= Len(a)
      <4>1. w[k] = a[k] /\ k \in 1 .. Len(a)
        BY <1>1, <1>2, <1>3, <3>1, ConcatProperties
      <4> QED
        BY <4>1 DEF Unread, Continues
    <3>2. CASE k > Len(a)
      <4>1. PICK i : i = k - Len(a)
        OBVIOUS
      <4>2. i \in 1 .. Len(b) /\ (j + Len(a)) + i = j + k
        BY <1>1, <1>3, <3>2, <4>1
      <4>3. w[k] = b[i]
        BY <1>1, <1>2, <1>3, <3>2, <4>1, ConcatProperties
      <4> QED
        BY <4>2, <4>3 DEF Unread, Continues
    <3> QED
      BY <1>1, <1>3, <3>1, <3>2
  <2> QED
    BY <2>1
<1>5. Continues(c, j, F)
  <2>1. ASSUME NEW k \in 1 .. Len(c) PROVE c[k] = F[j + k]
    <3>1. k \in 1 .. Len(w)
      BY <1>1, <1>3
    <3>2. w[k] = c[k]
      BY <1>1, <1>2, <1>3, ConcatProperties
    <3> QED
      BY <1>4, <3>1, <3>2
  <2> QED
    BY <2>1 DEF Continues
<1>6. Continues(d, j + Len(c), F)
  <2>1. ASSUME NEW k \in 1 .. Len(d) PROVE d[k] = F[(j + Len(c)) + k]
    <3>1. PICK i : i = Len(c) + k
      OBVIOUS
    <3>2. i \in 1 .. Len(w) /\ j + i = (j + Len(c)) + k /\ i > Len(c) /\ i - Len(c) = k
      BY <1>1, <1>3, <3>1
    <3>3. w = c \o d
      BY <1>2
    <3>4. (c \o d)[i] = d[i - Len(c)]
      <4>1. i \in 1 .. Len(c) + Len(d) /\ ~ (i <= Len(c))
        BY <1>1, <1>3, <3>2
      <4> QED
        BY ONLY c \in Seq(T), d \in Seq(T), <4>1, ConcatProperties
    <3> QED
      BY <1>4, <3>2, <3>3, <3>4
  <2> QED
    BY <2>1 DEF Continues
<1>7. fp = j + Len(c) + Len(d)
  BY ONLY <1>1, <1>3
<1> QED
  BY <1>1, <1>5, <1>6, <1>7 DEF Unread

\* What the decoder is doing after the units that end at place c of the wire and
\* at position q of stream s, when it has written the first p bytes.
Doing(d, c, q, p, s) ==
    \/ d.pc = "header" /\ c = AtStart /\ q = p
    \/ d.pc = "block" /\ c = AtBlock /\ q = p
    \/ /\ d.pc = "raw" /\ d.counter \in Nat /\ d.final \in BOOLEAN
       /\ c = InRaw(d.counter, d.final) /\ q = p
    \/ d.pc = "codes" /\ d.final \in BOOLEAN /\ c = InCodes(d.final) /\ q = p
    \/ /\ d.pc = "put" /\ d.final \in BOOLEAN
       /\ \/ d.back = "codes" /\ c = InCodes(d.final)
          \/ d.back = "raw" /\ d.counter \in Nat /\ c = InRaw(d.counter, d.final)
       /\ q = p + 1 /\ LitAt(d.dist, p, s)
    \/ /\ d.pc = "copy" /\ d.final \in BOOLEAN /\ c = InCodes(d.final)
       /\ q = p + d.counter /\ MatchAt(d.counter, d.dist, p, s) /\ d.dist <= Dict
       /\ d.from \in Nat /\ \E k \in Nat : p = d.from + k * Dict
    \/ d.pc = "check" /\ c = AfterBlock(TRUE) /\ q = p
    \/ d.pc = "done" /\ c = AtEnd /\ q = p

SameDoing(d, e) ==
    /\ e.pc = d.pc /\ e.counter = d.counter /\ e.dist = d.dist /\ e.from = d.from
    /\ e.final = d.final /\ e.back = d.back

LEMMA DoingSame ==
    ASSUME NEW d, NEW e, NEW c, NEW q, NEW p, NEW s, Doing(d, c, q, p, s), SameDoing(d, e)
    PROVE  Doing(e, c, q, p, s)
  BY DEF Doing, SameDoing

LEMMA DoHeader ==
    ASSUME NEW d, NEW c, NEW e, NEW p, NEW q, NEW r, NEW s, NEW u, NEW go,
           d.pc = "header", Doing(d, c, q, p, s), Frame(u, c, e), Codes(u, q, r, s),
           go.pc = "block"
    PROVE  u.u = "header" /\ Doing(go, e, r, p, s)
<1>1. c = AtStart /\ q = p
  BY DEF Doing
<1>2. u.u = "header" /\ e = AtBlock /\ r = q
  BY <1>1, NextAtStart
<1>3. go.pc = "block"
  OBVIOUS
<1> QED
  BY <1>1, <1>2, <1>3 DEF Doing

LEMMA DoBlock ==
    ASSUME NEW d, NEW c, NEW e, NEW p, NEW q, NEW r, NEW s, NEW u, NEW go,
           d.pc = "block", Doing(d, c, q, p, s), Frame(u, c, e), Codes(u, q, r, s),
           go.final = u.final, go.counter = u.raw, go.pc = IF u.raw >= 0 THEN "raw" ELSE "codes"
    PROVE  u.u = "block" /\ Doing(go, e, r, p, s)
<1>1. c = AtBlock /\ q = p
  BY DEF Doing
<1>2. /\ u.u = "block" /\ u.final \in BOOLEAN /\ r = q
      /\ (u.raw = -1 /\ e = InCodes(u.final)) \/ (u.raw \in Nat /\ e = InRaw(u.raw, u.final))
  BY <1>1, NextAtBlock
<1>3. go.final = u.final /\ go.counter = u.raw /\ go.pc = IF u.raw >= 0 THEN "raw" ELSE "codes"
  OBVIOUS
<1>4. CASE u.raw = -1 /\ e = InCodes(u.final)
  <2>1. go.pc = "codes"
    BY <1>3, <1>4
  <2> QED
    BY <1>1, <1>2, <1>3, <1>4, <2>1 DEF Doing
<1>5. CASE u.raw \in Nat /\ e = InRaw(u.raw, u.final)
  <2>1. go.pc = "raw"
    BY <1>3, <1>5
  <2> QED
    BY <1>1, <1>2, <1>3, <1>5, <2>1 DEF Doing
<1> QED
  BY <1>2, <1>4, <1>5

LEMMA DoRawByte ==
    ASSUME NEW d, NEW c, NEW e, NEW p \in Nat, NEW q, NEW r, NEW s, NEW u, NEW go,
           d.pc = "raw", d.counter > 0, Doing(d, c, q, p, s), Frame(u, c, e), Codes(u, q, r, s),
           go.pc = "put", go.dist = u.x, go.counter = d.counter - 1, go.back = "raw",
           go.final = d.final
    PROVE  Doing(go, e, r, p, s)
<1>1. d.counter \in Nat /\ d.final \in BOOLEAN /\ c = InRaw(d.counter, d.final) /\ q = p
  BY DEF Doing
<1>2. /\ e = InRaw(d.counter - 1, d.final) /\ r = q + 1 /\ LitAt(u.x, q, s)
  <2>1. PICK n, f : n = d.counter /\ f = d.final
    OBVIOUS
  <2>2. n \in Nat /\ n > 0 /\ f \in BOOLEAN /\ Frame(u, InRaw(n, f), e)
    BY <1>1, <2>1
  <2>3. e = InRaw(n - 1, f) /\ r = q + 1 /\ LitAt(u.x, q, s)
    BY ONLY <2>2, Codes(u, q, r, s), NextInRaw
  <2> QED
    BY <2>1, <2>3
<1>3. /\ go.pc = "put" /\ go.dist = u.x /\ go.counter = d.counter - 1 /\ go.back = "raw"
      /\ go.final = d.final
  OBVIOUS
<1>4. go.counter \in Nat
  BY <1>1, <1>3
<1> QED
  BY <1>1, <1>2, <1>3, <1>4 DEF Doing

LEMMA DoRawEnd ==
    ASSUME NEW d, NEW c, NEW p, NEW q, NEW s, NEW go,
           d.pc = "raw", d.counter = 0, Doing(d, c, q, p, s),
           go.pc = IF d.final THEN "check" ELSE "block"
    PROVE  Doing(go, c, q, p, s)
<1>1. d.final \in BOOLEAN /\ c = AfterBlock(d.final) /\ q = p
  BY DEF Doing, InRaw
<1>2. go.pc = IF d.final THEN "check" ELSE "block"
  OBVIOUS
<1>3. CASE d.final = TRUE
  BY <1>1, <1>2, <1>3 DEF Doing
<1>4. CASE d.final = FALSE
  BY <1>1, <1>2, <1>4 DEF Doing, AfterBlock
<1> QED
  BY <1>1, <1>3, <1>4

LEMMA DoLiteral ==
    ASSUME NEW d, NEW c, NEW e, NEW p \in Nat, NEW q, NEW r, NEW s, NEW u, NEW go,
           d.pc = "codes", u.u = "lit", Doing(d, c, q, p, s), Frame(u, c, e), Codes(u, q, r, s),
           go.pc = "put", go.dist = u.x, go.back = "codes", go.final = d.final
    PROVE  Doing(go, e, r, p, s)
<1>1. d.final \in BOOLEAN /\ c = InCodes(d.final) /\ q = p
  BY DEF Doing
<1>2. /\ e = InCodes(d.final) /\ r = q + 1 /\ LitAt(u.x, q, s)
  BY <1>1, NextInCodes
<1>3. /\ go.pc = "put" /\ go.dist = u.x /\ go.back = "codes" /\ go.final = d.final
  OBVIOUS
<1> QED
  BY <1>1, <1>2, <1>3 DEF Doing

LEMMA DoMatch ==
    ASSUME NEW d, NEW c, NEW e, NEW p \in Nat, NEW q, NEW r, NEW s, NEW u, NEW go,
           NEW f \in Nat, NEW k \in Nat, p = f + k * Dict,
           d.pc = "codes", u.u = "match", Doing(d, c, q, p, s), Frame(u, c, e),
           Codes(u, q, r, s),
           go.pc = "copy", go.counter = u.len, go.dist = u.dist, go.from = f, go.final = d.final
    PROVE  Doing(go, e, r, p, s)
<1>1. d.final \in BOOLEAN /\ c = InCodes(d.final) /\ q = p
  BY DEF Doing
<1>2. /\ e = InCodes(d.final) /\ r = q + u.len /\ MatchAt(u.len, u.dist, q, s) /\ u.dist <= Dict
  BY <1>1, NextInCodes
<1>3. /\ go.pc = "copy" /\ go.counter = u.len /\ go.dist = u.dist /\ go.from = f
      /\ go.final = d.final
  OBVIOUS
<1>4. \E m \in Nat : p = go.from + m * Dict
  BY <1>3
<1> QED
  BY <1>1, <1>2, <1>3, <1>4 DEF Doing

LEMMA DoEob ==
    ASSUME NEW d, NEW c, NEW e, NEW p, NEW q, NEW r, NEW s, NEW u, NEW go,
           d.pc = "codes", u.u # "lit", u.u # "match", Doing(d, c, q, p, s), Frame(u, c, e),
           Codes(u, q, r, s),
           go.pc = IF d.final THEN "check" ELSE "block"
    PROVE  Doing(go, e, r, p, s)
<1>1. d.final \in BOOLEAN /\ c = InCodes(d.final) /\ q = p
  BY DEF Doing
<1>2. e = AfterBlock(d.final) /\ r = q
  BY <1>1, NextInCodes
<1>3. go.pc = IF d.final THEN "check" ELSE "block"
  OBVIOUS
<1>4. CASE d.final = TRUE
  BY <1>1, <1>2, <1>3, <1>4 DEF Doing
<1>5. CASE d.final = FALSE
  BY <1>1, <1>2, <1>3, <1>5 DEF Doing, AfterBlock
<1> QED
  BY <1>1, <1>4, <1>5

LEMMA DoCheck ==
    ASSUME NEW d, NEW c, NEW e, NEW p, NEW q, NEW r, NEW s, NEW u, NEW go,
           d.pc = "check", Doing(d, c, q, p, s), Frame(u, c, e), Codes(u, q, r, s),
           go.pc = "done"
    PROVE  u.u = "adler" /\ Doing(go, e, r, p, s)
<1>1. c = AfterBlock(TRUE) /\ q = p
  BY DEF Doing
<1>2. u.u = "adler" /\ e = AtEnd /\ r = q
  BY <1>1, NextAtCheck
<1>3. go.pc = "done"
  OBVIOUS
<1> QED
  BY <1>1, <1>2, <1>3 DEF Doing

LEMMA DoPut ==
    ASSUME NEW d, NEW c, NEW p \in Nat, NEW q, NEW s, NEW go,
           d.pc = "put", Doing(d, c, q, p, s),
           go.pc = d.back, go.final = d.final, go.counter = d.counter
    PROVE  LitAt(d.dist, p, s) /\ Doing(go, c, q, p + 1, s)
<1>1. /\ d.final \in BOOLEAN
      /\ \/ d.back = "codes" /\ c = InCodes(d.final)
         \/ d.back = "raw" /\ d.counter \in Nat /\ c = InRaw(d.counter, d.final)
      /\ q = p + 1 /\ LitAt(d.dist, p, s)
  BY DEF Doing
<1>2. go.pc = d.back /\ go.final = d.final /\ go.counter = d.counter
  OBVIOUS
<1> QED
  BY <1>1, <1>2 DEF Doing

LEMMA DoCopyEnd ==
    ASSUME NEW d, NEW c, NEW p \in Nat, NEW q, NEW s, NEW go,
           d.pc = "copy", d.counter = 0, Doing(d, c, q, p, s),
           go.pc = "codes", go.final = d.final
    PROVE  Doing(go, c, q, p, s)
<1>1. d.final \in BOOLEAN /\ c = InCodes(d.final) /\ q = p + d.counter
  BY DEF Doing
<1>2. go.pc = "codes" /\ go.final = d.final
  OBVIOUS
<1> QED
  BY <1>1, <1>2 DEF Doing

LEMMA DoCopy ==
    ASSUME NEW d, NEW c, NEW p \in Nat, NEW q, NEW s, NEW go,
           d.pc = "copy", d.counter > 0, Doing(d, c, q, p, s),
           go.pc = "copy", go.final = d.final, go.counter = d.counter - 1, go.dist = d.dist,
           go.from = d.from + 1
    PROVE  /\ Doing(go, c, q, p + 1, s)
           /\ p + 1 <= Len(s) /\ d.dist \in 1 .. p /\ d.dist <= Dict
           /\ s[p + 1] = s[p - d.dist + 1] /\ (d.from - d.dist) % Dict = (p - d.dist) % Dict
<1>1. PICK n, t, f : n = d.counter /\ t = d.dist /\ f = d.from
  OBVIOUS
<1>2. /\ d.final \in BOOLEAN /\ c = InCodes(d.final)
      /\ q = p + n /\ MatchAt(n, t, p, s) /\ t <= Dict
      /\ f \in Nat
  BY <1>1 DEF Doing
<1>3. PICK k \in Nat : p = f + k * Dict
  BY <1>1 DEF Doing
<1>4. /\ go.pc = "copy" /\ go.final = d.final /\ go.counter = n - 1 /\ go.dist = t
      /\ go.from = f + 1
  BY <1>1
<1>5. n \in Nat /\ n > 0 /\ p + n <= Len(s) /\ t \in 1 .. p
      /\ \A i \in 0 .. n - 1 : s[p + i + 1] = s[p + i - t + 1]
  BY <1>1, <1>2 DEF MatchAt
<1>6. Dict \in Nat /\ n \in Nat /\ t \in Nat
  BY <1>5, DeflateAssumption
<1>7. MatchAt(n - 1, t, p + 1, s)
  <2>1. n - 1 \in Nat /\ (p + 1) + (n - 1) <= Len(s) /\ t \in 1 .. p + 1
    BY <1>5
  <2>2. ASSUME NEW i \in 0 .. (n - 1) - 1
        PROVE  s[(p + 1) + i + 1] = s[(p + 1) + i - t + 1]
    <3>1. PICK m : m = i + 1
      OBVIOUS
    <3>2. m \in 0 .. n - 1 /\ p + m + 1 = (p + 1) + i + 1 /\ p + m - t + 1 = (p + 1) + i - t + 1
      BY ONLY <1>6, <3>1, p \in Nat, i \in 0 .. (n - 1) - 1
    <3>3. s[p + m + 1] = s[p + m - t + 1]
      BY <1>5, <3>2
    <3> QED
      BY <3>2, <3>3
  <2> QED
    BY <2>1, <2>2 DEF MatchAt
<1>8. p + 1 = (f + 1) + k * Dict /\ f + 1 \in Nat /\ q = (p + 1) + (n - 1)
  BY <1>2, <1>3, <1>5, <1>6
<1>9. \E m \in Nat : p + 1 = go.from + m * Dict
  BY <1>4, <1>8
<1>10. Doing(go, c, q, p + 1, s)
  BY <1>2, <1>4, <1>7, <1>8, <1>9 DEF Doing
<1>11. p + 1 <= Len(s) /\ s[p + 1] = s[p - t + 1]
  <2>1. 0 \in 0 .. n - 1 /\ p + 0 + 1 = p + 1 /\ p + 0 - t + 1 = p - t + 1
    BY <1>5
  <2>2. s[p + 0 + 1] = s[p + 0 - t + 1]
    BY <1>5, <2>1
  <2>3. p + 1 <= Len(s)
    BY <1>5
  <2> QED
    BY <2>1, <2>2, <2>3
<1>12. (f - t) % Dict = (p - t) % Dict
  <2>1. PICK a : a = f - t
    OBVIOUS
  <2>2. a \in Int /\ k \in Int
    BY <1>2, <1>5, <2>1
  <2>3. p - t = a + k * Dict
    BY <1>2, <1>3, <1>5, <1>6, <2>1
  <2>4. (a + k * Dict) % Dict = a % Dict
    BY ONLY <2>2, SamePlace
  <2> QED
    BY <2>1, <2>3, <2>4
<1> QED
  BY <1>1, <1>2, <1>5, <1>10, <1>11, <1>12

\* Window w has the last bytes of the first p of stream s, each at its place.
Window(w, p, s) ==
    /\ DOMAIN w = 0 .. Dict - 1
    /\ \A i \in 0 .. p - 1 : p <= i + Dict => w[i % Dict] = s[i + 1]

LEMMA WindowPut ==
    ASSUME NEW w, NEW p \in Nat, NEW s, Window(w, p, s), NEW x, x = s[p + 1], NEW at,
           at = p % Dict
    PROVE  Window([w EXCEPT ![at] = x], p + 1, s)
<1> DEFINE v == [w EXCEPT ![at] = x]
<1>1. at \in DOMAIN w
  BY PlaceInDict DEF Window
<1>2. DOMAIN v = 0 .. Dict - 1 /\ v[at] = x /\ \A i \in DOMAIN w : i # at => v[i] = w[i]
  BY <1>1 DEF Window
<1> HIDE DEF v
<1>3. ASSUME NEW i \in 0 .. (p + 1) - 1, p + 1 <= i + Dict
      PROVE  v[i % Dict] = s[i + 1]
  <2>1. CASE i = p
    BY <1>2, <2>1
  <2>2. CASE i # p
    <3>1. i \in Nat /\ i < p /\ p < i + Dict /\ i \in 0 .. p - 1 /\ p <= i + Dict
      BY <1>3, <2>2, DeflateAssumption
    <3>2. i % Dict # at /\ i % Dict \in 0 .. Dict - 1
      BY <3>1, PlacesDiffer, PlaceInDict
    <3>3. w[i % Dict] = s[i + 1]
      BY <3>1 DEF Window
    <3> QED
      BY <1>2, <3>2, <3>3 DEF Window
  <2> QED
    BY <2>1, <2>2
<1>4. Window(v, p + 1, s)
  BY <1>2, <1>3 DEF Window
<1> QED
  BY <1>4 DEF v

\* Of the first p bytes of stream s the caller has the first n, the window has
\* the others for it.
Owed(p, n, s) ==
    /\ n \in Nat /\ p \in Nat /\ p <= Len(s)
    /\ inf.n \in Nat /\ davail \in 0 .. Dict /\ p = n + inf.n + davail
    /\ dofs = n % Dict /\ dofs + inf.n <= Dict
    /\ ipc \in {"run", "exit"} => davail = 0
    /\ ipc \notin {"run", "exit"} => inf.n = 0

\* A stream that is called ended is at its end.
Ending ==
    /\ last = "DONE" => inf.pc = "done"
    /\ ipc = "exit" /\ icall.status = "DONE" => inf.pc = "done"
    /\ ipc = "returned" /\ icall.status = "STREAM_END" => inf.pc = "done" /\ davail = 0

InflateOK ==
    IsInf(inf) /\ inf.took \in Nat /\ DOMAIN icall = {"status", "input"} /\ droom \in Nat

\* The decompressor in the middle of the file.
Inflating(F, T, s, pos, ctl, j, p, n) ==
    /\ InflateOK /\ Unread(inf.ahead, inp, j, fpos, F, T)
    /\ Doing(inf, ctl[j], pos[j], p, s) /\ Window(win, p, s) /\ Owed(p, n, s) /\ Ending

LEMMA UnitFacts ==
    ASSUME NEW F, NEW T, NEW s, NEW pos, NEW ctl, NEW j, Path(F, T, s, pos, ctl),
           Unread(inf.ahead, inp, j, fpos, F, T), Have
    PROVE  /\ Frame(NextUnit, ctl[j], ctl[j + 1])
           /\ Codes(NextUnit, pos[j], pos[j + 1], s)
<1>1. PICK a, b, fp : a = inf.ahead /\ b = inp /\ fp = fpos
  OBVIOUS
<1>2. Unread(a, b, j, fp, F, T) /\ (a # <<>> \/ b # <<>>) /\ F \in Seq(T)
  BY <1>1 DEF Have, Path
<1>3. j + 1 \in 1 .. Len(F) /\ Head(a \o b) = F[j + 1] /\ j \in Nat
  <2>1. j \in Nat
    BY <1>2 DEF Unread
  <2> QED
    BY ONLY <1>2, <2>1, NextIsNext
<1>4. PICK i : i = j + 1
  OBVIOUS
<1>5. i \in 1 .. Len(F) /\ i - 1 = j
  BY <1>3, <1>4
<1>6. Codes(F[i], pos[i - 1], pos[i], s) /\ Frame(F[i], ctl[i - 1], ctl[i])
  BY <1>5 DEF Path
<1> QED
  BY <1>1, <1>3, <1>4, <1>5, <1>6 DEF NextUnit

\* A unit is taken.
LEMMA TookUnit ==
    ASSUME NEW F, NEW T, NEW s, NEW pos, NEW ctl, NEW j, NEW p, NEW n,
           Inflating(F, T, s, pos, ctl, j, p, n), ipc = "run", Have, inf.pc # "done",
           NEW go, IsInf(go), go.took = inf.took, go.ahead = inf.ahead, go.n = inf.n,
           Take(go), Stop, UNCHANGED <<dofs, davail, last, dst, droom, fpos>>,
           Doing(go, ctl[j + 1], pos[j + 1], p, s)
    PROVE  Inflating(F, T, s, pos, ctl, j + 1, p, n)'
<1>1. /\ win' = win /\ ipc' = ipc /\ icall' = icall /\ dofs' = dofs /\ davail' = davail
      /\ last' = last /\ droom' = droom /\ fpos' = fpos
  BY DEF Stop
<1>2. /\ InflateOK /\ Unread(inf.ahead, inp, j, fpos, F, T) /\ Window(win, p, s)
      /\ Owed(p, n, s) /\ Ending
  BY DEF Inflating
<1>3. /\ IsInf(inf') /\ inf'.took \in Nat /\ inf'.n = inf.n /\ SameDoing(go, inf')
      /\ Unread(inf'.ahead, inp', j + 1, fpos, F, T)
  <2>1. CASE inf.ahead # <<>>
    <3>1. inf' = [go EXCEPT !.ahead = Tail(inf.ahead)] /\ inp' = inp
      BY <2>1 DEF Take
    <3>2. /\ IsInf(inf') /\ inf'.took = inf.took /\ inf'.n = inf.n /\ SameDoing(go, inf')
          /\ inf'.ahead = Tail(inf.ahead)
      BY <3>1 DEF IsInf, InfFields, SameDoing
    <3>3. PICK a, b, fp : a = inf.ahead /\ b = inp /\ fp = fpos
      OBVIOUS
    <3>4. Unread(Tail(a), b, j + 1, fp, F, T)
      BY <1>2, <2>1, <3>3, TakeAhead
    <3> QED
      BY <1>2, <3>1, <3>2, <3>3, <3>4 DEF InflateOK
  <2>2. CASE inf.ahead = <<>>
    <3>1. inf' = [go EXCEPT !.took = @ + 1] /\ inp' = Tail(inp)
      BY <2>2 DEF Take
    <3>2. /\ IsInf(inf') /\ inf'.took = inf.took + 1 /\ inf'.n = inf.n /\ SameDoing(go, inf')
          /\ inf'.ahead = inf.ahead
      BY <3>1 DEF IsInf, InfFields, SameDoing
    <3>3. PICK a, b, fp : a = inf.ahead /\ b = inp /\ fp = fpos
      OBVIOUS
    <3>4. Unread(a, Tail(b), j + 1, fp, F, T)
      BY <1>2, <2>2, <3>3, TakeInput DEF Have
    <3> QED
      BY <1>2, <3>1, <3>2, <3>3, <3>4 DEF InflateOK
  <2> QED
    BY <2>1, <2>2
<1>4. Doing(inf', ctl[j + 1], pos[j + 1], p, s)
  BY <1>3, DoingSame
<1>5. InflateOK'
  BY <1>1, <1>2, <1>3 DEF InflateOK
<1>6. Owed(p, n, s)'
  BY <1>1, <1>2, <1>3 DEF Owed
<1>7. Ending'
  BY <1>1, <1>2 DEF Ending
<1> QED
  BY <1>1, <1>2, <1>3, <1>4, <1>5, <1>6, <1>7 DEF Inflating

\* A byte is written to the window.
LEMMA PutOne ==
    ASSUME NEW F, NEW T, NEW s, NEW pos, NEW ctl, NEW j, NEW p, NEW n,
           Inflating(F, T, s, pos, ctl, j, p, n), ipc = "run", ~ WindowFull, inf.pc # "done",
           NEW go, IsInf(go), go.took = inf.took, go.ahead = inf.ahead, go.n = inf.n,
           NEW x, x = s[p + 1], p + 1 <= Len(s), Put(x, go),
           UNCHANGED <<dofs, davail, last, dst, droom, fpos>>,
           Doing([go EXCEPT !.n = @ + 1], ctl[j], pos[j], p + 1, s)
    PROVE  Inflating(F, T, s, pos, ctl, j, p + 1, n)'
<1>1. /\ inp' = inp /\ ipc' = ipc /\ icall' = icall /\ dofs' = dofs /\ davail' = davail
      /\ last' = last /\ droom' = droom /\ fpos' = fpos
      /\ inf' = [go EXCEPT !.n = @ + 1] /\ win' = [win EXCEPT ![dofs + inf.n] = x]
  BY DEF Put
<1>2. /\ InflateOK /\ Unread(inf.ahead, inp, j, fpos, F, T) /\ Window(win, p, s)
      /\ Owed(p, n, s) /\ Ending
  BY DEF Inflating
<1>3. IsInf(inf') /\ inf'.took = inf.took /\ inf'.ahead = inf.ahead /\ inf'.n = inf.n + 1
  BY <1>1 DEF IsInf, InfFields
<1>4. PICK m, o : m = inf.n /\ o = dofs
  OBVIOUS
<1>5. /\ n \in Nat /\ p \in Nat /\ m \in Nat /\ davail = 0 /\ p = n + m /\ o = n % Dict
      /\ o + m <= Dict /\ Dict \in Nat /\ Dict > 0 /\ o + m # Dict
  BY <1>2, <1>4, DeflateAssumption DEF Owed, WindowFull
<1>6. o \in Nat /\ o + m < Dict
  <2>1. o \in Nat
    BY <1>5, PlaceInDict
  <2> QED
    BY ONLY <1>5, <2>1
<1>7. p % Dict = o + m
  BY <1>5, <1>6, PlaceInside
<1>8. Window(win', p + 1, s)
  <2>1. dofs + inf.n = p % Dict
    BY <1>4, <1>7
  <2>2. PICK w, at : w = win /\ at = dofs + inf.n
    OBVIOUS
  <2>3. Window([w EXCEPT ![at] = x], p + 1, s)
    BY <1>2, <1>5, <2>1, <2>2, WindowPut
  <2> QED
    BY <1>1, <2>2, <2>3
<1>9. Owed(p + 1, n, s)'
  <2>1. p + 1 \in Nat /\ m + 1 \in Nat /\ p + 1 = n + (m + 1) + 0 /\ o + (m + 1) <= Dict
    BY <1>5, <1>6
  <2> QED
    BY <1>1, <1>2, <1>3, <1>4, <1>5, <2>1 DEF Owed
<1>10. InflateOK'
  BY <1>1, <1>2, <1>3 DEF InflateOK
<1>11. Ending'
  BY <1>1, <1>2 DEF Ending
<1> QED
  BY <1>1, <1>2, <1>3, <1>8, <1>9, <1>10, <1>11 DEF Inflating

\* The units are where they were, the decoder goes on with them.
LEMMA Goes ==
    ASSUME NEW F, NEW T, NEW s, NEW pos, NEW ctl, NEW j, NEW p, NEW n,
           Inflating(F, T, s, pos, ctl, j, p, n), ipc = "run", inf.pc # "done",
           IsInf(inf'), inf'.took \in Nat, inf'.n = inf.n, Stop,
           UNCHANGED <<dofs, davail, last, dst, droom, fpos>>,
           Unread(inf'.ahead, inp', j, fpos, F, T), Doing(inf', ctl[j], pos[j], p, s)
    PROVE  Inflating(F, T, s, pos, ctl, j, p, n)'
<1>1. /\ win' = win /\ ipc' = ipc /\ icall' = icall /\ dofs' = dofs /\ davail' = davail
      /\ last' = last /\ droom' = droom /\ fpos' = fpos
  BY DEF Stop
<1>2. InflateOK /\ Window(win, p, s) /\ Owed(p, n, s) /\ Ending
  BY DEF Inflating
<1>3. InflateOK'
  BY <1>1, <1>2 DEF InflateOK
<1>4. Owed(p, n, s)'
  BY <1>1, <1>2 DEF Owed
<1>5. Ending'
  BY <1>1, <1>2 DEF Ending
<1> QED
  BY <1>1, <1>2, <1>3, <1>4, <1>5 DEF Inflating

\* tinfl_decompress, one step.
LEMMA InflateFill ==
    ASSUME NEW F, NEW T, NEW s, NEW pos, NEW ctl, NEW j, NEW p, NEW n,
           Inflating(F, T, s, pos, ctl, j, p, n), ipc = "run", Fill,
           UNCHANGED <<dofs, davail, last, dst, droom, fpos>>
    PROVE  Inflating(F, T, s, pos, ctl, j, p, n)'
<1>1. /\ inf.pc = "codes" /\ inf.ahead = <<>> /\ Len(inp) >= 2
      /\ inf' = [inf EXCEPT !.ahead = SubSeq(inp, 1, 2), !.took = @ + 2]
      /\ inp' = SubSeq(inp, 3, Len(inp)) /\ Stop
  BY DEF Fill, FastPath, Stop
<1>2. /\ InflateOK /\ Unread(inf.ahead, inp, j, fpos, F, T) /\ Doing(inf, ctl[j], pos[j], p, s)
  BY DEF Inflating
<1>3. /\ IsInf(inf') /\ inf'.took = inf.took + 2 /\ inf'.n = inf.n /\ SameDoing(inf, inf')
      /\ inf'.ahead = SubSeq(inp, 1, 2)
  BY <1>1, <1>2 DEF InflateOK, IsInf, InfFields, SameDoing
<1>4. PICK b, c, d : b = inp /\ c = SubSeq(b, 1, 2) /\ d = SubSeq(b, 3, Len(b))
  OBVIOUS
<1>5. b \in Seq(T) /\ Len(b) \in Nat /\ Len(b) >= 2
  BY <1>1, <1>2, <1>4 DEF Unread
<1>6. c \in Seq(T) /\ d \in Seq(T) /\ c \o d = <<>> \o b
  BY <1>4, <1>5
<1>7. Unread(c, d, j, fpos, F, T)
  <2>1. PICK fp : fp = fpos
    OBVIOUS
  <2>2. Unread(<<>>, b, j, fp, F, T)
    BY <1>1, <1>2, <1>4, <2>1
  <2>3. Unread(c, d, j, fp, F, T)
    BY ONLY <1>6, <2>2, Rebuffer
  <2> QED
    BY <2>1, <2>3
<1>8. Doing(inf', ctl[j], pos[j], p, s)
  BY <1>2, <1>3, DoingSame
<1>9. inf'.took \in Nat
  BY <1>2, <1>3 DEF InflateOK
<1> QED
  BY <1>1, <1>3, <1>4, <1>7, <1>8, <1>9, Goes

LEMMA InflateEnds ==
    ASSUME NEW F, NEW T, NEW s, NEW pos, NEW ctl, NEW j, NEW p, NEW n,
           Inflating(F, T, s, pos, ctl, j, p, n), ipc = "run", RawEnd \/ CopyEnd,
           UNCHANGED <<dofs, davail, last, dst, droom, fpos>>
    PROVE  Inflating(F, T, s, pos, ctl, j, p, n)'
<1>1. /\ InflateOK /\ Unread(inf.ahead, inp, j, fpos, F, T) /\ Doing(inf, ctl[j], pos[j], p, s)
      /\ p \in Nat
  BY DEF Inflating, Owed
<1>2. IsInf(inf) /\ inf.took \in Nat
  BY <1>1 DEF InflateOK
<1>3. CASE RawEnd
  <2>1. /\ inf.pc = "raw" /\ inf.counter = 0 /\ inp' = inp /\ Stop
        /\ inf' = [inf EXCEPT !.pc = IF inf.final THEN "check" ELSE "block"]
    BY <1>3 DEF RawEnd, EndBlock
  <2>2. IsInf(inf') /\ inf'.took = inf.took /\ inf'.n = inf.n /\ inf'.ahead = inf.ahead
    BY <1>2, <2>1 DEF IsInf, InfFields
  <2>3. Doing(inf', ctl[j], pos[j], p, s)
    <3>1. PICK d, e : d = inf /\ e = inf'
      OBVIOUS
    <3>2. e.pc = IF d.final THEN "check" ELSE "block"
      BY <1>2, <2>1, <3>1 DEF IsInf, InfFields
    <3>3. Doing(e, ctl[j], pos[j], p, s)
      BY <1>1, <2>1, <3>1, <3>2, DoRawEnd
    <3> QED
      BY <3>1, <3>3
  <2> QED
    BY <1>1, <1>2, <2>1, <2>2, <2>3, Goes
<1>4. CASE CopyEnd
  <2>1. /\ inf.pc = "copy" /\ inf.counter = 0 /\ inp' = inp /\ Stop
        /\ inf' = [inf EXCEPT !.pc = "codes"]
    BY <1>4 DEF CopyEnd
  <2>2. IsInf(inf') /\ inf'.took = inf.took /\ inf'.n = inf.n /\ inf'.ahead = inf.ahead
    BY <1>2, <2>1 DEF IsInf, InfFields
  <2>3. Doing(inf', ctl[j], pos[j], p, s)
    <3>1. PICK d, e : d = inf /\ e = inf'
      OBVIOUS
    <3>2. e.pc = "codes" /\ e.final = d.final
      BY <1>2, <2>1, <3>1 DEF IsInf, InfFields
    <3>3. Doing(e, ctl[j], pos[j], p, s)
      BY <1>1, <2>1, <3>1, <3>2, DoCopyEnd
    <3> QED
      BY <3>1, <3>3
  <2> QED
    BY <1>1, <1>2, <2>1, <2>2, <2>3, Goes
<1> QED
  BY <1>3, <1>4

LEMMA InflatePuts ==
    ASSUME NEW F, NEW T, NEW s, NEW pos, NEW ctl, NEW j, NEW p, NEW n,
           Inflating(F, T, s, pos, ctl, j, p, n), ipc = "run", PutByte \/ CopyByte,
           UNCHANGED <<dofs, davail, last, dst, droom, fpos>>
    PROVE  Inflating(F, T, s, pos, ctl, j, p + 1, n)'
<1>1. /\ InflateOK /\ Doing(inf, ctl[j], pos[j], p, s) /\ p \in Nat /\ Window(win, p, s)
  BY DEF Inflating, Owed
<1>2. IsInf(inf)
  BY <1>1 DEF InflateOK
<1>3. PICK d : d = inf
  OBVIOUS
<1>4. CASE PutByte
  <2>1. d.pc = "put" /\ ~ WindowFull /\ Put(d.dist, [d EXCEPT !.pc = d.back])
    BY <1>3, <1>4 DEF PutByte
  <2>2. PICK go, e : go = [d EXCEPT !.pc = d.back] /\ e = [go EXCEPT !.n = @ + 1]
    OBVIOUS
  <2>3. IsInf(go) /\ go.took = d.took /\ go.ahead = d.ahead /\ go.n = d.n
    BY <1>2, <1>3, <2>2 DEF IsInf, InfFields
  <2>4. LitAt(d.dist, p, s) /\ Doing(e, ctl[j], pos[j], p + 1, s)
    <3>1. e.pc = d.back /\ e.final = d.final /\ e.counter = d.counter
      BY <1>2, <1>3, <2>2, <2>3 DEF IsInf, InfFields
    <3> QED
      BY <1>1, <1>2, <1>3, <2>1, <3>1, DoPut
  <2>5. PICK x : x = d.dist
    OBVIOUS
  <2>6. x = s[p + 1] /\ p + 1 <= Len(s)
    BY <2>4, <2>5 DEF LitAt
  <2>7. Put(x, go) /\ Doing([go EXCEPT !.n = @ + 1], ctl[j], pos[j], p + 1, s)
    BY <2>1, <2>2, <2>4, <2>5
  <2>8. inf.pc # "done" /\ go.took = inf.took /\ go.ahead = inf.ahead /\ go.n = inf.n
    BY <1>3, <2>1, <2>3
  <2> QED
    BY <2>1, <2>3, <2>6, <2>7, <2>8, PutOne
<1>5. CASE CopyByte
  <2>1. /\ d.pc = "copy" /\ d.counter > 0 /\ ~ WindowFull
        /\ Put(win[(d.from - d.dist) % Dict],
               [d EXCEPT !.counter = @ - 1, !.from = @ + 1])
    BY <1>3, <1>5 DEF CopyByte
  <2>2. PICK go, e : /\ go = [d EXCEPT !.counter = @ - 1, !.from = @ + 1]
                     /\ e = [go EXCEPT !.n = @ + 1]
    OBVIOUS
  <2>3. IsInf(go) /\ go.took = d.took /\ go.ahead = d.ahead /\ go.n = d.n
    BY <1>2, <1>3, <2>2 DEF IsInf, InfFields
  <2>4. /\ Doing(e, ctl[j], pos[j], p + 1, s)
        /\ p + 1 <= Len(s) /\ d.dist \in 1 .. p /\ d.dist <= Dict
        /\ s[p + 1] = s[p - d.dist + 1] /\ (d.from - d.dist) % Dict = (p - d.dist) % Dict
    <3>1. /\ e.pc = "copy" /\ e.final = d.final /\ e.counter = d.counter - 1 /\ e.dist = d.dist
          /\ e.from = d.from + 1
      BY <2>1, <1>2, <1>3, <2>2, <2>3 DEF IsInf, InfFields
    <3>2. PICK c, q : c = ctl[j] /\ q = pos[j]
      OBVIOUS
    <3>3. IsInf(d) /\ Doing(d, c, q, p, s) /\ p \in Nat /\ d.pc = "copy" /\ d.counter > 0
      BY <1>1, <1>2, <1>3, <2>1, <3>2
    <3>4. /\ Doing(e, c, q, p + 1, s)
          /\ p + 1 <= Len(s) /\ d.dist \in 1 .. p /\ d.dist <= Dict
          /\ s[p + 1] = s[p - d.dist + 1] /\ (d.from - d.dist) % Dict = (p - d.dist) % Dict
      BY ONLY <3>1, <3>3, DoCopy, Zenon
    <3> QED
      BY <3>2, <3>4
  <2>5. PICK t, x : t = d.dist /\ x = win[(d.from - d.dist) % Dict]
    OBVIOUS
  <2>6. x = s[p + 1] /\ p + 1 <= Len(s)
    <3>1. x = win[(p - t) % Dict] /\ s[p + 1] = s[(p - t) + 1]
      BY <2>4, <2>5
    <3>2. p - t \in 0 .. p - 1 /\ p <= (p - t) + Dict
      <4>1. t \in 1 .. p /\ t <= Dict /\ Dict \in Nat
        BY <2>4, <2>5, DeflateAssumption
      <4> QED
        BY ONLY <1>1, <4>1
    <3>3. win[(p - t) % Dict] = s[(p - t) + 1]
      BY <1>1, <3>2 DEF Window
    <3> QED
      BY <2>4, <3>1, <3>3
  <2>7. Put(x, go) /\ Doing([go EXCEPT !.n = @ + 1], ctl[j], pos[j], p + 1, s)
    BY <2>1, <2>2, <2>4, <2>5
  <2>8. inf.pc # "done" /\ go.took = inf.took /\ go.ahead = inf.ahead /\ go.n = inf.n
    BY <1>3, <2>1, <2>3
  <2> QED
    BY <2>1, <2>3, <2>6, <2>7, <2>8, PutOne
<1> QED
  BY <1>4, <1>5

LEMMA InflateHeads ==
    ASSUME NEW F, NEW T, NEW s, NEW pos, NEW ctl, NEW j, NEW p, NEW n,
           Path(F, T, s, pos, ctl), Inflating(F, T, s, pos, ctl, j, p, n), ipc = "run",
           Header \/ BlockHeader \/ CheckSum,
           UNCHANGED <<dofs, davail, last, dst, droom, fpos>>
    PROVE  Inflating(F, T, s, pos, ctl, j + 1, p, n)'
<1>1. /\ InflateOK /\ Doing(inf, ctl[j], pos[j], p, s) /\ p \in Nat
      /\ Unread(inf.ahead, inp, j, fpos, F, T)
  BY DEF Inflating, Owed
<1>2. Have
  BY DEF Header, BlockHeader, CheckSum
<1>3. PICK d, u, c, e, q, r : /\ d = inf /\ u = NextUnit /\ c = ctl[j] /\ e = ctl[j + 1]
                              /\ q = pos[j] /\ r = pos[j + 1]
  OBVIOUS
<1>4. IsInf(d) /\ Doing(d, c, q, p, s) /\ Frame(u, c, e) /\ Codes(u, q, r, s)
  BY <1>1, <1>2, <1>3, UnitFacts DEF InflateOK
<1>5. CASE Header
  <2>1. d.pc = "header"
    BY <1>3, <1>5 DEF Header
  <2>2. PICK go : go = [d EXCEPT !.pc = "block"]
    OBVIOUS
  <2>9. go.pc = "block"
    BY <1>3, <1>4, <2>2 DEF IsInf, InfFields
  <2>3. u.u = "header" /\ Doing(go, e, r, p, s)
    BY ONLY <1>4, <2>1, <2>9, DoHeader
  <2>4. Take(go) /\ Stop
    BY <1>3, <1>5, <2>2, <2>3 DEF Header
  <2>5. IsInf(go) /\ go.took = inf.took /\ go.ahead = inf.ahead /\ go.n = inf.n
    BY <1>3, <1>4, <2>2 DEF IsInf, InfFields
  <2> QED
    BY <1>2, <1>3, <2>1, <2>3, <2>4, <2>5, TookUnit
<1>6. CASE BlockHeader
  <2>1. d.pc = "block"
    BY <1>3, <1>6 DEF BlockHeader
  <2>2. PICK go : go = [d EXCEPT !.final = u.final, !.counter = u.raw,
                                 !.pc = IF u.raw >= 0 THEN "raw" ELSE "codes"]
    OBVIOUS
  <2>9. /\ go.final = u.final /\ go.counter = u.raw
        /\ go.pc = IF u.raw >= 0 THEN "raw" ELSE "codes"
    BY <1>3, <1>4, <2>2 DEF IsInf, InfFields
  <2>3. u.u = "block" /\ Doing(go, e, r, p, s)
    BY ONLY <1>4, <2>1, <2>9, DoBlock
  <2>4. Take(go) /\ Stop
    BY <1>3, <1>6, <2>2, <2>3 DEF BlockHeader
  <2>5. IsInf(go) /\ go.took = inf.took /\ go.ahead = inf.ahead /\ go.n = inf.n
    BY <1>3, <1>4, <2>2 DEF IsInf, InfFields
  <2> QED
    BY <1>2, <1>3, <2>1, <2>3, <2>4, <2>5, TookUnit
<1>7. CASE CheckSum
  <2>1. d.pc = "check"
    BY <1>3, <1>7 DEF CheckSum
  <2>2. PICK go : go = [d EXCEPT !.pc = "done", !.sum = u.a]
    OBVIOUS
  <2>9. go.pc = "done"
    BY <1>3, <1>4, <2>2 DEF IsInf, InfFields
  <2>3. u.u = "adler" /\ Doing(go, e, r, p, s)
    BY ONLY <1>4, <2>1, <2>9, DoCheck
  <2>4. Take(go) /\ Stop
    BY <1>3, <1>7, <2>2, <2>3 DEF CheckSum
  <2>5. IsInf(go) /\ go.took = inf.took /\ go.ahead = inf.ahead /\ go.n = inf.n
    BY <1>3, <1>4, <2>2 DEF IsInf, InfFields
  <2> QED
    BY <1>2, <1>3, <2>1, <2>3, <2>4, <2>5, TookUnit
<1> QED
  BY <1>5, <1>6, <1>7

LEMMA InflateCodes ==
    ASSUME NEW F, NEW T, NEW s, NEW pos, NEW ctl, NEW j, NEW p, NEW n,
           Path(F, T, s, pos, ctl), Inflating(F, T, s, pos, ctl, j, p, n), ipc = "run",
           RawByte \/ Decode, UNCHANGED <<dofs, davail, last, dst, droom, fpos>>
    PROVE  Inflating(F, T, s, pos, ctl, j + 1, p, n)'
<1>1. /\ InflateOK /\ Doing(inf, ctl[j], pos[j], p, s) /\ p \in Nat
      /\ Unread(inf.ahead, inp, j, fpos, F, T) /\ Owed(p, n, s)
  BY DEF Inflating, Owed
<1>2. Have
  BY DEF RawByte, Decode
<1>3. PICK d, u, c, e, q, r : /\ d = inf /\ u = NextUnit /\ c = ctl[j] /\ e = ctl[j + 1]
                              /\ q = pos[j] /\ r = pos[j + 1]
  OBVIOUS
<1>4. IsInf(d) /\ Doing(d, c, q, p, s) /\ Frame(u, c, e) /\ Codes(u, q, r, s)
  BY <1>1, <1>2, <1>3, UnitFacts DEF InflateOK
<1>5. CASE RawByte
  <2>1. d.pc = "raw" /\ d.counter > 0
    BY <1>3, <1>5 DEF RawByte
  <2>2. PICK go : go = [d EXCEPT !.pc = "put", !.dist = u.x, !.counter = @ - 1, !.back = "raw"]
    OBVIOUS
  <2>9. /\ go.pc = "put" /\ go.dist = u.x /\ go.counter = d.counter - 1 /\ go.back = "raw"
        /\ go.final = d.final
    BY <1>3, <1>4, <2>2 DEF IsInf, InfFields
  <2>3. Doing(go, e, r, p, s)
    BY ONLY <1>1, <1>4, <2>1, <2>9, DoRawByte
  <2>4. Take(go) /\ Stop
    BY <1>3, <1>5, <2>2, <2>3 DEF RawByte
  <2>5. IsInf(go) /\ go.took = inf.took /\ go.ahead = inf.ahead /\ go.n = inf.n
    BY <1>3, <1>4, <2>2 DEF IsInf, InfFields
  <2> QED
    BY <1>2, <1>3, <2>1, <2>3, <2>4, <2>5, TookUnit
<1>6. CASE Decode /\ u.u = "lit"
  <2>1. d.pc = "codes"
    BY <1>3, <1>6 DEF Decode
  <2>2. PICK go : go = [d EXCEPT !.pc = "put", !.dist = u.x, !.back = "codes"]
    OBVIOUS
  <2>9. go.pc = "put" /\ go.dist = u.x /\ go.back = "codes" /\ go.final = d.final
    BY <1>3, <1>4, <2>2 DEF IsInf, InfFields
  <2>3. Doing(go, e, r, p, s)
    BY ONLY <1>1, <1>4, <1>6, <2>1, <2>9, DoLiteral
  <2>4. Take(go) /\ Stop
    BY <1>3, <1>6, <2>2 DEF Decode
  <2>5. IsInf(go) /\ go.took = inf.took /\ go.ahead = inf.ahead /\ go.n = inf.n
    BY <1>3, <1>4, <2>2 DEF IsInf, InfFields
  <2> QED
    BY <1>2, <1>3, <2>1, <2>3, <2>4, <2>5, TookUnit
<1>7. CASE Decode /\ u.u = "match"
  <2>1. d.pc = "codes"
    BY <1>3, <1>7 DEF Decode
  <2>2. PICK f, k : f = dofs + inf.n /\ k = n \div Dict
    OBVIOUS
  <2>3. f \in Nat /\ k \in Nat /\ p = f + k * Dict
    <3>1. PICK m, o : m = inf.n /\ o = dofs
      OBVIOUS
    <3>2. /\ n \in Nat /\ m \in Nat /\ p = n + m + 0 /\ o = n % Dict /\ Dict \in Nat /\ Dict > 0
      BY <1>1, <3>1, DeflateAssumption DEF Owed
    <3>3. o \in Nat /\ k \in Nat /\ n = Dict * k + o
      BY <2>2, <3>2
    <3>4. f = o + m
      BY <2>2, <3>1
    <3>5. Dict * k = k * Dict /\ k * Dict \in Nat
      BY ONLY <3>2, <3>3
    <3> QED
      BY ONLY <3>2, <3>3, <3>4, <3>5
  <2>4. PICK go : go = [d EXCEPT !.pc = "copy", !.counter = u.len, !.dist = u.dist, !.from = f]
    OBVIOUS
  <2>9. /\ go.pc = "copy" /\ go.counter = u.len /\ go.dist = u.dist /\ go.from = f
        /\ go.final = d.final
    BY <1>3, <1>4, <2>4 DEF IsInf, InfFields
  <2>5. Doing(go, e, r, p, s)
    BY ONLY <1>1, <1>4, <1>7, <2>1, <2>3, <2>9, DoMatch
  <2>6. Take(go) /\ Stop
    BY <1>3, <1>7, <2>2, <2>4 DEF Decode
  <2>7. IsInf(go) /\ go.took = inf.took /\ go.ahead = inf.ahead /\ go.n = inf.n
    BY <1>3, <1>4, <2>4 DEF IsInf, InfFields
  <2> QED
    BY <1>2, <1>3, <2>1, <2>5, <2>6, <2>7, TookUnit
<1>8. CASE Decode /\ u.u # "lit" /\ u.u # "match"
  <2>1. d.pc = "codes"
    BY <1>3, <1>8 DEF Decode
  <2>2. PICK go : go = [d EXCEPT !.pc = IF d.final THEN "check" ELSE "block"]
    OBVIOUS
  <2>9. go.pc = IF d.final THEN "check" ELSE "block"
    BY <1>3, <1>4, <2>2 DEF IsInf, InfFields
  <2>3. Doing(go, e, r, p, s)
    BY ONLY <1>4, <1>8, <2>1, <2>9, DoEob
  <2>4. Take(go) /\ Stop
    BY <1>3, <1>8, <2>2 DEF Decode, EndBlock
  <2>5. IsInf(go) /\ go.took = inf.took /\ go.ahead = inf.ahead /\ go.n = inf.n
    BY <1>3, <1>4, <2>2 DEF IsInf, InfFields
  <2> QED
    BY <1>2, <1>3, <2>1, <2>3, <2>4, <2>5, TookUnit
<1> QED
  BY <1>5, <1>6, <1>7, <1>8

\* The bit buffer is given back but for its first k units.
LEMMA GiveBack ==
    ASSUME NEW F, NEW T, NEW a, NEW b, NEW j, NEW fp, Unread(a, b, j, fp, F, T),
           NEW k \in 0 .. Len(a)
    PROVE  Unread(SubSeq(a, 1, k), SubSeq(a, k + 1, Len(a)) \o b, j, fp, F, T)
<1>1. a \in Seq(T) /\ b \in Seq(T) /\ Len(a) \in Nat /\ Len(b) \in Nat /\ k \in Nat
      /\ j \in Nat /\ fp \in Nat /\ fp <= Len(F) /\ fp = j + Len(a) + Len(b)
  BY DEF Unread
<1>2. PICK x, y : x = SubSeq(a, 1, k) /\ y = SubSeq(a, k + 1, Len(a))
  OBVIOUS
<1>3. /\ x \in Seq(T) /\ Len(x) = k /\ \A i \in 1 .. k : x[i] = a[i]
  BY <1>1, <1>2
<1>4. /\ y \in Seq(T) /\ Len(y) = Len(a) - k /\ \A i \in 1 .. Len(a) - k : y[i] = a[k + i]
  BY <1>1, <1>2
<1>5. PICK c : c = y \o b
  OBVIOUS
<1>6. /\ c \in Seq(T) /\ Len(c) = Len(y) + Len(b)
      /\ \A i \in 1 .. Len(y) + Len(b) : c[i] = IF i <= Len(y) THEN y[i] ELSE b[i - Len(y)]
  BY <1>1, <1>4, <1>5, ConcatProperties
<1>7. Continues(x, j, F)
  <2>1. ASSUME NEW i \in 1 .. Len(x) PROVE x[i] = F[j + i]
    <3>1. i \in 1 .. k /\ i \in 1 .. Len(a)
      BY <1>1, <1>3
    <3>2. a[i] = F[j + i]
      BY <3>1 DEF Unread, Continues
    <3> QED
      BY <1>3, <3>1, <3>2
  <2> QED
    BY <2>1 DEF Continues
<1>8. Continues(c, j + Len(x), F)
  <2>1. ASSUME NEW i \in 1 .. Len(c) PROVE c[i] = F[(j + Len(x)) + i]
    <3>1. CASE i <= Len(y)
      <4>1. PICK m : m = k + i
        OBVIOUS
      <4>2. i \in 1 .. Len(a) - k /\ m \in 1 .. Len(a) /\ (j + Len(x)) + i = j + m
            /\ i \in 1 .. Len(y) + Len(b)
        BY <1>1, <1>3, <1>4, <1>6, <3>1, <4>1
      <4>3. a[m] = F[j + m]
        BY <4>2 DEF Unread, Continues
      <4> QED
        BY <1>4, <1>6, <3>1, <4>1, <4>2, <4>3
    <3>2. CASE ~ (i <= Len(y))
      <4>1. PICK m : m = i - Len(y)
        OBVIOUS
      <4>2. m \in 1 .. Len(b) /\ (j + Len(x)) + i = (j + Len(a)) + m
            /\ i \in 1 .. Len(y) + Len(b)
        BY <1>1, <1>3, <1>4, <1>6, <3>2, <4>1
      <4>3. b[m] = F[(j + Len(a)) + m]
        BY <4>2 DEF Unread, Continues
      <4> QED
        BY <1>6, <3>2, <4>1, <4>2, <4>3
    <3> QED
      BY <3>1, <3>2
  <2> QED
    BY <2>1 DEF Continues
<1>9. fp = j + Len(x) + Len(c)
  BY <1>1, <1>3, <1>4, <1>6
<1>10. Unread(x, c, j, fp, F, T)
  BY <1>1, <1>3, <1>6, <1>7, <1>8, <1>9 DEF Unread
<1> QED
  BY <1>2, <1>5, <1>10

\* common_exit: what was read ahead goes back to the input buffer.
LEMMA InflateExits ==
    ASSUME NEW F, NEW T, NEW s, NEW pos, NEW ctl, NEW j, NEW p, NEW n,
           Inflating(F, T, s, pos, ctl, j, p, n), ipc = "run",
           NEW status, status = "DONE" => inf.pc = "done", CommonExit(status),
           UNCHANGED <<dofs, davail, last, dst, droom, fpos>>
    PROVE  Inflating(F, T, s, pos, ctl, j, p, n)'
<1>1. /\ InflateOK /\ Doing(inf, ctl[j], pos[j], p, s) /\ Window(win, p, s)
      /\ Unread(inf.ahead, inp, j, fpos, F, T) /\ Owed(p, n, s) /\ Ending
  BY DEF Inflating
<1>2. PICK a, b, fp, t, back, keep, check :
        /\ a = inf.ahead /\ b = inp /\ fp = fpos /\ t = inf.took
        /\ back = IF status = "NEEDS_MORE_INPUT" THEN 0 ELSE Min({Len(a), t})
        /\ keep = Len(a) - back
        /\ check = mz_adler32(inf.check, [i \in 1 .. inf.n |-> win[dofs + i - 1]])
  OBVIOUS
<1>3. /\ inp' = SubSeq(a, keep + 1, Len(a)) \o b
      /\ inf' = [inf EXCEPT !.ahead = SubSeq(a, 1, keep), !.took = 0, !.check = check]
      /\ icall' = [icall EXCEPT !.status =
                      IF status = "DONE" /\ check # inf.sum THEN "ADLER32_MISMATCH" ELSE status]
      /\ ipc' = "exit" /\ win' = win
  BY <1>2 DEF CommonExit
<1>4. /\ IsInf(inf') /\ inf'.took = 0 /\ inf'.ahead = SubSeq(a, 1, keep) /\ inf'.n = inf.n
      /\ SameDoing(inf, inf')
  BY <1>1, <1>3 DEF InflateOK, IsInf, InfFields, SameDoing
<1>5. a \in Seq(T) /\ b \in Seq(T) /\ Len(a) \in Nat /\ t \in Nat /\ Unread(a, b, j, fp, F, T)
  BY <1>1, <1>2 DEF Unread, InflateOK
<1>6. keep \in 0 .. Len(a)
  <2>1. back \in Nat /\ back <= Len(a)
    BY <1>2, <1>5, MinOfTwo
  <2> QED
    BY <1>2, <1>5, <2>1
<1>7. Unread(SubSeq(a, 1, keep), SubSeq(a, keep + 1, Len(a)) \o b, j, fp, F, T)
  BY ONLY <1>5, <1>6, GiveBack, Zenon
<1>8. Doing(inf', ctl[j], pos[j], p, s)
  BY <1>1, <1>4, DoingSame
<1>9. /\ dofs' = dofs /\ davail' = davail /\ last' = last /\ droom' = droom /\ fpos' = fpos
  OBVIOUS
<1>10. DOMAIN icall' = {"status", "input"} /\ (icall'.status = "DONE" => status = "DONE")
  BY <1>1, <1>3 DEF InflateOK
<1>11. InflateOK'
  BY <1>1, <1>4, <1>9, <1>10 DEF InflateOK
<1>12. Owed(p, n, s)'
  BY <1>1, <1>3, <1>4, <1>9 DEF Owed
<1>13. Ending'
  BY <1>1, <1>3, <1>4, <1>9, <1>10 DEF Ending, SameDoing
<1>14. Unread(inf'.ahead, inp', j, fpos', F, T)
  BY <1>2, <1>3, <1>4, <1>7, <1>9
<1> QED
  BY <1>1, <1>3, <1>8, <1>11, <1>12, <1>13, <1>14 DEF Inflating

LEMMA Decompresses ==
    ASSUME NEW F, NEW T, NEW s, NEW pos, NEW ctl, NEW j, NEW p, NEW n,
           Path(F, T, s, pos, ctl), Inflating(F, T, s, pos, ctl, j, p, n),
           tinfl_decompress, fpos' = fpos
    PROVE  dst' = dst /\ \E i, q : Inflating(F, T, s, pos, ctl, i, q, n)'
<1>1. ipc = "run" /\ UNCHANGED <<dofs, davail, last, dst, droom, fpos>>
  BY DEF tinfl_decompress
<1>2. CASE Fill
  BY <1>1, <1>2, InflateFill
<1>3. CASE RawEnd \/ CopyEnd
  BY <1>1, <1>3, InflateEnds
<1>4. CASE PutByte \/ CopyByte
  BY <1>1, <1>4, InflatePuts
<1>5. CASE Header \/ BlockHeader \/ CheckSum
  BY <1>1, <1>5, InflateHeads
<1>6. CASE RawByte \/ Decode
  BY <1>1, <1>6, InflateCodes
<1>7. CASE Suspend
  <2>1. PICK status : (status = "DONE" => inf.pc = "done") /\ CommonExit(status)
    BY <1>7, Zenon DEF Suspend
  <2> QED
    BY <1>1, <2>1, InflateExits
<1> QED
  BY <1>1, <1>2, <1>3, <1>4, <1>5, <1>6, <1>7 DEF tinfl_decompress

\* The bytes the caller gets out of the window are the next of the stream.
LEMMA Delivered ==
    ASSUME NEW w, NEW p \in Nat, NEW n \in Nat, NEW m \in Nat, NEW s \in Seq(Nat),
           Window(w, p, s), n + m <= p, p <= n + Dict, p <= Len(s), NEW i \in 1 .. m
    PROVE  /\ w[((n % Dict) + i - 1) % Dict] = s[n + i] /\ s[n + i] \in Nat
<1>1. Dict \in Nat /\ Dict > 0 /\ Len(s) \in Nat
  BY DeflateAssumption
<1>2. PICK k : k = n % Dict
  OBVIOUS
<1>3. k \in Nat
  BY <1>1, <1>2, PlaceInDict
<1>4. PICK h, a : h = i - 1 /\ a = n + h
  OBVIOUS
<1>5. h \in Nat /\ k + i - 1 = k + h /\ a \in 0 .. p - 1 /\ p <= a + Dict /\ a + 1 = n + i
  <2>1. p \in Nat /\ n \in Nat /\ m \in Nat /\ n + m <= p /\ p <= n + Dict /\ i \in 1 .. m
    OBVIOUS
  <2> QED
    BY ONLY <1>1, <1>3, <1>4, <2>1
<1>6. (k + h) % Dict = a % Dict
  BY <1>2, <1>4, <1>5, PlaceAfter
<1>7. w[a % Dict] = s[a + 1]
  BY <1>5 DEF Window
<1>8. a + 1 \in 1 .. Len(s)
  BY <1>1, <1>5
<1>9. s[a + 1] \in Nat
  BY <1>8, ElementOfSeq
<1> QED
  BY <1>2, <1>5, <1>6, <1>7, <1>9

LEMMA ContinuesJoin ==
    ASSUME NEW s, NEW o \in Nat, NEW b \in Seq(Nat), NEW g \in Seq(Nat), NEW c, c = b \o g,
           Continues(b, o, s), NEW at \in Nat, at = o + Len(b), Continues(g, at, s)
    PROVE  Continues(c, o, s)
<1>1. Len(b) \in Nat /\ Len(g) \in Nat
  OBVIOUS
<1>2. /\ c \in Seq(Nat) /\ Len(c) = Len(b) + Len(g)
      /\ \A i \in 1 .. Len(b) + Len(g) : c[i] = IF i <= Len(b) THEN b[i] ELSE g[i - Len(b)]
  BY ConcatProperties
<1>3. ASSUME NEW i \in 1 .. Len(c) PROVE c[i] = s[o + i]
  <2>1. CASE i <= Len(b)
    <3>1. c[i] = b[i] /\ i \in 1 .. Len(b)
      BY <1>1, <1>2, <2>1
    <3> QED
      BY <3>1 DEF Continues
  <2>2. CASE ~ (i <= Len(b))
    <3>1. PICK h : h = i - Len(b)
      OBVIOUS
    <3>2. h \in 1 .. Len(g) /\ (o + Len(b)) + h = o + i
      BY <1>1, <1>2, <2>2, <3>1
    <3>3. c[i] = g[h]
      BY <1>1, <1>2, <2>2, <3>1
    <3>4. g[h] = s[(o + Len(b)) + h]
      BY <3>2 DEF Continues
    <3> QED
      BY <3>2, <3>3, <3>4
  <2> QED
    BY <2>1, <2>2
<1> QED
  BY <1>2, <1>3 DEF Continues

\* What the caller has got: the bytes of the stream from o to n.
Given(o, n, s) == dst \in Seq(Nat) /\ n = o + Len(dst) /\ Continues(dst, o, s)

\* Some of the bytes that are owed are given.
LEMMA Gives ==
    ASSUME NEW F, NEW T, NEW s \in Seq(Nat), NEW pos, NEW ctl, NEW j, NEW p, NEW n, NEW o \in Nat,
           Inflating(F, T, s, pos, ctl, j, p, n), Given(o, n, s),
           ipc \in {"drain", "exit"}, ipc' \in {"returned", "run"},
           NEW avail, avail = IF ipc = "exit" THEN inf.n ELSE davail,
           Deliver(Min({avail, droom}), avail),
           IsInf(inf'), inf'.took = inf.took, inf'.ahead = inf.ahead, inf'.n = 0,
           SameDoing(inf, inf'), DOMAIN icall' = {"status", "input"},
           UNCHANGED <<win, inp, fpos>>, ipc' = "run" => ~ (davail' > 0), Ending'
    PROVE  \E k : Inflating(F, T, s, pos, ctl, j, p, k)' /\ Given(o, k, s)'
<1>1. /\ InflateOK /\ Unread(inf.ahead, inp, j, fpos, F, T) /\ Doing(inf, ctl[j], pos[j], p, s)
      /\ Window(win, p, s) /\ Owed(p, n, s)
  BY DEF Inflating
<1>2. PICK room1, av : room1 = droom /\ av = davail
  OBVIOUS
<1>3. PICK a, m, w, b, k : /\ a = avail /\ m = Min({a, room1}) /\ w = win /\ b = dst /\ k = n + m
  OBVIOUS
<1>4. Dict \in Nat /\ Dict > 0 /\ room1 \in Nat
  BY <1>1, <1>2, DeflateAssumption DEF InflateOK
<1>5. a \in 0 .. Dict /\ p = n + a /\ n \in Nat /\ p \in Nat /\ p <= Len(s) /\ dofs = n % Dict
  <2>1. CASE ipc = "exit"
    <3>1. a = inf.n /\ davail = 0 /\ dofs + a <= Dict /\ a \in Nat /\ dofs = n % Dict
          /\ p = n + a + 0
      BY <1>1, <1>3, <2>1 DEF Owed
    <3>2. dofs \in Nat
      BY <1>1, <3>1, PlaceInDict DEF Owed
    <3> QED
      BY <1>1, <1>4, <3>1, <3>2 DEF Owed
  <2>2. CASE ipc # "exit"
    <3>1. a = davail /\ inf.n = 0 /\ p = n + 0 + a
      BY <1>1, <1>3, <2>2 DEF Owed
    <3> QED
      BY <1>1, <3>1 DEF Owed
  <2> QED
    BY <2>1, <2>2
<1>6. m \in Nat /\ m <= a /\ m <= room1 /\ a \in Nat /\ a <= Dict
  <2>1. a \in Nat /\ a <= Dict
    BY ONLY <1>4, <1>5
  <2>2. m = Min({a, room1})
    BY <1>3
  <2> QED
    BY ONLY <1>4, <2>1, <2>2, MinOfTwo
<1>7. /\ dst' = b \o [i \in 1 .. m |-> w[((n % Dict) + i - 1) % Dict]]
      /\ droom' = room1 - m /\ davail' = a - m /\ dofs' = ((n % Dict) + m) % Dict
  BY <1>2, <1>3, <1>5 DEF Deliver
<1>8. Given(o, k, s)'
  <2>0. PICK g : g = [i \in 1 .. m |-> w[((n % Dict) + i - 1) % Dict]]
    OBVIOUS
  <2>1. PICK c : c = b \o g
    OBVIOUS
  <2>2. b \in Seq(Nat) /\ n = o + Len(b) /\ Continues(b, o, s)
    BY <1>3 DEF Given
  <2>3. n + m <= p /\ p <= n + Dict
    BY ONLY <1>4, <1>5, <1>6
  <2>4. Window(w, p, s) /\ s \in Seq(Nat) /\ o \in Nat /\ n \in Nat /\ p \in Nat /\ m \in Nat
        /\ p <= Len(s)
    BY <1>1, <1>3, <1>5, <1>6
  <2>5. \A i \in 1 .. m : g[i] = s[n + i] /\ g[i] \in Nat
    <3>1. ASSUME NEW i \in 1 .. m PROVE g[i] = s[n + i] /\ g[i] \in Nat
      <4>1. g[i] = w[((n % Dict) + i - 1) % Dict]
        BY ONLY <2>0, <3>1
      <4>2. w[((n % Dict) + i - 1) % Dict] = s[n + i] /\ s[n + i] \in Nat
        BY ONLY <2>3, <2>4, <3>1, Delivered
      <4> QED
        BY ONLY <4>1, <4>2
    <3> QED
      BY <3>1
  <2>6. g \in Seq(Nat) /\ Len(g) = m
    <3>1. g \in [1 .. m -> Nat]
      BY ONLY <2>0, <2>5
    <3> QED
      BY ONLY <2>4, <3>1
  <2>7. Continues(g, n, s)
    BY ONLY <2>5, <2>6 DEF Continues
  <2>8. c \in Seq(Nat) /\ Len(c) = Len(b) + Len(g) /\ Continues(c, o, s)
    <3>1. Continues(c, o, s)
      BY ONLY <2>1, <2>2, <2>4, <2>6, <2>7, ContinuesJoin
    <3>2. c \in Seq(Nat) /\ Len(c) = Len(b) + Len(g)
      BY ONLY <2>1, <2>2, <2>6, ConcatProperties
    <3> QED
      BY ONLY <3>1, <3>2
  <2>9. k = o + Len(c)
    <3>1. Len(b) \in Nat /\ k = n + m
      BY <1>3, <2>2
    <3> QED
      BY ONLY <2>2, <2>4, <2>6, <2>8, <3>1
  <2> QED
    BY <1>7, <2>0, <2>1, <2>8, <2>9 DEF Given
<1>9. Owed(p, k, s)'
  <2>0. k = n + m
    BY <1>3
  <2>1. k \in Nat /\ a - m \in 0 .. Dict /\ p = k + 0 + (a - m)
    BY ONLY <1>4, <1>5, <1>6, <2>0
  <2>2. ((n % Dict) + m) % Dict = k % Dict
    BY <1>3, <1>5, <1>6, PlaceAfter
  <2>3. dofs' = k % Dict /\ (k % Dict) + 0 <= Dict
    BY <1>4, <1>7, <2>1, <2>2, PlaceInDict
  <2>4. ipc' \in {"run", "exit"} => davail' = 0
    BY <1>7, <2>1
  <2>5. /\ davail' \in 0 .. Dict /\ p = k + inf'.n + davail' /\ dofs' + inf'.n <= Dict
        /\ inf'.n \in Nat /\ inf'.n = 0
    BY <1>7, <2>1, <2>3
  <2> QED
    BY ONLY <1>5, <2>1, <2>3, <2>4, <2>5 DEF Owed
<1>10. InflateOK'
  BY <1>1, <1>4, <1>6, <1>7 DEF InflateOK
<1>11. Doing(inf', ctl[j], pos[j], p, s)
  BY <1>1, DoingSame
<1>12. Inflating(F, T, s, pos, ctl, j, p, k)'
  BY <1>1, <1>9, <1>10, <1>11 DEF Inflating
<1> QED
  BY <1>8, <1>12

LEMMA Drains ==
    ASSUME NEW F, NEW T, NEW s \in Seq(Nat), NEW pos, NEW ctl, NEW j, NEW p, NEW n, NEW o \in Nat,
           Inflating(F, T, s, pos, ctl, j, p, n), Given(o, n, s), InflateDrain, fpos' = fpos
    PROVE  \E k : Inflating(F, T, s, pos, ctl, j, p, k)' /\ Given(o, k, s)'
<1>1. /\ ipc = "drain" /\ Deliver(Min({davail, droom}), davail) /\ ipc' = "returned"
      /\ icall' = [icall EXCEPT !.status =
                       IF last = "DONE" /\ davail' = 0 THEN "STREAM_END" ELSE "OK"]
      /\ inf' = inf /\ win' = win /\ last' = last /\ inp' = inp
  BY DEF InflateDrain
<1>2. InflateOK /\ Owed(p, n, s) /\ Ending
  BY DEF Inflating
<1>3. DOMAIN icall' = {"status", "input"}
      /\ icall'.status = IF last = "DONE" /\ davail' = 0 THEN "STREAM_END" ELSE "OK"
  BY <1>1, <1>2 DEF InflateOK
<1>4. IsInf(inf') /\ inf'.n = 0 /\ SameDoing(inf, inf')
  BY <1>1, <1>2 DEF InflateOK, Owed, SameDoing
<1>5. Ending'
  BY <1>1, <1>2, <1>3 DEF Ending
<1>6. PICK a : a = davail
  OBVIOUS
<1>7. a = (IF ipc = "exit" THEN inf.n ELSE davail) /\ Deliver(Min({a, droom}), a)
  BY <1>1, <1>6
<1>8. UNCHANGED <<win, inp, fpos>> /\ inf'.took = inf.took /\ inf'.ahead = inf.ahead
  BY <1>1
<1> QED
  BY <1>1, <1>3, <1>4, <1>5, <1>7, <1>8, Gives

LEMMA Loops ==
    ASSUME NEW F, NEW T, NEW s \in Seq(Nat), NEW pos, NEW ctl, NEW j, NEW p, NEW n, NEW o \in Nat,
           Inflating(F, T, s, pos, ctl, j, p, n), Given(o, n, s), InflateLoop, fpos' = fpos
    PROVE  \E k : Inflating(F, T, s, pos, ctl, j, p, k)' /\ Given(o, k, s)'
<1>1. /\ ipc = "exit" /\ last' = icall.status /\ Deliver(Min({inf.n, droom}), inf.n)
      /\ inf' = [inf EXCEPT !.n = 0] /\ win' = win /\ inp' = inp
  BY DEF InflateLoop
<1>2. InflateOK /\ Owed(p, n, s) /\ Ending
  BY DEF Inflating
<1>3. /\ DOMAIN icall' = {"status", "input"}
      /\ \/ ipc' = "returned" /\ (icall'.status = "STREAM_END" => icall.status = "DONE" /\ davail' = 0)
         \/ ipc' = "run" /\ ~ (davail' > 0)
  <2>1. DOMAIN icall = {"status", "input"}
    BY <1>2 DEF InflateOK
  <2>2. CASE Failed(icall.status)
    BY <2>1, <2>2 DEF InflateLoop, Failed
  <2>3. CASE ~ Failed(icall.status) /\ icall.status = "NEEDS_MORE_INPUT" /\ ~ icall.input
    <3>1. icall' = [icall EXCEPT !.status = "BUF_ERROR"] /\ ipc' = "returned"
      BY <2>3 DEF InflateLoop
    <3> QED
      BY <2>1, <3>1
  <2>4. CASE ~ Failed(icall.status) /\ icall.status = "DONE"
    <3>1. /\ icall' = [icall EXCEPT !.status = IF davail' = 0 THEN "STREAM_END" ELSE "OK"]
          /\ ipc' = "returned"
      BY <2>4 DEF InflateLoop
    <3> QED
      BY <2>1, <2>4, <3>1
  <2>5. CASE /\ ~ Failed(icall.status) /\ icall.status # "DONE"
             /\ icall.status # "NEEDS_MORE_INPUT" \/ icall.input
    <3>1. CASE inp = <<>> \/ droom' = 0 \/ davail' > 0
      <4>1. icall' = [icall EXCEPT !.status = "OK"] /\ ipc' = "returned"
        BY <2>5, <3>1 DEF InflateLoop
      <4> QED
        BY <2>1, <4>1
    <3>2. CASE ~ (inp = <<>> \/ droom' = 0 \/ davail' > 0)
      <4>1. ipc' = "run" /\ icall' = icall
        BY <2>5, <3>2 DEF InflateLoop
      <4> QED
        BY <2>1, <3>2, <4>1
    <3> QED
      BY <3>1, <3>2
  <2> QED
    BY <2>2, <2>3, <2>4, <2>5
<1>4. IsInf(inf') /\ inf'.n = 0 /\ SameDoing(inf, inf') /\ inf'.took = inf.took
      /\ inf'.ahead = inf.ahead
  BY <1>1, <1>2 DEF InflateOK, IsInf, InfFields, SameDoing
<1>5. Ending'
  BY <1>1, <1>2, <1>3, <1>4 DEF Ending, SameDoing
<1>6. PICK a : a = inf.n
  OBVIOUS
<1>7. a = (IF ipc = "exit" THEN inf.n ELSE davail) /\ Deliver(Min({a, droom}), a)
  BY <1>1, <1>6
<1>8. UNCHANGED <<win, inp, fpos>> /\ ipc \in {"drain", "exit"} /\ ipc' \in {"returned", "run"}
      /\ (ipc' = "run" => ~ (davail' > 0))
  BY <1>1, <1>3
<1> QED
  BY <1>3, <1>4, <1>5, <1>7, <1>8, Gives

\* A call of mz_inflate begins: nothing is given yet.
LEMMA Calls ==
    ASSUME NEW F, NEW T, NEW s, NEW pos, NEW ctl, NEW j, NEW p, NEW n, NEW space \in Nat,
           Inflating(F, T, s, pos, ctl, j, p, n), mz_inflate(space), fpos' = fpos
    PROVE  Inflating(F, T, s, pos, ctl, j, p, n)' /\ Given(n, n, s)'
<1>1. /\ ipc = "idle" /\ dst' = <<>> /\ droom' = space
      /\ icall' = [status |-> "DATA_ERROR", input |-> inp # <<>>]
      /\ ipc' = IF Failed(last) THEN "returned" ELSE IF davail > 0 THEN "drain" ELSE "run"
      /\ inf' = [inf EXCEPT !.n = 0]
      /\ win' = win /\ dofs' = dofs /\ davail' = davail /\ last' = last /\ inp' = inp
  BY DEF mz_inflate
<1>2. /\ InflateOK /\ Unread(inf.ahead, inp, j, fpos, F, T) /\ Doing(inf, ctl[j], pos[j], p, s)
      /\ Window(win, p, s) /\ Owed(p, n, s) /\ Ending
  BY DEF Inflating
<1>3. IsInf(inf') /\ inf'.n = 0 /\ SameDoing(inf, inf') /\ inf'.took = inf.took
      /\ inf'.ahead = inf.ahead
  BY <1>1, <1>2 DEF InflateOK, IsInf, InfFields, SameDoing
<1>4. DOMAIN icall' = {"status", "input"} /\ icall'.status = "DATA_ERROR"
  BY <1>1
<1>5. InflateOK'
  BY <1>1, <1>2, <1>3, <1>4 DEF InflateOK
<1>6. Owed(p, n, s)'
  <2>1. inf.n = 0
    BY <1>1, <1>2 DEF Owed
  <2>2. ipc' # "exit" /\ (ipc' = "run" => davail = 0)
    BY <1>1, <1>2 DEF Owed
  <2> QED
    BY <1>1, <1>2, <1>3, <2>1, <2>2 DEF Owed
<1>7. Ending'
  BY <1>1, <1>2, <1>3, <1>4 DEF Ending, SameDoing
<1>8. Doing(inf', ctl[j], pos[j], p, s)
  BY <1>2, <1>3, DoingSame
<1>9. Given(n, n, s)'
  BY <1>1, <1>2 DEF Given, Continues, Owed
<1> QED
  BY <1>1, <1>2, <1>3, <1>5, <1>6, <1>7, <1>8, <1>9 DEF Inflating

-----------------------------------------------------------------------------
(* The trace reader: records and transactions.                               *)

\* The bytes of a record by its fields, where the reader has the same.
LEMMA RecordFields ==
    ASSUME NEW a \in Access, SameRecord(a), NEW w, w = write_in_file(a, a.insns)
    PROVE  /\ w \in Seq(Nat) /\ Len(w) = IF a.store THEN 6 ELSE 5
           /\ w[1] = a.insns % DelayMod /\ w[2] = a.addr[1] /\ w[3] = a.addr[2]
           /\ w[4] = a.size + 16 * a.size /\ w[5] = write_flags(a) /\ (a.store => w[6] = a.val)
<1>1. is_64_bits /\ ~ (a.store /\ a.size = 4) /\ w \in Seq(Nat) /\ a.store \in BOOLEAN
  BY RecordBytes, AccessFields DEF SameRecord
<1>2. PICK p, s, f, l, h, v :
         /\ p = a.insns % DelayMod /\ s = a.size + 16 * a.size
         /\ f = write_flags(a) /\ l = a.addr[1] /\ h = a.addr[2] /\ v = a.val
  OBVIOUS
<1>3. CASE a.store = TRUE
  <2>1. w = <<p, l, h, s, f, v>>
    BY <1>1, <1>2, <1>3, RecordForm DEF write_size
  <2>2. Len(w) = 6 /\ w[1] = p /\ w[2] = l /\ w[3] = h /\ w[4] = s /\ w[5] = f /\ w[6] = v
    BY <2>1
  <2> QED
    BY <1>1, <1>2, <1>3, <2>2
<1>4. CASE a.store = FALSE
  <2>1. w = <<p, l, h, s, f>>
    BY <1>1, <1>2, <1>4, RecordForm DEF write_size
  <2>2. Len(w) = 5 /\ w[1] = p /\ w[2] = l /\ w[3] = h /\ w[4] = s /\ w[5] = f
    BY <2>1
  <2> QED
    BY <1>1, <1>2, <1>4, <2>2
<1> QED
  BY <1>1, <1>3, <1>4

\* What the flags and the sizes say is what they were made from.
LEMMA FlagsRead ==
    ASSUME NEW a \in Access, NEW f, f = write_flags(a)
    PROVE  /\ f \div 4 = (IF a.store THEN 1 ELSE 0)
           /\ ((f \div 2) % 2 = 1) <=> ~ a.store
           /\ (f % 2 = 1) <=> IsUncacheable(a)
<1>1. a.store \in BOOLEAN
  BY DEF Access
<1>2. CASE a.store /\ IsUncacheable(a)
  <2>1. f = 5
    BY <1>2 DEF write_flags
  <2>2. 5 \div 4 = 1 /\ (5 \div 2) % 2 = 0 /\ 5 % 2 = 1
    OBVIOUS
  <2> QED
    BY <1>2, <2>1, <2>2
<1>3. CASE a.store /\ ~ IsUncacheable(a)
  <2>1. f = 4
    BY <1>3 DEF write_flags
  <2>2. 4 \div 4 = 1 /\ (4 \div 2) % 2 = 0 /\ 4 % 2 = 0
    OBVIOUS
  <2> QED
    BY <1>3, <2>1, <2>2
<1>4. CASE ~ a.store /\ IsUncacheable(a)
  <2>1. f = 3
    BY <1>4 DEF write_flags
  <2>2. 3 \div 4 = 0 /\ (3 \div 2) % 2 = 1 /\ 3 % 2 = 1
    OBVIOUS
  <2> QED
    BY <1>4, <2>1, <2>2
<1>5. CASE ~ a.store /\ ~ IsUncacheable(a)
  <2>1. f = 2
    BY <1>5 DEF write_flags
  <2>2. 2 \div 4 = 0 /\ (2 \div 2) % 2 = 1 /\ 2 % 2 = 0
    OBVIOUS
  <2> QED
    BY <1>5, <2>1, <2>2
<1> QED
  BY <1>1, <1>2, <1>3, <1>4, <1>5

LEMMA SizeRead ==
    ASSUME NEW k \in 0 .. 4
    PROVE  (k + 16 * k) % 16 = k /\ (k + 16 * k) \div 16 = k
<1>1. k = 0 \/ k = 1 \/ k = 2 \/ k = 3 \/ k = 4
  OBVIOUS
<1> QED
  BY <1>1

\* The first bytes of a record on which plugin and reader agree are whole when
\* they are all of it, and then the transaction is the access.
LEMMA WholeRecord ==
    ASSUME NEW a \in Access, SameRecord(a), NEW w, w = write_in_file(a, a.insns),
           NEW r \in Seq(Nat), Len(r) <= Len(w), \A k \in 1 .. Len(r) : r[k] = w[k]
    PROVE  /\ Whole(r) <=> Len(r) = Len(w)
           /\ Whole(r) => read_transaction(r) = Transaction(a)
<1>1. /\ w \in Seq(Nat) /\ Len(w) = IF a.store THEN 6 ELSE 5
      /\ w[1] = a.insns % DelayMod /\ w[2] = a.addr[1] /\ w[3] = a.addr[2]
      /\ w[4] = a.size + 16 * a.size /\ w[5] = write_flags(a) /\ (a.store => w[6] = a.val)
  BY RecordFields
<1>2. a.store \in BOOLEAN /\ Len(r) \in Nat /\ a.size \in 0 .. 4 /\ a.addr = <<a.addr[1], a.addr[2]>>
  BY AccessFields
<1>3. PICK f, q : f = write_flags(a) /\ q = a.size + 16 * a.size
  OBVIOUS
<1>4. /\ f \div 4 = (IF a.store THEN 1 ELSE 0)
      /\ ((f \div 2) % 2 = 1) <=> ~ a.store
      /\ (f % 2 = 1) <=> IsUncacheable(a)
  BY <1>3, FlagsRead
<1>5. q % 16 = a.size /\ q \div 16 \in 0 .. 4
  <2>1. PICK k : k = a.size
    OBVIOUS
  <2>2. k \in 0 .. 4 /\ q = k + 16 * k
    BY <1>2, <1>3, <2>1
  <2>3. (k + 16 * k) % 16 = k /\ (k + 16 * k) \div 16 = k
    BY <2>2, SizeRead
  <2> QED
    BY <2>1, <2>2, <2>3
<1>6. Len(r) >= 5 => r[4] = q /\ r[5] = f
  <2> SUFFICES ASSUME Len(r) >= 5 PROVE r[4] = q /\ r[5] = f
    OBVIOUS
  <2>1. 4 \in 1 .. Len(r) /\ 5 \in 1 .. Len(r)
    BY <1>2
  <2> QED
    BY <1>1, <1>3, <2>1
<1>7. read_value(r) <=> Len(r) >= 5 /\ a.store
  <2>1. CASE Len(r) >= 5
    <3>1. (f \div 4 = 1) <=> a.store
      BY <1>2, <1>4
    <3>2. r[5] = f /\ r[4] = q
      BY <1>6, <2>1
    <3>3. IsStore(r) <=> a.store
      BY <2>1, <3>1, <3>2 DEF IsStore
    <3> QED
      BY <1>5, <2>1, <3>2, <3>3 DEF read_value
  <2>2. CASE ~ (Len(r) >= 5)
    BY <2>2 DEF read_value, IsStore
  <2> QED
    BY <2>1, <2>2
<1>8. Whole(r) <=> Len(r) = Len(w)
  <2>1. PICK n, m : n = Len(r) /\ m = Len(w)
    OBVIOUS
  <2>2. n \in Nat /\ n <= m /\ m = (IF a.store THEN 6 ELSE 5)
    BY <1>1, <1>2, <2>1
  <2>3. Whole(r) <=> n = (IF n >= 5 /\ a.store THEN 6 ELSE 5)
    BY <1>7, <2>1 DEF Whole
  <2>4. Whole(r) <=> n = m
    <3>1. CASE a.store = TRUE
      <4>1. m = 6 /\ (Whole(r) <=> n = (IF n >= 5 THEN 6 ELSE 5))
        BY <2>2, <2>3, <3>1
      <4>2. n = (IF n >= 5 THEN 6 ELSE 5) <=> n = 6
        BY ONLY <2>2
      <4> QED
        BY <4>1, <4>2
    <3>2. CASE a.store = FALSE
      BY <2>2, <2>3, <3>2
    <3> QED
      BY <1>2, <3>1, <3>2
  <2> QED
    BY <2>1, <2>4
<1>9. ASSUME Whole(r)
      PROVE  read_transaction(r) = Transaction(a)
  <2>0. Len(r) = Len(w) /\ Len(w) = IF a.store THEN 6 ELSE 5
    BY <1>1, <1>8, <1>9
  <2>1. Len(r) = (IF a.store THEN 6 ELSE 5) /\ Len(r) >= 5
    BY <2>0
  <2>2. /\ r[1] = a.insns % DelayMod /\ r[2] = a.addr[1] /\ r[3] = a.addr[2] /\ r[4] = q
        /\ r[5] = f /\ (a.store => r[6] = a.val)
    BY <1>1, <1>2, <1>6, <2>1
  <2>3. read_value(r) <=> a.store
    BY <1>7, <2>1
  <2>4. r[4] % 16 = a.size
    BY <1>5, <2>2
  <2>5. r[5] \div 4 = (IF a.store THEN 1 ELSE 0) /\ ((r[5] \div 2) % 2 = 1) = ~ a.store
        /\ (r[5] % 2 = 1) = IsUncacheable(a)
    BY <1>2, <1>4, <2>2 DEF IsUncacheable
  <2>6. (IF read_value(r) THEN r[6] ELSE 0) = IF a.store THEN a.val ELSE 0
    BY <2>2, <2>3
  <2>7. <<r[2], r[3]>> = a.addr
    BY <1>2, <2>2, Zenon
  <2> QED
    BY <2>2, <2>4, <2>5, <2>6, <2>7, Zenon DEF read_transaction, Transaction
<1> QED
  BY <1>8, <1>9

\* Of the record of an access the reader makes the transaction of that access, and
\* takes the bytes of this record and no other, exactly when the target is riscv64
\* and it is not a store of 128 bits: write_address and write_value against
\* read_address and read_value.
THEOREM RecordIsRead ==
    ASSUME NEW a \in Access, NEW w, w = write_in_file(a, a.insns)
    PROVE  Whole(w) /\ read_transaction(w) = Transaction(a) <=> SameRecord(a)
<1>1. w \in Seq(Nat) /\ Len(w) \in Nat
  BY RecordBytes
<1>2. CASE SameRecord(a)
  <2>1. Len(w) <= Len(w) /\ \A k \in 1 .. Len(w) : w[k] = w[k]
    BY <1>1
  <2> QED
    BY <1>1, <1>2, <2>1, WholeRecord
<1>3. CASE ~ SameRecord(a)
  <2>0. a.store \in BOOLEAN /\ a.size \in 0 .. 4
    BY AccessFields
  <2>1. PICK p, s, f, l, h, v :
           /\ p = a.insns % DelayMod /\ s = write_size(a.size)
           /\ f = write_flags(a) /\ l = a.addr[1] /\ h = a.addr[2] /\ v = a.val
    OBVIOUS
  <2>2. CASE is_64_bits
    <3>1. a.store /\ a.size = 4
      BY <1>3, <2>2 DEF SameRecord
    <3>2. w = <<p, l, h, s, f>>
      BY <2>1, <2>2, <3>1, RecordForm
    <3>3. Len(w) = 5 /\ w[4] = s /\ w[5] = f
      BY <3>2
    <3>4. f \div 4 = 1
      BY <2>1, <3>1, FlagsRead
    <3>5. s = 68
      BY <2>1, <3>1 DEF write_size
    <3>6. 68 \div 16 = 4
      OBVIOUS
    <3>7. read_value(w)
      BY <3>3, <3>4, <3>5, <3>6 DEF read_value, IsStore
    <3> QED
      BY <1>3, <3>3, <3>7 DEF Whole
  <2>3. CASE ~ is_64_bits /\ ~ (a.store /\ a.size # 4)
    <3>1. w = <<p, l, s, f>>
      BY <2>1, <2>3, RecordForm
    <3>2. Len(w) = 4
      BY <3>1
    <3> QED
      BY <1>3, <3>2 DEF Whole
  <2>4. CASE ~ is_64_bits /\ a.store /\ a.size # 4
    <3>1. w = <<p, l, s, f, v>>
      BY <2>1, <2>4, RecordForm
    <3>2. w[4] = f
      BY <3>1
    <3>3. read_transaction(w).size = f % 16
      BY <3>2 DEF read_transaction
    <3>4. Transaction(a).size = a.size
      BY DEF Transaction
    <3>5. f = 4 \/ f = 5
      BY <2>1, <2>4 DEF write_flags
    <3>6. f % 16 # a.size
      BY <2>0, <2>4, <3>5
    <3> QED
      BY <1>3, <3>3, <3>4, <3>6
  <2> QED
    BY <2>2, <2>3, <2>4
<1> QED
  BY <1>2, <1>3

\* The bytes up to a record are the first of the stream.
LEMMA FlatCut ==
    ASSUME NEW s \in Seq(Access), NEW g, Flat(s, g)
    PROVE  \A i \in 0 .. Len(s) : /\ Len(g[i]) <= Len(g[Len(s)])
                                  /\ \A k \in 1 .. Len(g[i]) : g[i][k] = g[Len(s)][k]
<1>1. PICK n : n = Len(s)
  OBVIOUS
<1>2. n \in Nat /\ \A i \in 0 .. n : g[i] \in Seq(Nat) /\ Len(g[i]) \in Nat
  BY <1>1, FlatBytes
<1> DEFINE Good(i) == Len(g[i]) <= Len(g[n]) /\ \A k \in 1 .. Len(g[i]) : g[i][k] = g[n][k]
<1> DEFINE Bad == {d \in 0 .. n : ~ Good(n - d)}
<1>3. Bad = {}
  <2> SUFFICES ASSUME Bad # {} PROVE FALSE
    OBVIOUS
  <2>1. Bad \in SUBSET Nat
    BY <1>2
  <2>2. Min(Bad) \in Bad /\ \A m \in Bad : Min(Bad) <= m
    <3> HIDE DEF Bad
    <3> QED
      BY <2>1, MinNat
  <2>3. PICK d : d = Min(Bad)
    OBVIOUS
  <2>4. d \in 0 .. n /\ ~ Good(n - d) /\ \A m \in Bad : d <= m
    BY <2>2, <2>3
  <2>5. d # 0
    <3>1. n - 0 = n /\ Good(n)
      BY <1>2
    <3> QED
      BY <2>4, <3>1
  <2>6. d - 1 \in 0 .. n /\ d - 1 < d
    BY <1>2, <2>4, <2>5
  <2>7. Good(n - (d - 1))
    <3>1. d - 1 \notin Bad
      <4> HIDE DEF Bad
      <4> QED
        BY <1>2, <2>4, <2>6
    <3> QED
      BY <2>6, <3>1
  <2>8. PICK i, j : i = n - d /\ j = n - (d - 1)
    OBVIOUS
  <2>9. i \in 0 .. n /\ j \in 1 .. n /\ j - 1 = i
    BY <1>2, <2>4, <2>5, <2>8
  <2>10. PICK w : w = write_in_file(s[j], s[j].insns)
    OBVIOUS
  <2>11. g[j] = g[i] \o w /\ w \in Seq(Nat) /\ Len(w) \in Nat
    <3>1. s[j] \in Access
      BY <1>1, <2>9
    <3>2. w \in Seq(Nat)
      BY <2>10, <3>1, RecordBytes
    <3>3. g[j] = g[j - 1] \o write_in_file(s[j], s[j].insns)
      BY <1>1, <2>9, FlatStep
    <3>4. Len(w) \in Nat
      BY <3>2
    <3>5. g[j] = g[i] \o w
      BY <2>9, <2>10, <3>3, Zenon
    <3> QED
      BY <3>2, <3>4, <3>5
  <2>12. PICK x, y : x = g[i] /\ y = g[j]
    OBVIOUS
  <2>13. x \in Seq(Nat) /\ y = x \o w /\ Len(x) \in Nat
    BY <1>2, <2>9, <2>11, <2>12
  <2>14. Len(y) = Len(x) + Len(w) /\ \A k \in 1 .. Len(x) : y[k] = x[k]
    BY <2>11, <2>13
  <2>15. Len(y) <= Len(g[n]) /\ \A k \in 1 .. Len(y) : y[k] = g[n][k]
    BY <2>7, <2>8, <2>12
  <2>16. Len(g[n]) \in Nat
    BY <1>2
  <2>17. Len(x) <= Len(g[n]) /\ \A k \in 1 .. Len(x) : x[k] = g[n][k]
    BY ONLY <2>11, <2>13, <2>14, <2>15, <2>16
  <2>18. Good(i)
    BY <2>12, <2>17
  <2> QED
    BY <2>4, <2>8, <2>18
<1>4. ASSUME NEW i \in 0 .. n PROVE Good(i)
  <2>1. n - i \in 0 .. n /\ n - (n - i) = i
    BY <1>2
  <2> QED
    BY <1>3, <2>1
<1> QED
  BY <1>1, <1>4

\* What the sequence makes of the first u bytes of stream s: the transactions of
\* the first t records, and the beginning of the next one.
Recorded(g, t, u, s) ==
    /\ t \in 0 .. Len(accesses) /\ trans = SubSeq(Expected, 1, t)
    /\ rpc = "next" => u = Len(g[t])
    /\ rpc # "next" => /\ record \in Seq(Nat) /\ u = Len(g[t]) + Len(record)
                       /\ Continues(record, Len(g[t]), s)
                       /\ IF t = Len(accesses) THEN record = <<>>
                          ELSE u < Len(g[t + 1])

\* The records of the accesses, one after the other, as the reader expects them.
Streamed(g, s) ==
    accesses \in Seq(Access) /\ Flat(accesses, g) /\ s = g[Len(accesses)] /\ Replayable

\* The bytes of the next record.
LEMMA NextRecord ==
    ASSUME NEW g, NEW s, Streamed(g, s), NEW i \in 0 .. Len(accesses), i # Len(accesses),
           NEW w, w = write_in_file(accesses[i + 1], accesses[i + 1].insns)
    PROVE  /\ i + 1 \in 1 .. Len(accesses) /\ accesses[i + 1] \in Access
           /\ w \in Seq(Nat) /\ Len(w) \in {5, 6} /\ Len(g[i]) \in Nat
           /\ Len(g[i + 1]) = Len(g[i]) + Len(w) /\ Len(g[i + 1]) <= Len(s)
           /\ Continues(w, Len(g[i]), s)
<1>1. accesses \in Seq(Access) /\ Flat(accesses, g) /\ s = g[Len(accesses)]
  BY DEF Streamed
<1>2. PICK n, j, x, y : n = Len(accesses) /\ j = i + 1 /\ x = g[i] /\ y = g[j]
  OBVIOUS
<1>3. n \in Nat /\ i \in 0 .. n /\ j \in 1 .. n /\ j \in 0 .. n /\ j - 1 = i
  BY <1>1, <1>2
<1>4. accesses[j] \in Access
  BY <1>1, <1>2, <1>3
<1>5. w = write_in_file(accesses[j], accesses[j].insns)
  BY <1>2
<1>6. w \in Seq(Nat) /\ Len(w) \in {5, 6}
  <2>1. SameRecord(accesses[j])
    BY <1>2, <1>3 DEF Streamed, Replayable
  <2>2. w \in Seq(Nat) /\ Len(w) = IF accesses[j].store THEN 6 ELSE 5
    BY <1>4, <1>5, <2>1, RecordFields
  <2> QED
    BY <2>2
<1>7. x \in Seq(Nat)
  BY <1>1, <1>2, <1>3, FlatBytes
<1>8. y = x \o w
  <2>1. g[j] = g[j - 1] \o write_in_file(accesses[j], accesses[j].insns)
    BY <1>1, <1>2, <1>3, FlatStep
  <2> QED
    BY <1>2, <1>3, <1>5, <2>1, Zenon
<1>9. /\ Len(x) \in Nat /\ Len(y) = Len(x) + Len(w)
      /\ \A k \in 1 .. Len(w) : y[Len(x) + k] = w[k]
  BY <1>6, <1>7, <1>8
<1>10. Len(y) <= Len(s) /\ \A k \in 1 .. Len(y) : y[k] = s[k]
  <2>1. Len(g[j]) <= Len(g[n]) /\ \A k \in 1 .. Len(g[j]) : g[j][k] = g[n][k]
    BY <1>1, <1>2, <1>3, FlatCut
  <2> QED
    BY <1>1, <1>2, <2>1
<1>11. ASSUME NEW k \in 1 .. Len(w) PROVE w[k] = s[Len(x) + k]
  <2>1. PICK m : m = Len(x) + k
    OBVIOUS
  <2>2. m \in 1 .. Len(y)
    BY <1>6, <1>9, <2>1
  <2> QED
    BY <1>9, <1>10, <2>1, <2>2
<1>12. Continues(w, Len(x), s)
  BY <1>11 DEF Continues
<1> QED
  BY <1>2, <1>3, <1>4, <1>6, <1>9, <1>10, <1>12

\* The record cannot be the last one as long as the stream has more bytes.
LEMMA BytesLeft ==
    ASSUME NEW g, NEW s, Streamed(g, s), NEW t, NEW u, Recorded(g, t, u, s), rpc # "next",
           u < Len(s)
    PROVE  t # Len(accesses)
<1>1. s = g[Len(accesses)] /\ Len(s) \in Nat
  BY FlatBytes DEF Streamed
<1> SUFFICES ASSUME t = Len(accesses) PROVE FALSE
  OBVIOUS
<1>2. record = <<>> /\ u = Len(g[t]) + Len(record)
  BY DEF Recorded
<1>3. u = Len(s)
  BY <1>1, <1>2
<1> QED
  BY <1>1, <1>3

LEMMA ExpectedSeq ==
    ASSUME accesses \in Seq(Access)
    PROVE  \E S : Expected \in Seq(S) /\ Len(Expected) = Len(accesses)
<1>1. Len(accesses) \in Nat
  OBVIOUS
<1>2. PICK n, f : n = Len(accesses) /\ f = Expected
  OBVIOUS
<1>3. f = [i \in 1 .. n |-> f[i]]
  BY <1>2 DEF Expected
<1> DEFINE S == {f[i] : i \in 1 .. n}
<1>4. f \in [1 .. n -> S]
  BY <1>3
<1> HIDE DEF S
<1>5. f \in Seq(S) /\ Len(f) = n
  BY <1>1, <1>2, <1>4
<1> QED
  BY <1>2, <1>5

LEMMA OneMore ==
    ASSUME NEW S, NEW E \in Seq(S), NEW t \in Nat, t + 1 <= Len(E), NEW x, x = E[t + 1]
    PROVE  Append(SubSeq(E, 1, t), x) = SubSeq(E, 1, t + 1)
<1>1. PICK a, b : a = SubSeq(E, 1, t) /\ b = SubSeq(E, 1, t + 1)
  OBVIOUS
<1>2. a \in Seq(S) /\ Len(a) = t /\ \A i \in 1 .. t : a[i] = E[i]
  BY <1>1
<1>3. b \in Seq(S) /\ Len(b) = t + 1 /\ \A i \in 1 .. t + 1 : b[i] = E[i]
  BY <1>1
<1>4. x \in S
  OBVIOUS
<1>5. PICK c : c = Append(a, x)
  OBVIOUS
<1>6. c \in Seq(S) /\ Len(c) = t + 1 /\ \A i \in 1 .. t + 1 : c[i] = IF i = t + 1 THEN x ELSE a[i]
  BY <1>2, <1>4, <1>5
<1>7. \A i \in 1 .. t + 1 : c[i] = b[i]
  BY <1>2, <1>3, <1>6
<1>8. c = b
  BY <1>3, <1>6, <1>7, SeqEqual
<1> QED
  BY <1>1, <1>5, <1>8

\* get_content_of_trace uses the next byte of the stream.
LEMMA UsesByte ==
    ASSUME NEW g, NEW s \in Seq(Nat), Streamed(g, s), NEW t, NEW u \in Nat, Recorded(g, t, u, s),
           rpc # "next", u + 1 <= Len(s), NEW x, x = s[u + 1], NEW at, UseByte(x, at),
           accesses' = accesses
    PROVE  /\ \E i : Recorded(g, i, u + 1, s)'
           /\ read_buffer' = at + 1 /\ rpc' \in {"next", "get"}
<1>1. /\ t \in 0 .. Len(accesses) /\ trans = SubSeq(Expected, 1, t)
      /\ record \in Seq(Nat) /\ u = Len(g[t]) + Len(record) /\ Continues(record, Len(g[t]), s)
  BY DEF Recorded
<1>2. t # Len(accesses)
  <2>1. u < Len(s)
    OBVIOUS
  <2> QED
    BY <2>1, BytesLeft
<1>3. PICK a, w : a = accesses[t + 1] /\ w = write_in_file(a, a.insns)
  OBVIOUS
<1>4. /\ t + 1 \in 1 .. Len(accesses) /\ a \in Access
      /\ w \in Seq(Nat) /\ Len(w) \in {5, 6} /\ Len(g[t]) \in Nat
      /\ Len(g[t + 1]) = Len(g[t]) + Len(w) /\ Len(g[t + 1]) <= Len(s)
      /\ Continues(w, Len(g[t]), s)
  BY <1>1, <1>2, <1>3, NextRecord
<1>5. u < Len(g[t + 1])
  BY <1>2 DEF Recorded
<1>6. PICK r, o, l : r = Append(record, x) /\ o = Len(g[t]) /\ l = Len(record)
  OBVIOUS
<1>7. /\ o \in Nat /\ l \in Nat /\ u = o + l /\ Len(w) \in Nat /\ l + 1 <= Len(w)
  <2>1. Len(w) \in Nat /\ o \in Nat /\ l \in Nat /\ u = o + l
    BY <1>1, <1>4, <1>6
  <2>2. u < o + Len(w)
    BY <1>4, <1>5, <1>6
  <2> QED
    BY ONLY <2>1, <2>2
<1>8. x \in Nat
  <2>1. u + 1 \in 1 .. Len(s)
    OBVIOUS
  <2> QED
    BY <2>1, ElementOfSeq
<1>9. /\ r \in Seq(Nat) /\ Len(r) = l + 1 /\ r[l + 1] = x /\ \A k \in 1 .. l : r[k] = record[k]
  <2>1. PICK q : q = record
    OBVIOUS
  <2>2. q \in Seq(Nat) /\ r = Append(q, x) /\ l = Len(q)
    BY <1>1, <1>6, <2>1
  <2>3. /\ r \in Seq(Nat) /\ Len(r) = l + 1 /\ r[l + 1] = x /\ \A k \in 1 .. l : r[k] = q[k]
    BY ONLY <1>8, <2>2
  <2> QED
    BY <2>1, <2>3
<1>10. \A k \in 1 .. Len(r) : r[k] = s[o + k] /\ r[k] = w[k]
  <2>1. ASSUME NEW k \in 1 .. Len(r) PROVE r[k] = s[o + k] /\ r[k] = w[k]
    <3>1. k \in 1 .. Len(w)
      BY <1>7, <1>9
    <3>2. w[k] = s[o + k]
      BY <1>4, <1>6, <3>1 DEF Continues
    <3>3. CASE k = l + 1
      <4>1. o + k = u + 1
        BY <1>7, <3>3
      <4> QED
        BY <1>9, <3>2, <3>3, <4>1
    <3>4. CASE k # l + 1
      <4>1. k \in 1 .. l
        BY <1>7, <1>9, <3>4
      <4>2. record[k] = s[o + k]
        BY <1>1, <1>6, <4>1 DEF Continues
      <4> QED
        BY <1>9, <3>2, <4>1, <4>2
    <3> QED
      BY <3>3, <3>4
  <2> QED
    BY <2>1
<1>11. /\ Whole(r) <=> Len(r) = Len(w)
       /\ Whole(r) => read_transaction(r) = Expected[t + 1]
  <2>1. Expected[t + 1] = Transaction(a)
    BY <1>3, <1>4, Zenon DEF Expected
  <2>2. Len(r) <= Len(w) /\ \A k \in 1 .. Len(r) : r[k] = w[k]
    BY <1>7, <1>9, <1>10
  <2>3. a \in Access /\ w = write_in_file(a, a.insns) /\ r \in Seq(Nat) /\ SameRecord(a)
    BY <1>3, <1>4, <1>9 DEF Streamed, Replayable
  <2>4. /\ Whole(r) <=> Len(r) = Len(w)
        /\ Whole(r) => read_transaction(r) = Transaction(a)
    BY ONLY <2>2, <2>3, WholeRecord, Zenon
  <2>5. PICK y : y = Expected[t + 1]
    OBVIOUS
  <2>6. Whole(r) => read_transaction(r) = y
    BY <2>1, <2>4, <2>5
  <2> QED
    BY <2>4, <2>5, <2>6, Zenon
<1>12. /\ read_buffer' = at + 1
       /\ IF Whole(r) THEN /\ trans' = Append(trans, read_transaction(r))
                           /\ record' = r /\ rpc' = "next"
                      ELSE record' = r /\ rpc' = "get" /\ trans' = trans
  BY <1>6 DEF UseByte
<1>13. Expected' = Expected
  BY DEF Expected
<1>14. u + 1 = o + Len(r) /\ Continues(r, o, s)
  <2>1. PICK k : k = Len(r)
    OBVIOUS
  <2>2. k = l + 1 /\ o \in Nat /\ l \in Nat /\ u = o + l
    BY <1>7, <1>9, <2>1
  <2>3. u + 1 = o + k
    BY ONLY <2>2
  <2>4. Continues(r, o, s)
    BY ONLY <1>10 DEF Continues
  <2> QED
    BY <2>1, <2>3, <2>4
<1>15. CASE Whole(r)
  <2>1. u + 1 = Len(g[t + 1])
    <3>1. Len(r) = Len(w) /\ Len(g[t + 1]) = o + Len(w)
      BY <1>4, <1>6, <1>11, <1>15
    <3>2. PICK m, k, h : m = Len(w) /\ k = Len(r) /\ h = Len(g[t + 1])
      OBVIOUS
    <3>3. m = l + 1 /\ h = o + m
      BY <1>9, <3>1, <3>2
    <3>4. u + 1 = h
      BY ONLY <1>7, <3>3
    <3> QED
      BY <3>2, <3>4
  <2>2. trans' = SubSeq(Expected, 1, t + 1)
    <3>1. PICK S : Expected \in Seq(S) /\ Len(Expected) = Len(accesses)
      BY ExpectedSeq DEF Streamed
    <3>2. t \in Nat /\ t + 1 <= Len(Expected)
      BY <1>1, <1>4, <3>1
    <3>3. PICK E, y : E = Expected /\ y = Expected[t + 1]
      OBVIOUS
    <3>4. Append(SubSeq(E, 1, t), y) = SubSeq(E, 1, t + 1)
      BY <3>1, <3>2, <3>3, OneMore
    <3> QED
      BY <1>1, <1>11, <1>12, <1>15, <3>3, <3>4
  <2>3. t + 1 \in 0 .. Len(accesses)
    BY <1>4
  <2>4. Recorded(g, t + 1, u + 1, s)'
    BY <1>12, <1>13, <1>15, <2>1, <2>2, <2>3 DEF Recorded
  <2> QED
    BY <1>12, <1>15, <2>4
<1>16. CASE ~ Whole(r)
  <2>1. u + 1 < Len(g[t + 1])
    <3>1. Len(r) # Len(w) /\ Len(g[t + 1]) = o + Len(w)
      BY <1>4, <1>6, <1>11, <1>16
    <3> QED
      BY ONLY <1>7, <1>9, <3>1
  <2>2. record' = r /\ rpc' = "get" /\ trans' = trans
    BY <1>12, <1>16
  <2>3. Recorded(g, t, u + 1, s)'
    BY <1>1, <1>2, <1>6, <1>9, <1>13, <1>14, <2>1, <2>2 DEF Recorded
  <2> QED
    BY <1>12, <2>2, <2>3
<1> QED
  BY <1>15, <1>16

\* The decompressor has done all units: it has all bytes of the stream.
LEMMA AllInflated ==
    ASSUME NEW F, NEW T, NEW s, NEW pos, NEW ctl, NEW j, NEW p, NEW n,
           Path(F, T, s, pos, ctl), Inflating(F, T, s, pos, ctl, j, p, n), inf.pc = "done"
    PROVE  p = Len(s)
<1>1. Unread(inf.ahead, inp, j, fpos, F, T) /\ Doing(inf, ctl[j], pos[j], p, s)
  BY DEF Inflating
<1>2. ctl[j] = AtEnd /\ pos[j] = p
  BY <1>1 DEF Doing
<1>3. PICK l, a, b : l = Len(F) /\ a = Len(inf.ahead) /\ b = Len(inp)
  OBVIOUS
<1>4. l \in Nat /\ a \in Nat /\ b \in Nat /\ j \in Nat /\ j + a + b <= l
  BY <1>1, <1>3 DEF Unread, Path
<1>5. j = l
  <2> SUFFICES ASSUME j # l PROVE FALSE
    OBVIOUS
  <2>1. PICK i : i = j + 1
    OBVIOUS
  <2>2. i \in 1 .. l /\ i - 1 = j
    BY <1>4, <2>1
  <2>3. Frame(F[i], ctl[i - 1], ctl[i])
    BY <1>3, <2>2 DEF Path
  <2>4. Frame(F[i], AtEnd, ctl[i])
    BY <1>2, <2>2, <2>3
  <2> QED
    BY <2>4, NoneAtEnd
<1>6. pos[l] = Len(s)
  BY <1>3 DEF Path
<1> QED
  BY <1>2, <1>5, <1>6

\* The buffer of the reader has the bytes of stream s after the first u, up to n;
\* while it is refilled, the bytes the decompressor gave are the next ones.
Buffered(u, n, s) ==
    /\ u \in Nat /\ end_buffer \in Nat /\ read_buffer \in Nat /\ read_buffer <= end_buffer
    /\ buf \in Seq(Nat) /\ end_buffer <= Len(buf)
    /\ \A k \in 1 .. end_buffer - read_buffer : buf[read_buffer + k] = s[u + k]
    /\ rpc \in {"next", "get"} => /\ n = u + (end_buffer - read_buffer)
                                  /\ inp = <<>> /\ ipc = "idle"
                                  /\ bool_finish => n = Len(s)
    /\ rpc = "refill" => read_buffer = 0 /\ ipc = "idle" /\ n = u + end_buffer
    /\ rpc = "inflate" => read_buffer = 0 /\ Given(u + end_buffer, n, s)

LEMMA Overwritten ==
    ASSUME NEW b \in Seq(Nat), NEW at \in Nat, at <= Len(b), NEW bytes \in Seq(Nat),
           NEW new, new = Overwrite(b, at, bytes)
    PROVE  /\ new \in Seq(Nat) /\ at + Len(bytes) <= Len(new)
           /\ \A k \in 1 .. at : new[k] = b[k]
           /\ \A k \in 1 .. Len(bytes) : new[at + k] = bytes[k]
<1>1. PICK l, m, h : l = Len(b) /\ m = Len(bytes) /\ h = Max({l, at + m})
  OBVIOUS
<1>2. l \in Nat /\ m \in Nat /\ at \in Nat /\ at <= l
  BY <1>1
<1>3. h \in Nat /\ h >= l /\ h >= at + m /\ (h = l \/ h = at + m)
  <2>1. PICK e : e = at + m
    OBVIOUS
  <2>2. e \in Nat /\ h = Max({l, e})
    BY <1>1, <1>2, <2>1
  <2>3. h = CHOOSE x \in {l, e} : \A y \in {l, e} : x >= y
    BY <2>2 DEF Max
  <2>4. \E x \in {l, e} : \A y \in {l, e} : x >= y
    BY <1>2, <2>2
  <2>5. h \in {l, e} /\ \A y \in {l, e} : h >= y
    BY <2>3, <2>4, Zenon
  <2> QED
    BY <1>2, <2>1, <2>2, <2>5
<1>4. new = [i \in 1 .. h |-> IF i > at /\ i <= at + m THEN bytes[i - at] ELSE b[i]]
  BY <1>1 DEF Overwrite
<1>5. ASSUME NEW i \in 1 .. h
      PROVE  (IF i > at /\ i <= at + m THEN bytes[i - at] ELSE b[i]) \in Nat
  <2>1. CASE i > at /\ i <= at + m
    <3>1. i - at \in 1 .. m
      BY <1>2, <2>1
    <3>2. bytes[i - at] \in Nat
      BY <1>1, <3>1, ElementOfSeq
    <3> QED
      BY <2>1, <3>2
  <2>2. CASE ~ (i > at /\ i <= at + m)
    <3>1. i \in 1 .. l
      BY <1>2, <1>3, <2>2
    <3>2. b[i] \in Nat
      BY <1>1, <3>1, ElementOfSeq
    <3> QED
      BY <2>2, <3>2
  <2> QED
    BY <2>1, <2>2
<1>6. new \in [1 .. h -> Nat]
  BY <1>4, <1>5
<1>7. new \in Seq(Nat) /\ Len(new) = h
  BY <1>3, <1>6
<1>8. ASSUME NEW k \in 1 .. at PROVE new[k] = b[k]
  <2>1. k \in 1 .. h /\ ~ (k > at)
    BY <1>2, <1>3
  <2> QED
    BY <1>4, <2>1
<1>9. ASSUME NEW k \in 1 .. m PROVE new[at + k] = bytes[k]
  <2>1. PICK i : i = at + k
    OBVIOUS
  <2>2. i \in 1 .. h /\ i > at /\ i <= at + m /\ i - at = k
    BY <1>2, <1>3, <2>1
  <2>3. new[i] = bytes[i - at]
    BY <1>4, <2>2
  <2> QED
    BY <2>1, <2>2, <2>3
<1> QED
  BY <1>1, <1>3, <1>7, <1>8, <1>9

\* Reading a chunk of the file.
LEMMA ChunkRead ==
    ASSUME NEW F, NEW T, F \in Seq(T), NEW a, NEW j, NEW fp, Unread(a, <<>>, j, fp, F, T),
           NEW c \in Nat, NEW m, m = Min({fp + c, Len(F)})
    PROVE  Unread(a, SubSeq(F, fp + 1, m), j, m, F, T)
<1>1. PICK l, k : l = Len(F) /\ k = Len(a)
  OBVIOUS
<1>2. l \in Nat /\ k \in Nat /\ fp \in Nat /\ fp <= l /\ fp = j + k /\ j \in Nat /\ a \in Seq(T)
      /\ Continues(a, j, F)
  <2>1. Len(<<>>) = 0
    OBVIOUS
  <2> QED
    BY <1>1, <2>1 DEF Unread
<1>3. m \in Nat /\ fp <= m /\ m <= l
  <2>1. PICK e : e = fp + c
    OBVIOUS
  <2>2. e \in Nat /\ fp <= e /\ m = Min({e, l})
    BY <1>1, <1>2, <2>1
  <2>3. m \in Nat /\ m <= l /\ (m = e \/ m = l)
    BY <1>2, <2>2, MinOfTwo
  <2> QED
    BY <1>2, <2>2, <2>3
<1>4. PICK b : b = SubSeq(F, fp + 1, m)
  OBVIOUS
<1>5. /\ b \in Seq(T) /\ Len(b) = m - fp /\ \A i \in 1 .. m - fp : b[i] = F[fp + i]
  <2>1. PICK o : o = fp + 1
    OBVIOUS
  <2>2. F \in Seq(T) /\ b = SubSeq(F, o, m) /\ l = Len(F)
    BY <1>1, <1>4, <2>1
  <2>3. o \in Int /\ m \in Int /\ o \in 1 .. l + 1 /\ (o <= m \/ m - o + 1 = 0)
    BY ONLY <1>2, <1>3, <2>1
  <2>4. \A i \in o .. m : F[i] \in T
    <3>1. ASSUME NEW i \in o .. m PROVE F[i] \in T
      <4>1. i \in 1 .. l
        BY ONLY <1>2, <1>3, <2>1, <3>1
      <4> QED
        BY ONLY <2>2, <4>1, ElementOfSeq
    <3> QED
      BY <3>1
  <2>5. /\ b \in Seq(T) /\ Len(b) = (IF o <= m THEN m - o + 1 ELSE 0)
        /\ \A i \in 1 .. m - o + 1 : b[i] = F[o + i - 1]
    BY ONLY <2>2, <2>3, <2>4, SubSeqProperties
  <2>6. b \in Seq(T) /\ Len(b) = m - o + 1 /\ \A i \in 1 .. m - o + 1 : b[i] = F[o + i - 1]
    BY ONLY <2>3, <2>5
  <2>7. m - o + 1 = m - fp /\ \A i \in 1 .. m - fp : o + i - 1 = fp + i
    BY ONLY <1>2, <1>3, <2>1
  <2> QED
    BY <2>6, <2>7
<1>6. m = j + k + Len(b)
  BY <1>2, <1>3, <1>5
<1>7. Continues(b, j + k, F)
  BY <1>2, <1>5 DEF Continues
<1>8. Unread(a, b, j, m, F, T)
  BY <1>1, <1>2, <1>3, <1>5, <1>6, <1>7 DEF Unread
<1> QED
  BY <1>4, <1>8

\* The state of the replay: the decompressor, the buffer and the records.
Reading(F, T, s, pos, ctl, g, j, p, n, u, t) ==
    Inflating(F, T, s, pos, ctl, j, p, n) /\ Buffered(u, n, s) /\ Recorded(g, t, u, s)

LEMMA InflatingSame ==
    ASSUME NEW F, NEW T, NEW s, NEW pos, NEW ctl, NEW j, NEW p, NEW n,
           Inflating(F, T, s, pos, ctl, j, p, n), UNCHANGED <<inflateVars, fpos>>
    PROVE  Inflating(F, T, s, pos, ctl, j, p, n)'
<1>1. /\ inf' = inf /\ win' = win /\ dofs' = dofs /\ davail' = davail /\ last' = last
      /\ inp' = inp /\ droom' = droom /\ icall' = icall /\ ipc' = ipc /\ fpos' = fpos
  BY DEF inflateVars
<1>2. InflateOK' /\ Owed(p, n, s)' /\ Ending'
  BY <1>1 DEF Inflating, InflateOK, Owed, Ending
<1> QED
  BY <1>1, <1>2 DEF Inflating

\* The bytes that are given are bytes of the stream.
LEMMA GivenInStream ==
    ASSUME NEW F, NEW T, NEW s \in Seq(Nat), NEW pos, NEW ctl, NEW j, NEW p, NEW n,
           Inflating(F, T, s, pos, ctl, j, p, n)
    PROVE  n \in Nat /\ Len(s) \in Nat /\ n <= Len(s)
<1>1. PICK m, a, l : m = inf.n /\ a = davail /\ l = Len(s)
  OBVIOUS
<1>2. n \in Nat /\ p \in Nat /\ m \in Nat /\ a \in Nat /\ l \in Nat /\ p = n + m + a /\ p <= l
  <2>1. Dict \in Nat
    BY DeflateAssumption
  <2> QED
    BY <1>1, <2>1 DEF Inflating, Owed
<1>3. n <= l
  BY ONLY <1>2
<1> QED
  BY <1>1, <1>2, <1>3

LEMMA RunsTrace ==
    ASSUME NEW F, NEW T, NEW s \in Seq(Nat), NEW pos, NEW ctl, NEW g, NEW j, NEW p, NEW n, NEW u,
           NEW t, Streamed(g, s), Reading(F, T, s, pos, ctl, g, j, p, n, u, t),
           RunTrace, accesses' = accesses
    PROVE  \/ rpc' = "done" /\ trans' = Expected'
           \/ rpc' = "get" /\ Reading(F, T, s, pos, ctl, g, j, p, n, u, t)'
<1>1. /\ rpc = "next" /\ record' = <<>> /\ rpc' = (IF is_finish THEN "done" ELSE "get")
      /\ fpos' = fpos /\ buf' = buf /\ end_buffer' = end_buffer /\ read_buffer' = read_buffer
      /\ bool_finish' = bool_finish /\ trans' = trans /\ UNCHANGED inflateVars
  BY DEF RunTrace
<1>2. Inflating(F, T, s, pos, ctl, j, p, n) /\ Buffered(u, n, s) /\ Recorded(g, t, u, s)
  BY DEF Reading
<1>3. t \in 0 .. Len(accesses) /\ trans = SubSeq(Expected, 1, t) /\ u = Len(g[t])
  BY <1>1, <1>2 DEF Recorded
<1>4. Expected' = Expected
  BY DEF Expected
<1>5. accesses \in Seq(Access) /\ Len(accesses) \in Nat
  BY DEF Streamed
<1>6. t # Len(accesses) => u < Len(g[t + 1]) /\ Len(g[t + 1]) <= Len(s)
  <2> SUFFICES ASSUME t # Len(accesses)
               PROVE  u < Len(g[t + 1]) /\ Len(g[t + 1]) <= Len(s)
    OBVIOUS
  <2>1. PICK w : w = write_in_file(accesses[t + 1], accesses[t + 1].insns)
    OBVIOUS
  <2>2. /\ Len(w) \in {5, 6} /\ Len(g[t]) \in Nat
        /\ Len(g[t + 1]) = Len(g[t]) + Len(w) /\ Len(g[t + 1]) <= Len(s)
    BY <1>3, <2>1, NextRecord
  <2>3. PICK m, k : m = Len(w) /\ k = Len(g[t + 1])
    OBVIOUS
  <2>4. u \in Nat /\ k = u + m /\ (m = 5 \/ m = 6)
    BY <1>3, <2>2, <2>3
  <2>5. u < k
    BY ONLY <2>4
  <2> QED
    BY <2>2, <2>3, <2>5
<1>7. CASE is_finish
  <2>1. n = Len(s) /\ n = u + (end_buffer - read_buffer) /\ end_buffer - read_buffer = 0
        /\ u \in Nat
    BY <1>1, <1>2, <1>7 DEF Buffered, is_finish
  <2>2. u = Len(s)
    BY <2>1
  <2>3. t = Len(accesses)
    <3> SUFFICES ASSUME t # Len(accesses) PROVE FALSE
      OBVIOUS
    <3>1. PICK k, l : k = Len(g[t + 1]) /\ l = Len(s)
      OBVIOUS
    <3>2. u < k /\ k <= l /\ u = l /\ l \in Nat /\ k \in Nat
      <4>1. t + 1 \in 0 .. Len(accesses)
        BY <1>3, <1>5
      <4>2. g[t + 1] \in Seq(Nat)
        BY <1>5, <4>1, FlatBytes DEF Streamed
      <4> QED
        BY <1>6, <2>2, <3>1, <4>2
    <3> QED
      BY ONLY <3>2
  <2>4. PICK S : Expected \in Seq(S) /\ Len(Expected) = Len(accesses)
    BY <1>5, ExpectedSeq
  <2>5. PICK E : E = Expected
    OBVIOUS
  <2>6. E \in Seq(S) /\ trans = SubSeq(E, 1, Len(E))
    BY <1>3, <2>3, <2>4, <2>5
  <2>7. SubSeq(E, 1, Len(E)) = E
    BY <2>6
  <2> QED
    BY <1>1, <1>4, <1>7, <2>5, <2>6, <2>7
<1>8. CASE ~ is_finish
  <2>1. rpc' = "get"
    BY <1>1, <1>8
  <2>2. Inflating(F, T, s, pos, ctl, j, p, n)'
    BY <1>1, <1>2, InflatingSame
  <2>3. Buffered(u, n, s)'
    BY <1>1, <1>2, <2>1 DEF Buffered, inflateVars
  <2>4. Recorded(g, t, u, s)'
    <3>1. record' \in Seq(Nat) /\ Len(record') = 0
      BY <1>1
    <3>2. Continues(record', Len(g[t]), s)
      BY <3>1 DEF Continues
    <3>3. u = Len(g[t]) + Len(record')
      <4>1. u \in Nat
        BY <1>2 DEF Buffered
      <4> QED
        BY <1>3, <3>1, <4>1
    <3> QED
      BY <1>1, <1>3, <1>4, <1>6, <2>1, <3>1, <3>2, <3>3 DEF Recorded
  <2> QED
    BY <2>1, <2>2, <2>3, <2>4 DEF Reading
<1> QED
  BY <1>7, <1>8

LEMMA GetsContent ==
    ASSUME NEW F, NEW T, NEW s \in Seq(Nat), NEW pos, NEW ctl, NEW g, NEW j, NEW p, NEW n, NEW u,
           NEW t, Streamed(g, s), Reading(F, T, s, pos, ctl, g, j, p, n, u, t),
           get_content_of_trace, accesses' = accesses
    PROVE  /\ rpc' \in {"next", "get"}
           /\ \E v, i : Reading(F, T, s, pos, ctl, g, j, p, n, v, i)'
<1>1. Inflating(F, T, s, pos, ctl, j, p, n) /\ Buffered(u, n, s) /\ Recorded(g, t, u, s)
  BY DEF Reading
<1>2. /\ rpc = "get" /\ read_buffer # end_buffer
      /\ fpos' = fpos /\ buf' = buf /\ end_buffer' = end_buffer
      /\ bool_finish' = bool_finish /\ UNCHANGED inflateVars
  BY DEF get_content_of_trace
<1>3. PICK r, e, b : r = read_buffer /\ e = end_buffer /\ b = buf
  OBVIOUS
<1>4. /\ u \in Nat /\ r \in Nat /\ e \in Nat /\ r < e /\ b \in Seq(Nat) /\ e <= Len(b)
      /\ n = u + (e - r) /\ \A k \in 1 .. e - r : b[r + k] = s[u + k]
  BY <1>1, <1>2, <1>3 DEF Buffered
<1>5. n \in Nat /\ Len(s) \in Nat /\ n <= Len(s)
  BY <1>1, GivenInStream
<1>6. PICK x : x = b[r + 1]
  OBVIOUS
<1>7. x = s[u + 1] /\ u + 1 <= Len(s) /\ r < Len(b)
  <2>1. 1 \in 1 .. e - r /\ u + 1 <= n
    BY ONLY <1>4
  <2>2. x = s[u + 1]
    BY ONLY <1>4, <1>6, <2>1
  <2>3. Len(b) \in Nat
    BY <1>4
  <2> QED
    BY <1>4, <1>5, <2>1, <2>2, <2>3
<1>8. UseByte(x, r)
  BY <1>3, <1>6, <1>7 DEF get_content_of_trace
<1>9. /\ \E i : Recorded(g, i, u + 1, s)'
      /\ read_buffer' = r + 1 /\ rpc' \in {"next", "get"}
  BY <1>1, <1>2, <1>4, <1>7, <1>8, UsesByte
<1>10. Inflating(F, T, s, pos, ctl, j, p, n)'
  BY <1>1, <1>2, InflatingSame
<1>11. Buffered(u + 1, n, s)'
  <2>1. /\ u + 1 \in Nat /\ r + 1 \in Nat /\ r + 1 <= e /\ n = (u + 1) + (e - (r + 1))
    BY ONLY <1>4
  <2>2. ASSUME NEW k \in 1 .. e - (r + 1) PROVE b[(r + 1) + k] = s[(u + 1) + k]
    <3>1. PICK h : h = k + 1
      OBVIOUS
    <3>2. h \in 1 .. e - r /\ r + h = (r + 1) + k /\ u + h = (u + 1) + k
      BY <1>4, <3>1
    <3>3. b[r + h] = s[u + h]
      BY ONLY <1>4, <3>2
    <3> QED
      BY <3>2, <3>3
  <2>3. /\ end_buffer' = e /\ read_buffer' = r + 1 /\ buf' = b /\ inp' = <<>> /\ ipc' = "idle"
        /\ (bool_finish' => n = Len(s))
    BY <1>1, <1>2, <1>3, <1>9 DEF Buffered, inflateVars
  <2>4. rpc' # "refill" /\ rpc' # "inflate"
    BY <1>9
  <2> QED
    BY <1>4, <2>1, <2>2, <2>3, <2>4 DEF Buffered
<1> QED
  BY <1>9, <1>10, <1>11 DEF Reading

LEMMA ReadsChunk ==
    ASSUME NEW F, NEW T, NEW s, NEW pos, NEW ctl, NEW g, NEW j, NEW p, NEW n, NEW u, NEW t,
           F = file, F \in Seq(T), chunk \in Nat, Reading(F, T, s, pos, ctl, g, j, p, n, u, t),
           ReadChunk, accesses' = accesses
    PROVE  rpc' = "refill" /\ Reading(F, T, s, pos, ctl, g, j, p, n, u, t)'
<1>1. Inflating(F, T, s, pos, ctl, j, p, n) /\ Buffered(u, n, s) /\ Recorded(g, t, u, s)
  BY DEF Reading
<1>2. PICK fp, c, m, a : /\ fp = fpos /\ c = chunk /\ m = Min({fp + c, Len(F)}) /\ a = inf.ahead
  OBVIOUS
<1>3. /\ rpc = "get" /\ read_buffer = end_buffer /\ ipc = "idle"
      /\ end_buffer' = 0 /\ read_buffer' = 0 /\ rpc' = "refill"
      /\ inp' = SubSeq(F, fp + 1, m) /\ fpos' = m
      /\ buf' = buf /\ record' = record /\ trans' = trans
      /\ inf' = inf /\ win' = win /\ dofs' = dofs /\ davail' = davail /\ last' = last
      /\ droom' = droom /\ icall' = icall /\ ipc' = ipc
  BY <1>2 DEF ReadChunk
<1>4. Unread(a, <<>>, j, fp, F, T)
  BY <1>1, <1>2, <1>3 DEF Inflating, Buffered
<1>5. Unread(a, SubSeq(F, fp + 1, m), j, m, F, T)
  BY <1>2, <1>4, ChunkRead
<1>6. Inflating(F, T, s, pos, ctl, j, p, n)'
  <2>1. InflateOK' /\ Owed(p, n, s)' /\ Ending'
    BY <1>1, <1>3 DEF Inflating, InflateOK, Owed, Ending
  <2>2. Unread(inf.ahead, inp, j, fpos, F, T)'
    BY <1>2, <1>3, <1>5
  <2>3. Doing(inf', ctl[j], pos[j], p, s) /\ Window(win', p, s)
    BY <1>1, <1>3 DEF Inflating
  <2> QED
    BY <2>1, <2>2, <2>3 DEF Inflating
<1>7. Buffered(u, n, s)'
  <2>1. /\ u \in Nat /\ n = u + (end_buffer - end_buffer) /\ end_buffer \in Nat
        /\ buf \in Seq(Nat) /\ Len(buf) \in Nat
    BY <1>1, <1>3 DEF Buffered
  <2>2. n = u + 0 /\ 0 <= Len(buf')
    BY <1>3, <2>1
  <2>3. \A k \in 1 .. 0 - 0 : buf'[0 + k] = s[u + k]
    OBVIOUS
  <2>4. rpc' \notin {"next", "get"} /\ rpc' # "inflate"
    BY <1>3
  <2> QED
    BY <1>3, <2>1, <2>2, <2>3, <2>4 DEF Buffered
<1>8. Recorded(g, t, u, s)'
  <2>1. Expected' = Expected
    BY DEF Expected
  <2> QED
    BY <1>1, <1>3, <2>1 DEF Recorded
<1> QED
  BY <1>3, <1>6, <1>7, <1>8 DEF Reading

LEMMA InflatesChunk ==
    ASSUME NEW F, NEW T, NEW s, NEW pos, NEW ctl, NEW g, NEW j, NEW p, NEW n, NEW u, NEW t,
           Reading(F, T, s, pos, ctl, g, j, p, n, u, t), InflateChunk, accesses' = accesses
    PROVE  rpc' = "inflate" /\ Reading(F, T, s, pos, ctl, g, j, p, n, u, t)'
<1>1. Inflating(F, T, s, pos, ctl, j, p, n) /\ Buffered(u, n, s) /\ Recorded(g, t, u, s)
  BY DEF Reading
<1>2. /\ rpc = "refill" /\ rpc' = "inflate" /\ mz_inflate(OutChunk) /\ fpos' = fpos /\ buf' = buf
      /\ end_buffer' = end_buffer /\ read_buffer' = read_buffer
      /\ record' = record /\ trans' = trans
  BY DEF InflateChunk
<1>3. Inflating(F, T, s, pos, ctl, j, p, n)' /\ Given(n, n, s)'
  BY <1>1, <1>2, TraceAssumption, Calls
<1>4. Buffered(u, n, s)'
  <2>1. read_buffer' = 0 /\ n = u + end_buffer'
    BY <1>1, <1>2 DEF Buffered
  <2>2. Given(u + end_buffer, n, s)'
    BY <1>3, <2>1
  <2>3. rpc' \notin {"next", "get"} /\ rpc' # "refill"
    BY <1>2
  <2>4. /\ u \in Nat /\ end_buffer' \in Nat /\ read_buffer' \in Nat /\ read_buffer' <= end_buffer'
        /\ buf' \in Seq(Nat) /\ end_buffer' <= Len(buf')
        /\ \A k \in 1 .. end_buffer' - read_buffer' : buf'[read_buffer' + k] = s[u + k]
    BY <1>1, <1>2 DEF Buffered
  <2> QED
    BY <2>1, <2>2, <2>3, <2>4 DEF Buffered
<1>5. Recorded(g, t, u, s)'
  <2>1. Expected' = Expected
    BY DEF Expected
  <2> QED
    BY <1>1, <1>2, <2>1 DEF Recorded
<1> QED
  BY <1>2, <1>3, <1>4, <1>5 DEF Reading

LEMMA InflatesOn ==
    ASSUME NEW F, NEW T, NEW s \in Seq(Nat), NEW pos, NEW ctl, NEW g, NEW j, NEW p, NEW n, NEW u,
           NEW t, Path(F, T, s, pos, ctl), Reading(F, T, s, pos, ctl, g, j, p, n, u, t),
           rpc = "inflate", InflateNext, UNCHANGED readerVars, accesses' = accesses
    PROVE  /\ rpc' = "inflate"
           /\ \E i, q, m : Reading(F, T, s, pos, ctl, g, i, q, m, u, t)'
<1>1. Inflating(F, T, s, pos, ctl, j, p, n) /\ Buffered(u, n, s) /\ Recorded(g, t, u, s)
  BY DEF Reading
<1>2. /\ rpc' = "inflate" /\ fpos' = fpos /\ buf' = buf /\ end_buffer' = end_buffer
      /\ read_buffer' = read_buffer /\ record' = record /\ trans' = trans
  BY DEF readerVars
<1>3. PICK o : o = u + end_buffer
  OBVIOUS
<1>4. o \in Nat /\ Given(o, n, s)
  BY <1>1, <1>3 DEF Buffered
<1>5. \E i, q, m : Inflating(F, T, s, pos, ctl, i, q, m)' /\ Given(o, m, s)'
  <2>1. CASE tinfl_decompress
    <3>1. dst' = dst /\ \E i, q : Inflating(F, T, s, pos, ctl, i, q, n)'
      BY <1>1, <1>2, <2>1, Decompresses
    <3>2. Given(o, n, s)'
      BY <1>4, <3>1 DEF Given
    <3> QED
      BY <3>1, <3>2
  <2>2. CASE InflateDrain
    <3>1. \E k : Inflating(F, T, s, pos, ctl, j, p, k)' /\ Given(o, k, s)'
      BY <1>1, <1>2, <1>4, <2>2, Drains
    <3> QED
      BY <3>1
  <2>3. CASE InflateLoop
    <3>1. \E k : Inflating(F, T, s, pos, ctl, j, p, k)' /\ Given(o, k, s)'
      BY <1>1, <1>2, <1>4, <2>3, Loops
    <3> QED
      BY <3>1
  <2> QED
    BY <2>1, <2>2, <2>3 DEF InflateNext
<1>6. PICK i, q, m : Inflating(F, T, s, pos, ctl, i, q, m)' /\ Given(o, m, s)'
  BY <1>5
<1>7. Buffered(u, m, s)'
  <2>1. read_buffer' = 0
    BY <1>1, <1>2 DEF Buffered
  <2>2. Given(u + end_buffer, m, s)'
    BY <1>2, <1>3, <1>6
  <2>3. rpc' \notin {"next", "get"} /\ rpc' # "refill"
    BY <1>2
  <2>4. /\ u \in Nat /\ end_buffer' \in Nat /\ read_buffer' \in Nat /\ read_buffer' <= end_buffer'
        /\ buf' \in Seq(Nat) /\ end_buffer' <= Len(buf')
        /\ \A k \in 1 .. end_buffer' - read_buffer' : buf'[read_buffer' + k] = s[u + k]
    BY <1>1, <1>2 DEF Buffered
  <2> QED
    BY <2>1, <2>2, <2>3, <2>4 DEF Buffered
<1>8. Recorded(g, t, u, s)'
  <2>1. Expected' = Expected
    BY DEF Expected
  <2> QED
    BY <1>1, <1>2, <2>1 DEF Recorded
<1> QED
  BY <1>2, <1>6, <1>7, <1>8 DEF Reading

LEMMA ChunkIsInflated ==
    ASSUME NEW F, NEW T, NEW s \in Seq(Nat), NEW pos, NEW ctl, NEW g, NEW j, NEW p, NEW n, NEW u,
           NEW t, Path(F, T, s, pos, ctl), Streamed(g, s),
           Reading(F, T, s, pos, ctl, g, j, p, n, u, t), ChunkInflated, ~ starved',
           accesses' = accesses
    PROVE  /\ rpc' \in {"refill", "next", "get"}
           /\ \E v, i : Reading(F, T, s, pos, ctl, g, j, p, n, v, i)'
<1>1. Inflating(F, T, s, pos, ctl, j, p, n) /\ Buffered(u, n, s) /\ Recorded(g, t, u, s)
  BY DEF Reading
<1>2. PICK e, d, b, end, new :
        /\ e = end_buffer /\ d = dst /\ b = buf /\ end = e + Len(d) /\ new = Overwrite(b, e, d)
  OBVIOUS
<1>3. /\ rpc = "inflate" /\ ipc = "returned" /\ ipc' = "idle" /\ buf' = new /\ end_buffer' = end
      /\ IF inp # <<>>
         THEN /\ rpc' = "refill" /\ read_buffer' = read_buffer /\ trans' = trans
              /\ record' = record
         ELSE /\ bool_finish' = (icall.status = "STREAM_END")
              /\ starved' = (starved \/ end = 0)
              /\ IF new = <<>> THEN rpc' = "lost" ELSE UseByte(new[1], 0)
      /\ fpos' = fpos /\ inf' = inf /\ win' = win /\ dofs' = dofs /\ davail' = davail
      /\ last' = last /\ inp' = inp /\ droom' = droom /\ icall' = icall
  BY <1>2 DEF ChunkInflated
<1>4. /\ u \in Nat /\ e \in Nat /\ read_buffer = 0 /\ b \in Seq(Nat) /\ e <= Len(b)
      /\ d \in Seq(Nat) /\ n = (u + e) + Len(d) /\ Continues(d, u + e, s)
      /\ \A k \in 1 .. e : b[k] = s[u + k]
  <2>1. /\ u \in Nat /\ e \in Nat /\ read_buffer = 0 /\ b \in Seq(Nat) /\ e <= Len(b)
        /\ d \in Seq(Nat) /\ n = (u + e) + Len(d) /\ Continues(d, u + e, s)
    BY <1>1, <1>2, <1>3 DEF Buffered, Given
  <2>2. \A k \in 1 .. e - 0 : b[0 + k] = s[u + k]
    BY <1>1, <1>2, <2>1 DEF Buffered
  <2>3. \A k \in 1 .. e : k \in 1 .. e - 0 /\ 0 + k = k
    BY <2>1
  <2> QED
    BY <2>1, <2>2, <2>3
<1>5. /\ new \in Seq(Nat) /\ end <= Len(new) /\ end \in Nat /\ Len(new) \in Nat
      /\ \A k \in 1 .. end : new[k] = s[u + k]
      /\ n = u + end
  <2>1. /\ new \in Seq(Nat) /\ e + Len(d) <= Len(new)
        /\ \A k \in 1 .. e : new[k] = b[k]
        /\ \A k \in 1 .. Len(d) : new[e + k] = d[k]
    <3>1. b \in Seq(Nat) /\ e \in Nat /\ e <= Len(b) /\ d \in Seq(Nat) /\ new = Overwrite(b, e, d)
      BY <1>2, <1>4
    <3> QED
      <4>1. new \in Seq(Nat)
        BY ONLY <3>1, Overwritten, SMTT(30)
      <4>2. e + Len(d) <= Len(new)
        BY ONLY <3>1, Overwritten, SMTT(30)
      <4>3. \A k \in 1 .. e : new[k] = b[k]
        BY ONLY <3>1, Overwritten, SMTT(30)
      <4>4. \A k \in 1 .. Len(d) : new[e + k] = d[k]
        BY ONLY <3>1, Overwritten, SMTT(30)
      <4> QED
        BY <4>1, <4>2, <4>3, <4>4
  <2>2. PICK m : m = Len(d)
    OBVIOUS
  <2>3. m \in Nat /\ end = e + m /\ n = (u + e) + m
    BY <1>2, <1>4, <2>2
  <2>4. ASSUME NEW k \in 1 .. end PROVE new[k] = s[u + k]
    <3>1. CASE k <= e
      <4>1. k \in 1 .. e
        BY <1>4, <2>3, <3>1
      <4> QED
        BY <1>4, <2>1, <4>1
    <3>2. CASE ~ (k <= e)
      <4>1. PICK h : h = k - e
        OBVIOUS
      <4>2. h \in 1 .. m /\ e + h = k /\ (u + e) + h = u + k
        BY <1>4, <2>3, <3>2, <4>1
      <4>3. new[e + h] = d[h]
        BY <2>1, <2>2, <4>2
      <4>4. d[h] = s[(u + e) + h]
        BY <1>4, <2>2, <4>2 DEF Continues
      <4> QED
        BY <4>2, <4>3, <4>4
    <3> QED
      BY <3>1, <3>2
  <2>5. end \in Nat /\ n = u + end
    <3>1. u \in Nat /\ e \in Nat
      BY <1>4
    <3> QED
      BY ONLY <2>3, <3>1
  <2> QED
    BY <1>2, <2>1, <2>4, <2>5
<1>6. Inflating(F, T, s, pos, ctl, j, p, n)'
  <2>1. InflateOK' /\ Ending'
    BY <1>1, <1>3 DEF Inflating, InflateOK, Ending
  <2>2. Owed(p, n, s)'
    BY <1>1, <1>3 DEF Inflating, Owed
  <2> QED
    BY <1>1, <1>3, <2>1, <2>2 DEF Inflating
<1>7. CASE inp # <<>>
  <2>1. rpc' = "refill" /\ read_buffer' = 0 /\ trans' = trans /\ record' = record
    BY <1>3, <1>4, <1>7
  <2>2. Buffered(u, n, s)'
    <3>1. \A k \in 1 .. end - 0 : new[0 + k] = s[u + k]
      <4>1. \A k \in 1 .. end - 0 : k \in 1 .. end /\ 0 + k = k
        BY <1>5
      <4> QED
        BY <1>5, <4>1
    <3>2. rpc' \notin {"next", "get"} /\ rpc' # "inflate" /\ 0 <= end
      BY <1>5, <2>1
    <3> QED
      BY <1>3, <1>4, <1>5, <2>1, <3>1, <3>2 DEF Buffered
  <2>3. Recorded(g, t, u, s)'
    <3>1. Expected' = Expected
      BY DEF Expected
    <3> QED
      BY <1>1, <1>3, <2>1, <3>1 DEF Recorded
  <2> QED
    BY <1>6, <2>1, <2>2, <2>3 DEF Reading
<1>8. CASE inp = <<>>
  <2>1. /\ bool_finish' = (icall.status = "STREAM_END") /\ end # 0
        /\ IF new = <<>> THEN rpc' = "lost" ELSE UseByte(new[1], 0)
    BY <1>3, <1>8
  <2>2. new # <<>>
    <3>1. Len(new) # 0
      BY <1>5, <2>1
    <3> QED
      BY <3>1
  <2>3. n \in Nat /\ Len(s) \in Nat /\ n <= Len(s)
    BY <1>1, GivenInStream
  <2>4. PICK x : x = new[1]
    OBVIOUS
  <2>5. x = s[u + 1] /\ u + 1 <= Len(s) /\ UseByte(x, 0)
    <3>1. 1 \in 1 .. end
      BY <1>5, <2>1
    <3>2. x = s[u + 1]
      BY ONLY <1>5, <2>4, <3>1
    <3>3. u + 1 <= Len(s)
      BY <1>4, <1>5, <2>3, <3>1
    <3> QED
      BY <2>1, <2>2, <2>4, <3>2, <3>3
  <2>6. /\ \E i : Recorded(g, i, u + 1, s)'
        /\ read_buffer' = 0 + 1 /\ rpc' \in {"next", "get"}
    BY <1>1, <1>3, <1>4, <2>5, UsesByte
  <2>7. icall.status = "STREAM_END" => n = Len(s)
    <3> SUFFICES ASSUME icall.status = "STREAM_END" PROVE n = Len(s)
      OBVIOUS
    <3>1. inf.pc = "done" /\ davail = 0 /\ inf.n = 0 /\ p = n + 0 + 0
      BY <1>1, <1>3 DEF Inflating, Ending, Owed
    <3>2. p = Len(s)
      BY <1>1, <3>1, AllInflated
    <3> QED
      BY <2>3, <3>1, <3>2
  <2>8. Buffered(u + 1, n, s)'
    <3>1. PICK r : r = 0 + 1
      OBVIOUS
    <3>2. /\ u + 1 \in Nat /\ r \in Nat /\ r <= end /\ n = (u + 1) + (end - r) /\ r = 1
      <4>1. u \in Nat /\ end \in Nat /\ end # 0 /\ n = u + end
        BY <1>4, <1>5, <2>1
      <4> QED
        BY ONLY <3>1, <4>1
    <3>3. ASSUME NEW k \in 1 .. end - r PROVE new[r + k] = s[(u + 1) + k]
      <4>1. PICK h : h = r + k
        OBVIOUS
      <4>2. h \in 1 .. end /\ u + h = (u + 1) + k
        BY <1>4, <1>5, <3>2, <4>1
      <4>3. new[h] = s[u + h]
        BY ONLY <1>5, <4>2
      <4> QED
        BY <4>1, <4>2, <4>3
    <3>4. /\ end_buffer' = end /\ read_buffer' = r /\ buf' = new /\ inp' = <<>> /\ ipc' = "idle"
          /\ (bool_finish' => n = Len(s))
      BY <1>3, <1>8, <2>1, <2>6, <2>7, <3>1
    <3>5. rpc' # "refill" /\ rpc' # "inflate"
      BY <2>6
    <3> QED
      BY <1>5, <3>2, <3>3, <3>4, <3>5 DEF Buffered
  <2> QED
    BY <1>6, <2>6, <2>8 DEF Reading
<1> QED
  BY <1>7, <1>8

\* Nothing is read yet.
Fresh ==
    /\ InflateInit /\ fpos = 0 /\ buf = <<>> /\ end_buffer = 0 /\ read_buffer = 0
    /\ bool_finish = FALSE /\ starved = FALSE /\ record = <<>> /\ trans = <<>>

LEMMA OpensTrace ==
    ASSUME NEW F, NEW T, NEW s \in Seq(Nat), NEW pos, NEW ctl, NEW g, Path(F, T, s, pos, ctl),
           Streamed(g, s), Fresh, OpenTrace, accesses' = accesses
    PROVE  rpc' = "next" /\ Reading(F, T, s, pos, ctl, g, 0, 0, 0, 0, 0)'
<1>1. /\ rpc' = "next" /\ fpos' = fpos /\ buf' = buf /\ end_buffer' = end_buffer
      /\ read_buffer' = read_buffer /\ bool_finish' = bool_finish /\ trans' = trans
      /\ UNCHANGED inflateVars
  BY DEF OpenTrace
<1>2. /\ fpos = 0 /\ buf = <<>> /\ end_buffer = 0 /\ read_buffer = 0
      /\ bool_finish = FALSE /\ trans = <<>>
      /\ inf = [pc |-> "header", ahead |-> <<>>, took |-> 0, n |-> 0, counter |-> 0,
                dist |-> 0, from |-> 0, final |-> FALSE, back |-> "codes",
                check |-> <<1, 0>>, sum |-> <<1, 0>>]
      /\ win = [i \in 0 .. Dict - 1 |-> 0] /\ dofs = 0 /\ davail = 0
      /\ last = "NEEDS_MORE_INPUT" /\ inp = <<>> /\ droom = 0
      /\ icall = [status |-> "OK", input |-> FALSE] /\ ipc = "idle"
  BY DEF Fresh, InflateInit
<1>3. /\ IsInf(inf) /\ inf.pc = "header" /\ inf.ahead = <<>> /\ inf.took = 0 /\ inf.n = 0
      /\ DOMAIN icall = {"status", "input"}
  BY <1>2 DEF IsInf, InfFields
<1>4. Dict \in Nat /\ Dict > 0 /\ Len(s) \in Nat /\ Len(F) \in Nat /\ F \in Seq(T)
  BY DeflateAssumption DEF Path
<1>5. Inflating(F, T, s, pos, ctl, 0, 0, 0)
  <2>1. InflateOK
    BY <1>2, <1>3 DEF InflateOK
  <2>2. Unread(<<>>, <<>>, 0, 0, F, T)
    <3>1. <<>> \in Seq(T) /\ Len(<<>>) = 0
      OBVIOUS
    <3> QED
      BY <1>4, <3>1 DEF Unread, Continues
  <2>3. Doing(inf, ctl[0], pos[0], 0, s)
    BY <1>3 DEF Doing, Path
  <2>4. Window(win, 0, s)
    BY <1>2, <1>4 DEF Window
  <2>5. Owed(0, 0, s)
    <3>1. 0 % Dict = 0
      BY <1>4
    <3> QED
      BY <1>2, <1>3, <1>4, <3>1 DEF Owed
  <2>6. Ending
    BY <1>2 DEF Ending
  <2> QED
    BY <1>2, <1>3, <2>1, <2>2, <2>3, <2>4, <2>5, <2>6 DEF Inflating
<1>6. Inflating(F, T, s, pos, ctl, 0, 0, 0)'
  BY <1>1, <1>5, InflatingSame
<1>7. Buffered(0, 0, s)'
  <2>1. inp' = <<>> /\ ipc' = "idle"
    BY <1>1, <1>2 DEF inflateVars
  <2>2. buf' \in Seq(Nat) /\ Len(buf') = 0
    BY <1>1, <1>2
  <2> QED
    BY <1>1, <1>2, <2>1, <2>2 DEF Buffered
<1>8. Recorded(g, 0, 0, s)'
  <2>1. accesses \in Seq(Access) /\ Len(accesses) \in Nat /\ Flat(accesses, g)
    BY DEF Streamed
  <2>2. g[0] = <<>>
    BY <2>1, FlatStep
  <2>3. Len(g[0]) = 0
    BY <2>2
  <2>4. SubSeq(Expected', 1, 0) = <<>>
    <3>1. PICK E : E = Expected'
      OBVIOUS
    <3>2. SubSeq(E, 1, 0) = <<>>
      BY SubSeqEmpty
    <3> QED
      BY <3>1, <3>2
  <2> QED
    BY <1>1, <1>2, <2>1, <2>3, <2>4 DEF Recorded
<1> QED
  BY <1>1, <1>6, <1>7, <1>8 DEF Reading

Replaying ==
    \E T, pos, ctl, g, j, p, n, u, t :
        /\ Path(file, T, Stream, pos, ctl) /\ Streamed(g, Stream)
        /\ Reading(file, T, Stream, pos, ctl, g, j, p, n, u, t)

\* The reader: nothing is read before the file is closed; then, unless the file was
\* not complete, plugin and reader disagree on a record, or a byte was used that was
\* not there, the transactions are those of the records read so far, and all of them
\* at the end.
ReplayInv ==
    /\ chunk \in Nat
    /\ rpc = "wait" => Fresh
    /\ rpc # "wait" => ppc = "closed"
    /\ StreamEnded /\ ~ starved /\ Replayable /\ rpc # "wait" =>
          \/ rpc = "done" /\ trans = Expected
          \/ rpc \in {"next", "get", "refill", "inflate"} /\ Replaying

LEMMA ReplayInit ==
    ASSUME Init
    PROVE  ReplayInv
<1>1. chunk \in FileChunk /\ rpc = "wait"
  BY DEF Init
<1>2. Fresh
  BY DEF Init, Fresh
<1> QED
  BY <1>1, <1>2, TraceAssumption DEF ReplayInv

\* A step of the plugin, or none.
LEMMA ReplayWaits ==
    ASSUME ReplayInv, PluginNext \/ UNCHANGED vars
    PROVE  ReplayInv'
<1>1. CASE PluginNext
  <2>1. /\ UNCHANGED <<readerVars, inflateVars>> /\ ppc # "closed"
    <3>1. CASE \E a \in Access : mem_cb(a)
      BY <3>1 DEF mem_cb
    <3>2. CASE write_buffer
      BY <3>2 DEF write_buffer
    <3>3. CASE RecordWritten
      BY <3>3 DEF RecordWritten
    <3>4. CASE plugin_exit
      BY <3>4 DEF plugin_exit
    <3>5. CASE CompressStart
      BY <3>5 DEF CompressStart
    <3>6. CASE CompressWrite
      BY <3>6 DEF CompressWrite
    <3>7. CASE CompressAgain
      BY <3>7 DEF CompressAgain
    <3>8. CASE ppc = "deflate" /\ DeflateNext /\ UNCHANGED <<pluginVars, readerVars, inflateVars>>
      BY <3>8
    <3> QED
      BY <1>1, <3>1, <3>2, <3>3, <3>4, <3>5, <3>6, <3>7, <3>8 DEF PluginNext
  <2>2. rpc = "wait" /\ Fresh /\ chunk \in Nat
    BY <2>1 DEF ReplayInv
  <2>3. rpc' = "wait" /\ chunk' = chunk
    BY <2>1, <2>2 DEF readerVars
  <2>4. Fresh'
    BY <2>1, <2>2 DEF Fresh, InflateInit, readerVars, inflateVars
  <2> QED
    BY <2>2, <2>3, <2>4 DEF ReplayInv
<1>2. CASE UNCHANGED vars
  <2>1. /\ UNCHANGED <<readerVars, inflateVars, pluginVars>> /\ z' = z
    BY <1>2 DEF vars, deflateVars
  <2>2. /\ chunk' = chunk /\ rpc' = rpc /\ ppc' = ppc /\ starved' = starved /\ trans' = trans
        /\ accesses' = accesses /\ is_64_bits' = is_64_bits /\ file' = file
    BY <2>1 DEF readerVars, pluginVars
  <2>3. Fresh => Fresh'
    BY <2>1 DEF Fresh, InflateInit, readerVars, inflateVars
  <2>4. Stream' = Stream /\ Expected' = Expected /\ Replayable' = Replayable
    BY <2>2, StreamSame DEF Expected, Replayable, SameRecord
  <2>5. StreamEnded' = StreamEnded
    BY <2>1, <2>2 DEF StreamEnded
  <2>6. Replaying => Replaying'
    <3> SUFFICES ASSUME Replaying PROVE Replaying'
      OBVIOUS
    <3>1. PICK T, pos, ctl, g, j, p, n, u, t :
            /\ Path(file, T, Stream, pos, ctl) /\ Streamed(g, Stream)
            /\ Reading(file, T, Stream, pos, ctl, g, j, p, n, u, t)
      BY DEF Replaying
    <3>2. PICK F, s : F = file /\ s = Stream
      OBVIOUS
    <3>3. /\ Inflating(F, T, s, pos, ctl, j, p, n) /\ Buffered(u, n, s) /\ Recorded(g, t, u, s)
      BY <3>1, <3>2 DEF Reading
    <3>4. Inflating(F, T, s, pos, ctl, j, p, n)'
      BY <2>1, <3>3, InflatingSame DEF readerVars
    <3>5. Buffered(u, n, s)'
      BY <2>1, <3>3 DEF Buffered, Given, readerVars, inflateVars
    <3>6. Recorded(g, t, u, s)'
      BY <2>1, <2>2, <2>4, <3>3 DEF Recorded, readerVars
    <3>7. Path(file', T, Stream', pos, ctl) /\ Streamed(g, Stream)'
      BY <2>2, <2>4, <3>1 DEF Streamed, Flat, write_in_file, write_address
    <3>8. F = file' /\ s = Stream'
      BY <2>2, <2>4, <3>2
    <3>9. Reading(file, T, Stream, pos, ctl, g, j, p, n, u, t)'
      BY <3>4, <3>5, <3>6, <3>8 DEF Reading
    <3> QED
      BY <3>7, <3>9 DEF Replaying
  <2> QED
    BY <2>2, <2>3, <2>4, <2>5, <2>6 DEF ReplayInv
<1> QED
  BY <1>1, <1>2

LEMMA ReaderFrame ==
    ASSUME ReaderNext
    PROVE  /\ UNCHANGED <<pluginVars, deflateVars>> /\ chunk' = chunk
           /\ (rpc = "wait" => OpenTrace) /\ rpc' # "wait" /\ (~ starved' => ~ starved)
           /\ rpc \notin {"done", "lost"}
<1>1. CASE OpenTrace
  BY <1>1 DEF OpenTrace
<1>2. CASE RunTrace
  BY <1>2 DEF RunTrace
<1>3. CASE get_content_of_trace
  BY <1>3 DEF get_content_of_trace, UseByte
<1>4. CASE ReadChunk
  BY <1>4 DEF ReadChunk
<1>5. CASE InflateChunk
  BY <1>5 DEF InflateChunk
<1>6. CASE ChunkInflated
  BY <1>6 DEF ChunkInflated, UseByte
<1>7. CASE rpc = "inflate" /\ InflateNext /\ UNCHANGED <<readerVars, pluginVars, deflateVars>>
  BY <1>7 DEF readerVars
<1> QED
  BY <1>1, <1>2, <1>3, <1>4, <1>5, <1>6, <1>7 DEF ReaderNext

\* Every step of the reader goes on with the replay.
LEMMA ReadingStep ==
    ASSUME NEW F, NEW T, NEW s \in Seq(Nat), NEW pos, NEW ctl, NEW g, NEW j, NEW p, NEW n, NEW u,
           NEW t, F = file, Path(F, T, s, pos, ctl), Streamed(g, s), chunk \in Nat,
           Reading(F, T, s, pos, ctl, g, j, p, n, u, t), ReaderNext, rpc # "wait", ~ starved',
           accesses' = accesses
    PROVE  \/ rpc' = "done" /\ trans' = Expected'
           \/ /\ rpc' \in {"next", "get", "refill", "inflate"}
              /\ \E i, q, m, v, h : Reading(F, T, s, pos, ctl, g, i, q, m, v, h)'
<1>1. CASE OpenTrace
  BY <1>1 DEF OpenTrace
<1>2. CASE RunTrace
  BY <1>2, RunsTrace
<1>3. CASE get_content_of_trace
  BY <1>3, GetsContent
<1>4. CASE ReadChunk
  <2>1. F \in Seq(T)
    BY DEF Path
  <2> QED
    BY <1>4, <2>1, ReadsChunk
<1>5. CASE InflateChunk
  BY <1>5, InflatesChunk
<1>6. CASE ChunkInflated
  BY <1>6, ChunkIsInflated
<1>7. CASE rpc = "inflate" /\ InflateNext /\ UNCHANGED <<readerVars, pluginVars, deflateVars>>
  <2>1. rpc = "inflate" /\ InflateNext /\ UNCHANGED readerVars
    BY <1>7
  <2> QED
    BY <2>1, InflatesOn
<1> QED
  BY <1>1, <1>2, <1>3, <1>4, <1>5, <1>6, <1>7 DEF ReaderNext

LEMMA ReplayStep ==
    ASSUME RecorderInv, SenderInv, WireInv, ReplayInv, [Next]_vars
    PROVE  ReplayInv'
<1>1. CASE PluginNext \/ UNCHANGED vars
  BY <1>1, ReplayWaits
<1>2. CASE ReaderNext
  <2>1. /\ UNCHANGED <<pluginVars, deflateVars>> /\ chunk' = chunk
        /\ (rpc = "wait" => OpenTrace) /\ rpc' # "wait" /\ (~ starved' => ~ starved)
        /\ rpc \notin {"done", "lost"}
    BY <1>2, ReaderFrame
  <2>2. accesses' = accesses /\ is_64_bits' = is_64_bits /\ file' = file /\ ppc' = ppc /\ z' = z
    BY <2>1 DEF pluginVars, deflateVars
  <2>3. ppc' = "closed" /\ chunk' \in Nat
    BY <2>1, <2>2 DEF ReplayInv, OpenTrace
  <2>4. ASSUME StreamEnded', ~ starved', Replayable'
        PROVE  \/ rpc' = "done" /\ trans' = Expected'
               \/ rpc' \in {"next", "get", "refill", "inflate"} /\ Replaying'
    <3>1. StreamEnded /\ ~ starved /\ Replayable
      BY <2>1, <2>2, <2>4 DEF StreamEnded, Replayable, SameRecord
    <3>2. PICK F, s : F = file /\ s = Stream
      OBVIOUS
    <3>3. F = file' /\ s = Stream'
      BY <2>2, <3>2, StreamSame
    <3>4. s \in Seq(Nat) /\ accesses \in Seq(Access)
      BY <3>2, RecorderFacts
    <3>5. ASSUME NEW T, NEW pos, NEW ctl, NEW g, Path(F, T, s, pos, ctl), Streamed(g, s),
                 \E i, q, m, v, h : Reading(F, T, s, pos, ctl, g, i, q, m, v, h)'
          PROVE  Replaying'
      <4>1. Path(file', T, Stream', pos, ctl)
        BY <3>3, <3>5
      <4>2. Streamed(g, Stream)'
        BY <2>2, <2>4, <3>3, <3>5 DEF Streamed, Flat, write_in_file, write_address
      <4>3. PICK i, q, m, v, h : Reading(F, T, s, pos, ctl, g, i, q, m, v, h)'
        BY <3>5
      <4>4. Reading(file, T, Stream, pos, ctl, g, i, q, m, v, h)'
        BY <3>3, <4>3
      <4> QED
        BY <4>1, <4>2, <4>4 DEF Replaying
    <3>6. CASE rpc = "wait"
      <4>1. Fresh /\ OpenTrace
        BY <2>1, <3>6 DEF ReplayInv
      <4>2. TrueFile(F, s)
        BY <3>1, <3>2, EndedFile
      <4>3. PICK T, pos, ctl : Path(F, T, s, pos, ctl)
        BY <3>4, <4>2, FilePath
      <4>4. PICK g : Streamed(g, s)
        BY <3>1, <3>2, <3>4, StreamIsFlat DEF Streamed
      <4>5. rpc' = "next" /\ Reading(F, T, s, pos, ctl, g, 0, 0, 0, 0, 0)'
        BY <2>2, <3>4, <4>1, <4>3, <4>4, OpensTrace
      <4> QED
        BY <3>5, <4>3, <4>4, <4>5
    <3>7. CASE rpc # "wait"
      <4>1. Replaying /\ chunk \in Nat
        BY <2>1, <3>1, <3>7 DEF ReplayInv
      <4>2. PICK T, pos, ctl, g, j, p, n, u, t :
              /\ Path(F, T, s, pos, ctl) /\ Streamed(g, s)
              /\ Reading(F, T, s, pos, ctl, g, j, p, n, u, t)
        BY <3>2, <4>1 DEF Replaying
      <4>3. \/ rpc' = "done" /\ trans' = Expected'
            \/ /\ rpc' \in {"next", "get", "refill", "inflate"}
               /\ \E i, q, m, v, h : Reading(F, T, s, pos, ctl, g, i, q, m, v, h)'
        BY <1>2, <2>2, <2>4, <3>2, <3>4, <3>7, <4>1, <4>2, ReadingStep
      <4> QED
        BY <3>5, <4>2, <4>3
    <3> QED
      BY <3>6, <3>7
  <2> QED
    BY <2>1, <2>3, <2>4 DEF ReplayInv
<1> QED
  BY <1>1, <1>2 DEF Next

LEMMA ReplayInvariant == Spec => [](RecorderInv /\ SenderInv /\ WireInv /\ ReplayInv)
<1>1. Init => RecorderInv /\ SenderInv /\ WireInv /\ ReplayInv
  BY RecorderInit, SenderInit, WireInit, ReplayInit
<1>2. RecorderInv /\ SenderInv /\ WireInv /\ ReplayInv /\ [Next]_vars
        => (RecorderInv /\ SenderInv /\ WireInv /\ ReplayInv)'
  BY RecorderStep, SenderStep, WireStep, ReplayStep
<1> QED
  BY <1>1, <1>2, PTL DEF Spec

\* What is replayed is what was recorded, for every guest of a riscv64 target that
\* stores no value of 128 bits (RecordIsRead), every size of the buffers and the
\* window, every way the stream is cut, parsed and inflated: the transactions that
\* the sequence has made are the accesses of the guest in their order, and when it
\* ends there is one for each of them.
THEOREM ReplayIsFaithful == Spec => []ReplayFaithful
<1>1. RecorderInv /\ SenderInv /\ WireInv /\ ReplayInv => ReplayFaithful
  <2> SUFFICES ASSUME RecorderInv, ReplayInv, StreamEnded, ~ starved, Replayable
               PROVE  /\ trans = SubSeq(Expected, 1, Len(trans))
                      /\ rpc = "done" => trans = Expected
    BY DEF ReplayFaithful
  <2>1. accesses \in Seq(Access)
    BY RecorderFacts
  <2>2. PICK S : Expected \in Seq(S) /\ Len(Expected) = Len(accesses)
    BY <2>1, ExpectedSeq
  <2>3. PICK E : E = Expected
    OBVIOUS
  <2>4. CASE rpc = "wait"
    <3>1. trans = <<>>
      BY <2>4 DEF ReplayInv, Fresh
    <3>2. SubSeq(E, 1, 0) = <<>> /\ Len(trans) = 0
      BY <3>1, SubSeqEmpty
    <3> QED
      BY <2>3, <2>4, <3>1, <3>2
  <2>5. CASE rpc = "done" /\ trans = Expected
    <3>1. E \in Seq(S) /\ SubSeq(E, 1, Len(E)) = E
      BY <2>2, <2>3
    <3> QED
      BY <2>3, <2>5, <3>1
  <2>6. CASE rpc \in {"next", "get", "refill", "inflate"} /\ Replaying
    <3>1. PICK t : t \in 0 .. Len(accesses) /\ trans = SubSeq(Expected, 1, t)
      BY <2>6 DEF Replaying, Reading, Recorded
    <3>2. E \in Seq(S) /\ t \in 0 .. Len(E) /\ trans = SubSeq(E, 1, t)
      BY <2>2, <2>3, <3>1
    <3>3. Len(SubSeq(E, 1, t)) = t
      BY <3>2
    <3> QED
      BY <2>3, <2>6, <3>2, <3>3
  <2> QED
    BY <2>4, <2>5, <2>6 DEF ReplayInv
<1> QED
  BY <1>1, ReplayInvariant, PTL

\* A file whose stream is ended is well formed: a header, blocks each of which is
\* closed, the last one marked, a checksum, and nothing after it.
THEOREM FileIsFramed == Spec => [](StreamEnded => Framed(file, AtStart, AtEnd))
<1>1. RecorderInv /\ SenderInv /\ WireInv /\ ReplayInv
        => (StreamEnded => Framed(file, AtStart, AtEnd))
  BY EndedFile DEF TrueFile
<1> QED
  BY <1>1, ReplayInvariant, PTL
=============================================================================
