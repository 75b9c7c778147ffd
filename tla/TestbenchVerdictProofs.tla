----------------------- MODULE TestbenchVerdictProofs -----------------------
(***************************************************************************)
(* Proofs about the verdict of the testbench: a cache that answers rightly *)
(* is never accused, and a wrong answer that can be known to be wrong is   *)
(* never passed over in silence.                                           *)
(***************************************************************************)
EXTENDS TestbenchProofs

-----------------------------------------------------------------------------
(* The inductive invariant of the data, while the cache answers rightly.     *)

Good(a) == ~within_error_region(a)

\* The word at a when the device has performed nothing more.
Current(a) == IF wbuf[a] # None THEN wbuf[a].data ELSE mem[a]

StoresTo(t, a) == t.op = "STORE" /\ t.addr = a

\* The word at a that request n of queue q will find, if it is now c.
FindsAt(q, n, a, c, v) ==
    \/ \E j \in 1 .. n - 1 :
          /\ StoresTo(q[j], a) /\ q[j].data = v
          /\ \A k \in j + 1 .. n - 1 : ~StoresTo(q[k], a)
    \/ c = v /\ \A k \in 1 .. n - 1 : ~StoresTo(q[k], a)

\* The memory has performed the write of an atomic request at a, and the
\* device has not answered it yet.
Changing(a) == uc.busy /\ a = dutQ[1].addr /\ dutQ[1].op # "LR" /\ ~UcWrites

CacheOK ==
    \A a \in Addr : cache[a] # None =>
        Good(a) /\ (~Changing(a) => cache[a] = Current(a))

\* A word the scoreboard knows is the one the next request will find.
RamOK ==
    \A a \in Addr : Good(a) =>
        /\ ram[a] # None /\ ~Changing(a) =>
              FindsAt(dutQ, Len(dutQ) + 1, a, Current(a), ram[a])
        /\ (\E i \in 1 .. Len(dutQ) : StoresTo(dutQ[i], a)) => ram[a] # None

\* The error flag and the word a response is expected to have.
EntriesOK ==
    \A i \in 1 .. Len(dutQ) : dutQ[i].needRsp =>
        LET t == dutQ[i]
            e == inflight[t.tid]
        IN  /\ e.error = (/\ within_error_region(t.addr) /\ t.op # "SC"
                          /\ t.op \in CmoOps => t.op = "CMO_PREFETCH")
            /\ e.rdata # None =>
                  /\ t.op \in {"LOAD", "LR"} \cup AmoOps /\ Good(t.addr)
                  /\ ~Changing(t.addr) =>
                        FindsAt(dutQ, i, t.addr, Current(t.addr), e.rdata)

\* The word that an atomic request has read.
AtomicReadOK(d) ==
    Good(dutQ[1].addr) =>
        /\ inflight[dutQ[1].tid].rdata # None => d = inflight[dutQ[1].tid].rdata
        /\ dutQ[1].op = "LR" => d = mem[dutQ[1].addr]
        /\ dutQ[1].op \in AmoOps =>
              mem[dutQ[1].addr] = ComputeAmo(dutQ[1].op, d, dutQ[1].data, FALSE)

ReadDataOK(r) ==
    IF r.id = UcId THEN AtomicReadOK(r.data)
    ELSE Good(r.id) => r.data = mem[r.id]

ReadsData ==
    /\ \A r \in Elems(rdFifo) : ReadDataOK(r)
    /\ rdResp # None => ReadDataOK(rdResp)
    /\ uc.rd # None => AtomicReadOK(uc.rd.data)
    /\ Len(wrOp) = 2 => ReadDataOK(wrOp[1])

BeatOK(d) ==
    d.data = IF d.of = UcId THEN MemDataOf(dutQ[1].op, dutQ[1].data)
             ELSE wbuf[d.of].data

Written(r) == r.id # UcId /\ Good(r.id) => mem[r.id] = wbuf[r.id].data

WritesData ==
    /\ \A d \in Elems(wdFifo) : BeatOK(d)
    /\ wdReq # None => BeatOK(wdReq)
    /\ \A r \in Elems(wrFifo) : Written(r)
    /\ wrResp # None => Written(wrResp)
    /\ wrOp # <<>> => Written(wrOp[Len(wrOp)])

\* A SC that was sent succeeds, and the scoreboard knows it.
ScData ==
    uc.busy /\ dutQ[1].op = "SC" =>
        /\ ~UcWrites => mem[dutQ[1].addr] = dutQ[1].data
        /\ Holds(wrResp, UcId) \/ uc.wr # None => scIsAtomic

CountOK == nbResp \in Nat /\ nbNeedRsp = nbResp + Cardinality(DOMAIN inflight)

\* The driver stops when a sample taken after the last request shows no
\* request in flight.
EndOK ==
    /\ fresh => drv.st \in {"drain", "finish"}
    /\ fresh /\ noInflight => DOMAIN inflight = {}
    /\ drv.st = "finish" => fresh /\ noInflight

VerdictOK ==
    /\ CacheOK /\ RamOK /\ EntriesOK /\ ReadsData /\ WritesData /\ ScData
    /\ CountOK /\ sbErrors = <<>>

\* A wrong answer that can be known was reported, or has left a request in
\* the table that will never be answered.
Caught ==
    \/ sbErrors # <<>>
    \/ \E x \in DOMAIN inflight :
          \A i \in 1 .. Len(dutQ) : dutQ[i].needRsp => dutQ[i].tid # x

\* While an atomic request is sent it is the only one in the device.
UcAlone == uc.busy => Len(dutQ) = 1 /\ IsRmw(dutQ[1].op)

VerdictInv ==
    /\ TbInv /\ EndOK /\ UcAlone /\ IsSeq(sbErrors)
    /\ bug = None /\ Sound => VerdictOK
    /\ bug # None /\ bug.seen /\ Sound => Caught

-----------------------------------------------------------------------------
(* Operators.                                                                *)

\* The two atomic units agree on what the cache sends for an operation.
LEMMA AmoUnits ==
    ASSUME NEW op \in AmoOps, NEW ld, NEW st \in Int
    PROVE  MemComputeAmo(MemAtomicOf[op], ld, MemDataOf(op, st), FALSE)
             = ComputeAmo(op, ld, st, FALSE)
<1>1. NotBits(NotBits(st)) = st
  BY WordFacts DEF NotBits
<1>2. MemDataOf(op, st) = IF op = "AMO_AND" THEN NotBits(st) ELSE st
  BY DEF MemDataOf
<1>3. CASE op = "AMO_AND"
  <2>1. MemAtomicOf[op] = "CLR"
    BY <1>3, Zenon DEF MemAtomicOf, AmoOps
  <2>2. MemComputeAmo("CLR", ld, NotBits(st), FALSE) = AndBits(ld, NotBits(NotBits(st)))
    BY Zenon DEF MemComputeAmo
  <2>3. ComputeAmo("AMO_AND", ld, st, FALSE) = AndBits(ld, st)
    BY Zenon DEF ComputeAmo
  <2> QED
    BY <1>1, <1>2, <1>3, <2>1, <2>2, <2>3
<1>4. CASE op = "AMO_SWAP"
  <2>1. MemAtomicOf[op] = "SWAP" /\ MemDataOf(op, st) = st
    BY <1>2, <1>4, Zenon DEF MemAtomicOf, AmoOps
  <2> QED
    BY <1>4, <2>1, Zenon DEF MemComputeAmo, ComputeAmo
<1>5. CASE op = "AMO_ADD"
  <2>1. MemAtomicOf[op] = "ADD" /\ MemDataOf(op, st) = st
    BY <1>2, <1>5, Zenon DEF MemAtomicOf, AmoOps
  <2> QED
    BY <1>5, <2>1, Zenon DEF MemComputeAmo, ComputeAmo
<1>6. CASE op = "AMO_OR"
  <2>1. MemAtomicOf[op] = "SET" /\ MemDataOf(op, st) = st
    BY <1>2, <1>6, Zenon DEF MemAtomicOf, AmoOps
  <2> QED
    BY <1>6, <2>1, Zenon DEF MemComputeAmo, ComputeAmo
<1>7. CASE op = "AMO_XOR"
  <2>1. MemAtomicOf[op] = "EOR" /\ MemDataOf(op, st) = st
    BY <1>2, <1>7, Zenon DEF MemAtomicOf, AmoOps
  <2> QED
    BY <1>7, <2>1, Zenon DEF MemComputeAmo, ComputeAmo
<1>8. CASE op = "AMO_MAX"
  <2>1. MemAtomicOf[op] = "SMAX" /\ MemDataOf(op, st) = st
    BY <1>2, <1>8, Zenon DEF MemAtomicOf, AmoOps
  <2> QED
    BY <1>8, <2>1, Zenon DEF MemComputeAmo, ComputeAmo
<1>9. CASE op = "AMO_MAXU"
  <2>1. MemAtomicOf[op] = "UMAX" /\ MemDataOf(op, st) = st
    BY <1>2, <1>9, Zenon DEF MemAtomicOf, AmoOps
  <2> QED
    BY <1>9, <2>1, Zenon DEF MemComputeAmo, ComputeAmo
<1>10. CASE op = "AMO_MIN"
  <2>1. MemAtomicOf[op] = "SMIN" /\ MemDataOf(op, st) = st
    BY <1>2, <1>10, Zenon DEF MemAtomicOf, AmoOps
  <2> QED
    BY <1>10, <2>1, Zenon DEF MemComputeAmo, ComputeAmo
<1>11. CASE op = "AMO_MINU"
  <2>1. MemAtomicOf[op] = "UMIN" /\ MemDataOf(op, st) = st
    BY <1>2, <1>11, Zenon DEF MemAtomicOf, AmoOps
  <2> QED
    BY <1>11, <2>1, Zenon DEF MemComputeAmo, ComputeAmo
<1> QED
  BY <1>3, <1>4, <1>5, <1>6, <1>7, <1>8, <1>9, <1>10, <1>11, Zenon DEF AmoOps

\* What the first request finds, and what is found after one that is no store.
LEMMA FindsFirst ==
    ASSUME NEW q, NEW a, NEW c, NEW v
    PROVE  /\ FindsAt(q, 1, a, c, v) <=> c = v
           /\ ~StoresTo(q[1], a) => (FindsAt(q, 2, a, c, v) <=> c = v)
<1>1. (1 .. 1 - 1) = {} /\ (1 .. 2 - 1) = {1}
  OBVIOUS
<1>2. FindsAt(q, 1, a, c, v) <=> c = v
  BY <1>1 DEF FindsAt
<1>3. ~StoresTo(q[1], a) => (FindsAt(q, 2, a, c, v) <=> c = v)
  BY <1>1 DEF FindsAt
<1> QED
  BY <1>2, <1>3

\* The device accepts a request.
LEMMA FindsAppended ==
    ASSUME dutQ \in Seq(Drawn), NEW t \in Drawn, dutQ' = Append(dutQ, t),
           NEW a, NEW c, NEW v
    PROVE  /\ \A n \in 1 .. Len(dutQ) + 1 :
                 FindsAt(dutQ', n, a, c, v) <=> FindsAt(dutQ, n, a, c, v)
           /\ StoresTo(t, a) => FindsAt(dutQ', Len(dutQ) + 2, a, c, t.data)
           /\ ~StoresTo(t, a) /\ FindsAt(dutQ, Len(dutQ) + 1, a, c, v)
                 => FindsAt(dutQ', Len(dutQ) + 2, a, c, v)
<1> DEFINE m == Len(dutQ)
           q == dutQ
           r == dutQ'
<1>1. m \in Nat /\ r[m + 1] = t /\ \A k \in 1 .. m : r[k] = q[k]
  OBVIOUS
<1> HIDE DEF m, q, r
<1>2. ASSUME NEW n \in 1 .. m + 1
      PROVE  FindsAt(r, n, a, c, v) <=> FindsAt(q, n, a, c, v)
  <2>1. \A k \in 1 .. n - 1 : r[k] = q[k]
    BY <1>1
  <2>2. \A j \in 1 .. n - 1 : \A k \in j + 1 .. n - 1 : k \in 1 .. n - 1
    BY <1>1
  <2> QED
    BY <2>1, <2>2 DEF FindsAt
<1>3. /\ m + 2 - 1 = m + 1 /\ m + 1 - 1 = m
      /\ m + 1 \in 1 .. m + 1
      /\ \A k \in m + 1 + 1 .. m + 1 : FALSE
      /\ \A k \in 1 .. m + 1 : k = m + 1 \/ k \in 1 .. m
      /\ \A k \in 1 .. m : k \in 1 .. m + 1
      /\ \A j \in 1 .. m : \A k \in j + 1 .. m + 1 : k = m + 1 \/ k \in j + 1 .. m
      /\ \A j \in 1 .. m : \A k \in j + 1 .. m : k \in 1 .. m
  BY <1>1
<1>4. StoresTo(t, a) => FindsAt(r, m + 2, a, c, t.data)
  BY <1>1, <1>3 DEF FindsAt
<1>5. ASSUME ~StoresTo(t, a), FindsAt(q, m + 1, a, c, v)
      PROVE  FindsAt(r, m + 2, a, c, v)
  <2>1. CASE c = v /\ \A k \in 1 .. m : ~StoresTo(q[k], a)
    BY <1>1, <1>3, <1>5, <2>1 DEF FindsAt
  <2>2. CASE \E j \in 1 .. m :
                /\ StoresTo(q[j], a) /\ q[j].data = v
                /\ \A k \in j + 1 .. m : ~StoresTo(q[k], a)
    <3>1. PICK j \in 1 .. m :
                /\ StoresTo(q[j], a) /\ q[j].data = v
                /\ \A k \in j + 1 .. m : ~StoresTo(q[k], a)
      BY <2>2
    <3>2. \A k \in j + 1 .. m + 1 : ~StoresTo(r[k], a)
      BY <1>1, <1>3, <1>5, <3>1
    <3>3. StoresTo(r[j], a) /\ r[j].data = v /\ j \in 1 .. m + 1
      BY <1>1, <1>3, <3>1
    <3>4. \E x \in 1 .. (m + 2) - 1 :
             /\ StoresTo(r[x], a) /\ r[x].data = v
             /\ \A k \in x + 1 .. (m + 2) - 1 : ~StoresTo(r[k], a)
      <4>1. (m + 2) - 1 = m + 1
        BY <1>1
      <4> QED
        BY <3>2, <3>3, <4>1, Zenon
    <3> QED
      BY <3>4 DEF FindsAt
  <2>3. (m + 1) - 1 = m
    BY <1>1
  <2> QED
    BY <1>5, <2>1, <2>2, <2>3, Zenon DEF FindsAt
<1> QED
  BY <1>2, <1>4, <1>5 DEF m, q, r

\* Request i leaves the device; if it stores to a, it is the oldest on a, and
\* c is then the word it stored.
LEMMA FindsRemoved ==
    ASSUME DeviceType, NEW i \in 1 .. Len(dutQ), dutQ' = Without(i),
           NEW a, NEW c, NEW v,
           StoresTo(dutQ[i], a) => \A k \in 1 .. i - 1 : ~StoresTo(dutQ[k], a)
    PROVE  /\ \A n \in i + 1 .. Len(dutQ) + 1 :
                 FindsAt(dutQ, n, a, c, v) =>
                 FindsAt(dutQ', n - 1, a, IF StoresTo(dutQ[i], a) THEN dutQ[i].data ELSE c, v)
           /\ \A n \in 1 .. i : FindsAt(dutQ, n, a, c, v) => FindsAt(dutQ', n, a, c, v)
<1> DEFINE m == Len(dutQ)
           q == dutQ
           r == dutQ'
           d == IF StoresTo(dutQ[i], a) THEN dutQ[i].data ELSE c
<1>1. /\ m \in Nat \ {0} /\ i \in 1 .. m
      /\ \A k \in 1 .. m : /\ k < i => r[k] = q[k]
                           /\ k > i => r[k - 1] = q[k]
      /\ \A k \in 1 .. m - 1 : ~(k < i) => r[k] = q[k + 1] /\ k + 1 \in 1 .. m
  BY RemovedFacts
<1> HIDE DEF m, q, r
<1>2. ASSUME NEW n \in 1 .. i, FindsAt(q, n, a, c, v)
      PROVE  FindsAt(r, n, a, c, v)
  <2>1. \A k \in 1 .. n - 1 : r[k] = q[k]
    BY <1>1
  <2>2. \A j \in 1 .. n - 1 : \A k \in j + 1 .. n - 1 : k \in 1 .. n - 1
    BY <1>1
  <2> QED
    BY <1>2, <2>1, <2>2 DEF FindsAt
<1>3. ASSUME NEW n \in i + 1 .. m + 1, FindsAt(q, n, a, c, v)
      PROVE  FindsAt(r, n - 1, a, d, v)
  \* Request k of the new queue was request k or k + 1.
  <2>1. ASSUME NEW k \in 1 .. (n - 1) - 1
        PROVE  \/ k < i /\ r[k] = q[k] /\ k \in 1 .. n - 1
               \/ ~(k < i) /\ r[k] = q[k + 1] /\ k + 1 \in 1 .. n - 1 /\ k + 1 > i
    BY <1>1
  <2>2. CASE \E j \in 1 .. n - 1 :
                /\ StoresTo(q[j], a) /\ q[j].data = v
                /\ \A k \in j + 1 .. n - 1 : ~StoresTo(q[k], a)
    <3>1. PICK j \in 1 .. n - 1 :
                /\ StoresTo(q[j], a) /\ q[j].data = v
                /\ \A k \in j + 1 .. n - 1 : ~StoresTo(q[k], a)
      BY <2>2
    <3>2. CASE j = i
      <4>1. d = v
        BY <3>1, <3>2 DEF q
      <4>2. ASSUME NEW k \in 1 .. (n - 1) - 1
            PROVE  ~StoresTo(r[k], a)
        <5>1. CASE k < i
          <6>1. k \in 1 .. i - 1 /\ r[k] = q[k]
            BY <1>1, <2>1, <5>1
          <6> QED
            BY <3>1, <3>2, <6>1 DEF q
        <5>2. CASE ~(k < i)
          <6>1. k + 1 \in j + 1 .. n - 1 /\ r[k] = q[k + 1]
            BY <1>1, <2>1, <3>2, <5>2
          <6> QED
            BY <3>1, <6>1
        <5> QED
          BY <5>1, <5>2
      <4> QED
        BY <4>1, <4>2 DEF FindsAt
    <3>3. CASE j < i
      <4>1. j \in 1 .. (n - 1) - 1 /\ r[j] = q[j]
        BY <1>1, <3>3
      <4>2. ASSUME NEW k \in j + 1 .. (n - 1) - 1
            PROVE  ~StoresTo(r[k], a)
        <5>1. k \in 1 .. (n - 1) - 1
          BY <1>1, <3>3
        <5>2. CASE k < i
          <6>1. k \in j + 1 .. n - 1 /\ r[k] = q[k]
            BY <1>1, <2>1, <5>1, <5>2
          <6> QED
            BY <3>1, <6>1
        <5>3. CASE ~(k < i)
          <6>1. k + 1 \in j + 1 .. n - 1 /\ r[k] = q[k + 1]
            BY <1>1, <2>1, <5>1, <5>3
          <6> QED
            BY <3>1, <6>1
        <5> QED
          BY <5>2, <5>3
      <4> QED
        BY <3>1, <4>1, <4>2 DEF FindsAt
    <3>4. CASE j > i
      <4>1. j - 1 \in 1 .. (n - 1) - 1 /\ r[j - 1] = q[j]
        <5>1. j \in 1 .. m
          BY <1>1
        <5> QED
          BY <1>1, <3>4, <5>1
      <4>2. ASSUME NEW k \in (j - 1) + 1 .. (n - 1) - 1
            PROVE  ~StoresTo(r[k], a)
        <5>1. k \in 1 .. (n - 1) - 1 /\ ~(k < i)
          BY <1>1, <3>4
        <5>2. k + 1 \in j + 1 .. n - 1 /\ r[k] = q[k + 1]
          BY <1>1, <2>1, <3>4, <5>1
        <5> QED
          BY <3>1, <5>2
      <4> QED
        BY <3>1, <4>1, <4>2 DEF FindsAt
    <3> QED
      BY <1>1, <3>2, <3>3, <3>4
  <2>3. CASE c = v /\ \A k \in 1 .. n - 1 : ~StoresTo(q[k], a)
    <3>1. i \in 1 .. n - 1
      BY <1>1
    <3>2. d = v
      BY <2>3, <3>1 DEF q
    <3>3. \A k \in 1 .. (n - 1) - 1 : ~StoresTo(r[k], a)
      BY <2>1, <2>3
    <3> QED
      BY <3>2, <3>3 DEF FindsAt
  <2> QED
    BY <1>3, <2>2, <2>3 DEF FindsAt
<1> QED
  BY <1>2, <1>3 DEF m, q, r

-----------------------------------------------------------------------------
(* The answers and the messages of the scoreboard.                           *)

\* The answer (data, err) to t is the one that the scoreboard expects.
Expected(t, data, err) ==
    t.needRsp =>
        LET e == inflight[t.tid] IN
        /\ t.op # "STORE" => err = e.error
        /\ ~e.error /\ t.op = "SC" => data = IF ScOk(e) THEN 0 ELSE 1
        /\ ~e.error /\ e.rdata # None => data = e.rdata

\* Messages: one or none, and one list after another.
LEMMA OneMessage ==
    ASSUME NEW m
    PROVE  IsSeq(<<m>>) /\ <<m>> # <<>> /\ IsSeq(<<>>)
<1>1. <<m>> \in Seq({m}) /\ <<>> \in Seq({m})
  OBVIOUS
<1> QED
  BY <1>1, SeqIsSeq

LEMMA IfFacts ==
    ASSUME NEW c, NEW m
    PROVE  /\ IsSeq(If(c, m))
           /\ c => If(c, m) # <<>>
           /\ ~c => If(c, m) = <<>>
<1>1. CASE c
  BY <1>1, OneMessage DEF If
<1>2. CASE ~c
  BY <1>2, OneMessage DEF If
<1> QED
  BY <1>1, <1>2

LEMMA JoinFacts ==
    ASSUME NEW a, NEW b, IsSeq(a), IsSeq(b)
    PROVE  /\ IsSeq(a \o b)
           /\ a # <<>> \/ b # <<>> => a \o b # <<>>
           /\ a = <<>> /\ b = <<>> => a \o b = <<>>
<1> DEFINE S == Elems(a) \cup Elems(b)
<1>1. a \in Seq(S) /\ b \in Seq(S)
  BY DEF IsSeq
<1> HIDE DEF S
<1>2. /\ a \o b \in Seq(S) /\ Len(a \o b) = Len(a) + Len(b)
      /\ Len(a) \in Nat /\ Len(b) \in Nat
  BY <1>1
<1>3. a # <<>> => Len(a) # 0
  BY <1>1
<1>4. b # <<>> => Len(b) # 0
  BY <1>1
<1>5. a \o b = <<>> => Len(a \o b) = 0
  OBVIOUS
<1>6. a # <<>> \/ b # <<>> => a \o b # <<>>
  BY <1>2, <1>3, <1>4, <1>5
<1>7. a = <<>> /\ b = <<>> => a \o b = <<>>
  BY <1>1
<1>8. IsSeq(a \o b)
  BY <1>2, SeqIsSeq
<1> QED
  BY <1>6, <1>7, <1>8

\* What the checks of a response print.
LEMMA ResponseMessages ==
    ASSUME NEW e, NEW r
    PROVE  /\ IsSeq(RespErrors(e, r))
           /\ WrongFlag(e, r) => RespErrors(e, r) # <<>>
           /\ ~WrongFlag(e, r) /\ e.error => RespErrors(e, r) = <<>>
           /\ ~WrongFlag(e, r) /\ ~e.error =>
                 (RespErrors(e, r) = <<>> <=>
                    /\ ScOk(e) => r.data = 0
                    /\ e.op = "SC" /\ ~ScOk(e) => r.data = 1
                    /\ e.op \in {"LOAD", "LR"} \cup AmoOps /\ e.rdata # None =>
                          r.data = e.rdata)
<1> DEFINE c1 == ScOk(e) /\ r.data # 0
           c2 == e.op = "SC" /\ ~ScOk(e) /\ r.data # 1
           c3 == /\ e.op \in {"LOAD", "LR"} \cup AmoOps
                 /\ e.rdata # None /\ e.rdata # r.data
           m1 == If(c1, "shall be SC_SUCCESS")
           m2 == If(c2, "shall be SC_FAILURE")
           m3 == If(c3, "response data is wrong")
<1>1. RespErrors(e, r) = IF WrongFlag(e, r) THEN <<"error flag">>
                         ELSE IF e.error THEN <<>> ELSE m1 \o m2 \o m3
  BY DEF RespErrors
<1>2. /\ IsSeq(m1) /\ IsSeq(m2) /\ IsSeq(m3)
      /\ m1 = <<>> <=> ~c1
      /\ m2 = <<>> <=> ~c2
      /\ m3 = <<>> <=> ~c3
  BY IfFacts
<1> HIDE DEF m1, m2, m3
<1>3. /\ IsSeq(m1 \o m2 \o m3)
      /\ m1 \o m2 \o m3 = <<>> <=> ~c1 /\ ~c2 /\ ~c3
  <2>1. IsSeq(m1 \o m2) /\ (m1 \o m2 = <<>> <=> ~c1 /\ ~c2)
    BY <1>2, JoinFacts
  <2> HIDE DEF c1, c2, c3
  <2> QED
    BY <1>2, <2>1, JoinFacts
<1>4. IsSeq(<<"error flag">>) /\ <<"error flag">> # <<>> /\ IsSeq(<<>>)
  BY OneMessage
<1>5. ~c1 /\ ~c2 /\ ~c3 <=>
         /\ ScOk(e) => r.data = 0
         /\ e.op = "SC" /\ ~ScOk(e) => r.data = 1
         /\ e.op \in {"LOAD", "LR"} \cup AmoOps /\ e.rdata # None => r.data = e.rdata
  OBVIOUS
<1> HIDE DEF c1, c2, c3
<1>6. CASE WrongFlag(e, r)
  <2>1. RespErrors(e, r) = <<"error flag">>
    BY <1>1, <1>6
  <2> QED
    BY <1>4, <1>6, <2>1, Zenon
<1>7. CASE ~WrongFlag(e, r) /\ e.error
  BY <1>1, <1>4, <1>7
<1>8. CASE ~WrongFlag(e, r) /\ ~e.error
  <2>1. RespErrors(e, r) = m1 \o m2 \o m3
    BY <1>1, <1>8
  <2> QED
    BY <1>3, <1>5, <1>8, <2>1, Zenon
<1> QED
  BY <1>6, <1>7, <1>8

LEMMA TableIsFinite ==
    ASSUME BoardType
    PROVE  IsFiniteSet(DOMAIN inflight) /\ Cardinality(DOMAIN inflight) \in Nat
BY SeqAssumption, FS_Subset, FS_CardinalityType DEF BoardType

\* The scoreboard accepts the expected answer: it prints nothing, and learns
\* what an atomic operation has written.
LEMMA RightAnswer ==
    ASSUME TbBase, QueueOK, CountOK, sbErrors = <<>>,
           NEW i \in 1 .. Len(dutQ), NEW data, NEW err,
           Right(dutQ[i], data, err), Expected(dutQ[i], data, err)
    PROVE  LET t == dutQ[i]
               e == inflight[t.tid]
           IN  /\ sbErrors' = <<>> /\ CountOK'
               /\ t.op \notin AmoOps \cup {"SC"} => ram' = ram
               /\ t.op = "SC" => ram' = IF ScOk(e) THEN [ram EXCEPT ![t.addr] = t.data] ELSE ram
               /\ t.op \in AmoOps =>
                     ram' = IF e.error THEN ram
                            ELSE [ram EXCEPT ![t.addr] = ComputeAmo(t.op, data, t.data, FALSE)]
<1> USE DEF TbBase, TbTypeOK
<1> DEFINE t == dutQ[i]
           e == inflight[t.tid]
           r == [tid |-> t.tid, data |-> data, error |-> err]
<1>1. t \in Drawn /\ (IsRmw(t.op) => t.needRsp)
  BY DEF DeviceType, Drawn
<1>2. CASE ~t.needRsp
  <2>1. UNCHANGED sbVars
    BY <1>2 DEF Right
  <2> QED
    BY <1>1, <1>2, <2>1 DEF sbVars, CountOK, IsRmw
<1>3. CASE t.needRsp
  <2>1. core_resp_process(r)
    BY <1>3 DEF Right
  <2>2. t.tid \in DOMAIN inflight /\ e.op = t.op /\ e.addr = t.addr /\ e.data = t.data
    BY <1>3 DEF QueueOK
  <2>3. r.tid = t.tid /\ r.data = data /\ r.error = err
    OBVIOUS
  <2> HIDE DEF r
  <2>4. ~WrongFlag(e, r)
    BY <1>3, <2>2, <2>3 DEF Expected, WrongFlag
  <2>5. ScOk(e) => t.op = "SC" /\ ~e.error
    BY <2>2 DEF ScOk
  <2>6. RespErrors(e, r) = <<>>
    BY <1>3, <2>2, <2>3, <2>4, <2>5, ResponseMessages DEF Expected
  <2>7. sbErrors' = <<>>
    <3>1. sbErrors' = sbErrors \o <<>>
      BY <2>1, <2>2, <2>3, <2>6 DEF core_resp_process, print_error
    <3> QED
      BY <3>1
  <2>8. /\ nbResp' = nbResp + 1 /\ nbNeedRsp' = nbNeedRsp
        /\ DOMAIN inflight' = DOMAIN inflight \ {t.tid}
    BY <2>1, <2>2, <2>3, <2>4 DEF core_resp_process
  <2>9. CountOK'
    <3>1. Cardinality(DOMAIN inflight') = Cardinality(DOMAIN inflight) - 1
      BY <2>2, <2>8, TableIsFinite, FS_RemoveElement
    <3> QED
      BY <2>8, <3>1, TableIsFinite DEF CountOK
  <2>10. ram' = IF ScOk(e) THEN [ram EXCEPT ![e.addr] = e.data]
                ELSE IF e.op \in AmoOps /\ ~e.error
                THEN [ram EXCEPT ![e.addr] = ComputeAmo(e.op, data, e.data, FALSE)]
                ELSE ram
    BY <2>1, <2>2, <2>3, <2>4 DEF core_resp_process
  <2>11. "SC" \notin AmoOps
    BY DEF AmoOps
  <2> QED
    BY <2>2, <2>5, <2>7, <2>9, <2>10, <2>11
<1> QED
  BY <1>2, <1>3

-----------------------------------------------------------------------------
(* Whatever the device answers.                                              *)

\* Request i has left the device.
Left(i) == \A j \in 1 .. Len(dutQ') : \E k \in 1 .. Len(dutQ) : k # i /\ dutQ'[j] = dutQ[k]

LEMMA DeviceAnswers ==
    ASSUME TbAlways, UcAlone, DutStep
    PROVE  /\ UcAlone'
           /\ \/ UNCHANGED <<sbVars, ids, bug, dutQ>>
              \/ \E i \in 1 .. Len(dutQ) : \E data, err :
                    Answer(dutQ[i], data, err) /\ Left(i)
<1> USE DEF TbAlways, TbTypeOK
<1>0. DOMAIN dutQ = 1 .. Len(dutQ) /\ Len(dutQ) \in Nat
  BY DEF DeviceType
<1>1. CASE DutMiss \/ DutDrain \/ DutWriteAck \/ DutUcRead
  <2>1. UNCHANGED <<sbVars, ids, bug, dutQ>>
    BY <1>1 DEF DutMiss, DutDrain, DutWrite, DutWriteAck, DutUcRead
  <2>2. uc'.busy = uc.busy
    BY <1>1 DEF DutMiss, DutDrain, DutWriteAck, DutUcRead, DeviceType
  <2> QED
    BY <2>1, <2>2 DEF UcAlone
<1>2. CASE DutUcSend
  <2>1. UNCHANGED <<sbVars, ids, bug, dutQ>>
    BY <1>2 DEF DutUcSend, DutWrite
  <2>2. Len(dutQ) = 1 /\ IsRmw(dutQ[1].op)
    BY <1>2 DEF DutUcSend, Ready
  <2> QED
    BY <2>1, <2>2 DEF UcAlone
<1>3. CASE DutHit \/ DutRefill \/ DutStore
  <2>1. PICK i \in 1 .. Len(dutQ) :
           /\ dutQ[i].op \in {"LOAD", "CMO_PREFETCH", "STORE"} /\ dutQ' = Without(i)
           /\ \E data, err : Answer(dutQ[i], data, err)
    <3>1. CASE DutHit
      BY <1>0, <3>1, Zenon DEF DutHit
    <3>2. CASE DutRefill
      BY <1>0, <3>2, Zenon DEF DutRefill
    <3>3. CASE DutStore
      BY <1>0, <3>3, Zenon DEF DutStore
    <3> QED
      BY <1>3, <3>1, <3>2, <3>3
  <2>2. UNCHANGED uc
    BY <1>3 DEF DutHit, DutRefill, DutStore
  <2>3. ~IsRmw(dutQ[i].op)
    BY <2>1 DEF IsRmw, AmoOps
  <2>4. ~uc.busy
    <3>1. Len(dutQ) = 1 => i = 1
      BY <1>0
    <3> QED
      BY <2>3, <3>1 DEF UcAlone
  <2>5. Left(i)
    BY <2>1, RemovedFacts DEF Left
  <2> QED
    BY <2>1, <2>2, <2>4, <2>5 DEF UcAlone
<1>4. CASE DutScFail \/ DutUcDone \/ DutCmo
  <2>1. dutQ' = <<>> /\ \E data, err : Answer(dutQ[1], data, err)
    <3>1. CASE DutScFail
      BY <3>1, Zenon DEF DutScFail
    <3>2. CASE DutUcDone
      BY <3>2, Zenon DEF DutUcDone
    <3>3. CASE DutCmo
      BY <3>3, Zenon DEF DutCmo
    <3> QED
      BY <1>4, <3>1, <3>2, <3>3
  <2>2. Len(dutQ) = 1
    BY <1>4 DEF DutScFail, DutUcDone, DutCmo, Ready, UcAlone
  <2>3. ~uc'.busy
    <3>1. CASE DutUcDone
      BY <3>1 DEF DutUcDone, UcIdle
    <3>2. CASE DutScFail
      BY <3>2 DEF DutScFail
    <3>3. CASE DutCmo
      <4>1. uc' = uc /\ ~IsRmw(dutQ[1].op)
        BY <3>3 DEF DutCmo, Ready, CmoOps, IsRmw, AmoOps
      <4> QED
        BY <4>1 DEF UcAlone
    <3> QED
      BY <1>4, <3>1, <3>2, <3>3
  <2>4. Left(1) /\ 1 \in 1 .. Len(dutQ)
    BY <2>1, <2>2 DEF Left
  <2> QED
    BY <2>1, <2>3, <2>4 DEF UcAlone
<1> QED
  BY <1>1, <1>2, <1>3, <1>4 DEF DutStep

\* Messages are printed, and never taken back.
LEMMA Prints ==
    ASSUME IsSeq(sbErrors), NEW m, IsSeq(m), sbErrors' = sbErrors \o m
    PROVE  IsSeq(sbErrors') /\ (sbErrors # <<>> \/ m # <<>> => sbErrors' # <<>>)
BY JoinFacts

LEMMA ErrorsGrow ==
    ASSUME TbAlways, IsSeq(sbErrors), UcAlone, Next
    PROVE  IsSeq(sbErrors)' /\ (sbErrors # <<>> => sbErrors' # <<>>)
<1>1. CASE sbErrors' = sbErrors
  BY <1>1 DEF IsSeq, Elems
<1>2. CASE \E m : IsSeq(m) /\ sbErrors' = sbErrors \o m
  <2>1. IsSeq(sbErrors')
    BY <1>2, Prints
  <2> QED
    BY <1>2, <2>1, Prints DEF IsSeq, Elems
<1>3. CASE Simulate \/ SeqStep \/ DriverTake \/ CheckInflight \/ DriverFinish
  <2>1. sbErrors' = sbErrors
    BY <1>3 DEF Simulate, SeqStep, DriverTake, CheckInflight, DriverFinish,
                check_inflight_requests, sbVars
  <2> QED
    BY <1>1, <2>1
<1>4. CASE MemStep
  <2>1. CASE readOperation \/ write_address_process \/ write_data_process \/ WritePush
    <3>1. sbErrors' = sbErrors
      BY <2>1 DEF readOperation, write_address_process, write_data_process, WritePush, sbVars
    <3> QED
      BY <1>1, <3>1
  <2>2. CASE read_process
    <3>1. PICK c1, c2, c3 : print_error(   If(c1, "duplicate memory read id")
                                        \o If(c2, "single inflight atomic")
                                        \o If(c3, "unexpected load-exclusive"))
      BY <2>2, Zenon DEF read_process, mem_read_req_process
    <3> QED
      BY <1>2, <3>1, IfFacts, JoinFacts DEF print_error
  <2>3. CASE read_response_process \/ write_response_process
    <3>1. PICK c, m : print_error(If(c, m))
      BY <2>3, Zenon DEF read_response_process, write_response_process,
                         mem_read_resp_process, mem_write_resp_process
    <3> QED
      BY <1>2, <3>1, IfFacts DEF print_error
  <2>4. CASE write_process
    <3>1. PICK c1, c2, c3, c4, c5 :
             print_error(   If(c1, "duplicate memory write id")
                         \o If(c2, "single inflight atomic")
                         \o If(c3, "unexpected atomic request")
                         \o If(c4, "no valid reservation")
                         \o If(c5, "no associated core request"))
      BY <2>4, Zenon DEF write_process, mem_write_req_process
    <3> QED
      BY <1>2, <3>1, IfFacts, JoinFacts DEF print_error
  <2> QED
    BY <1>4, <2>1, <2>2, <2>3, <2>4 DEF MemStep
<1>5. CASE drive_request
  <2>1. PICK c1, c2 : print_error(If(c1, "duplicate id") \o If(c2, "amo fifo full"))
    BY <1>5, Zenon DEF drive_request, core_req_process
  <2> QED
    BY <1>2, <2>1, IfFacts, JoinFacts DEF print_error
<1>6. CASE DutStep
  <2>1. CASE UNCHANGED sbVars
    BY <1>1, <2>1 DEF sbVars
  <2>2. CASE \E t, data, err : Answer(t, data, err)
    <3>1. UNCHANGED sbVars \/ \E r : core_resp_process(r)
      BY <2>2, Zenon DEF Answer, monitor_response
    <3>2. ASSUME NEW r, core_resp_process(r)
          PROVE  \E m : IsSeq(m) /\ sbErrors' = sbErrors \o m
      BY <3>2, OneMessage, ResponseMessages DEF core_resp_process, print_error
    <3> QED
      BY <1>2, <2>1, <3>1, <3>2
  <2> QED
    BY <1>6, <2>1, <2>2, DeviceSteps
<1> QED
  BY <1>3, <1>4, <1>5, <1>6 DEF Next

\* The simulation ends after a sample that shows no request in flight: none
\* can be added once the driver has stopped.
LEMMA EndStep ==
    ASSUME TbAlways, UcAlone, EndOK, Next
    PROVE  EndOK'
<1>1. drv = [st |-> drv.st, t |-> drv.t]
  BY DEF TbAlways, ChanOK
<1>2. CASE Simulate \/ SeqStep \/ MemStep
  <2>1. UNCHANGED <<fresh, drv, inflight, noInflight>>
    <3>1. CASE Simulate \/ SeqStep
      BY <3>1 DEF Simulate, SeqStep, sbVars
    <3>2. CASE MemStep
      <4>1. UNCHANGED <<fresh, drv, inflight>>
        BY <3>2, MemorySteps
      <4>2. UNCHANGED noInflight
        BY <3>2 DEF MemStep, read_process, readOperation, read_response_process,
                    write_address_process, write_data_process, write_process, WritePush,
                    write_response_process, mem_read_req_process, mem_read_resp_process,
                    mem_write_req_process, mem_write_resp_process, sbVars
      <4> QED
        BY <4>1, <4>2
    <3> QED
      BY <1>2, <3>1, <3>2
  <2> QED
    BY <2>1 DEF EndOK
<1>3. CASE DutStep
  <2>1. UNCHANGED <<fresh, drv>>
    BY <1>3 DEF DutStep
  <2>2. noInflight' = noInflight /\ DOMAIN inflight' \subseteq DOMAIN inflight
    BY <1>3, DeviceSteps, AnswerEffect DEF sbVars
  <2> QED
    BY <2>1, <2>2 DEF EndOK
<1>4. CASE DriverTake
  BY <1>1, <1>4 DEF DriverTake, EndOK, sbVars
<1>5. CASE drive_request
  BY <1>1, <1>5 DEF drive_request, EndOK
<1>6. CASE CheckInflight
  BY <1>6 DEF CheckInflight, check_inflight_requests, EndOK, Next, Running
<1>7. CASE DriverFinish
  BY <1>1, <1>7 DEF DriverFinish, EndOK, sbVars
<1> QED
  BY <1>2, <1>3, <1>4, <1>5, <1>6, <1>7 DEF Next

\* A request in the table that left the device without its answer.
Orphan(x) ==
    x \in DOMAIN inflight /\ \A i \in 1 .. Len(dutQ) : dutQ[i].needRsp => dutQ[i].tid # x

\* What was caught stays caught.
LEMMA CaughtStays ==
    ASSUME TbAlways, IsSeq(sbErrors), UcAlone, Caught, Next, bug # None
    PROVE  Caught'
<1> USE DEF TbAlways, TbTypeOK
<1>1. CASE sbErrors # <<>>
  BY <1>1, ErrorsGrow DEF Caught
<1>2. CASE \E x : Orphan(x)
  <2>1. PICK x : Orphan(x)
    BY <1>2
  <2> SUFFICES Orphan(x)'
    BY DEF Orphan, Caught
  <2>2. CASE UNCHANGED <<inflight, dutQ>>
    BY <2>1, <2>2 DEF Orphan
  <2>3. CASE Simulate \/ SeqStep \/ MemStep \/ DriverTake \/ CheckInflight \/ DriverFinish
    <3>1. UNCHANGED <<inflight, dutQ>>
      <4>1. CASE MemStep
        BY <4>1, MemorySteps DEF dutVars
      <4>2. CASE Simulate \/ SeqStep \/ DriverTake \/ CheckInflight \/ DriverFinish
        BY <4>2 DEF Simulate, SeqStep, DriverTake, CheckInflight, DriverFinish,
                    check_inflight_requests, sbVars, dutVars
      <4> QED
        BY <2>3, <4>1, <4>2
    <3> QED
      BY <2>2, <3>1
  <2>4. CASE drive_request
    <3> DEFINE t == drv.t
    <3>1. core_req_process(t) /\ dutQ' = Append(dutQ, t)
      BY <2>4 DEF drive_request
    <3>2. t \in Drawn /\ t.tid \notin DOMAIN inflight
      BY <2>4 DEF drive_request, ChanOK, IdsOK, Waiting
    <3>3. x \in DOMAIN inflight' /\ t.tid # x
      BY <2>1, <3>1, <3>2, RequestEffect DEF Orphan
    <3> HIDE DEF t
    <3>4. \A j \in 1 .. Len(dutQ') :
             dutQ'[j] = t \/ (j \in 1 .. Len(dutQ) /\ dutQ'[j] = dutQ[j])
      BY <3>1, <3>2 DEF DeviceType
    <3>5. ASSUME NEW j \in 1 .. Len(dutQ'), dutQ'[j].needRsp
          PROVE  dutQ'[j].tid # x
      <4>1. CASE dutQ'[j] = t
        BY <3>3, <4>1
      <4>2. CASE j \in 1 .. Len(dutQ) /\ dutQ'[j] = dutQ[j]
        BY <2>1, <3>5, <4>2 DEF Orphan
      <4> QED
        BY <3>4, <4>1, <4>2
    <3> QED
      BY <3>3, <3>5, Zenon DEF Orphan
  <2>5. CASE DutStep
    <3>1. CASE UNCHANGED <<sbVars, ids, bug, dutQ>>
      BY <2>2, <3>1 DEF sbVars
    <3>2. ASSUME NEW i \in 1 .. Len(dutQ), NEW data, NEW err,
                 Answer(dutQ[i], data, err), Left(i)
          PROVE  Orphan(x)'
      <4>1. x \in DOMAIN inflight'
        <5>1. CASE ~dutQ[i].needRsp
          BY <2>1, <3>2, <5>1 DEF Answer, sbVars, Orphan
        <5>2. CASE dutQ[i].needRsp
          <6>1. core_resp_process([tid |-> dutQ[i].tid, data |-> data, error |-> err])
            BY <3>2, <5>2, Zenon DEF Answer, monitor_response, core_resp_to_struct
          <6> DEFINE r == [tid |-> dutQ[i].tid, data |-> data, error |-> err]
          <6>2. inflight' \in {inflight, [y \in DOMAIN inflight \ {r.tid} |-> inflight[y]]}
            BY <6>1 DEF core_resp_process
          <6>3. x \in DOMAIN inflight /\ x # r.tid
            BY <2>1, <5>2, <6>1 DEF Orphan
          <6>4. CASE inflight' = inflight
            BY <6>3, <6>4
          <6>5. CASE inflight' = [y \in DOMAIN inflight \ {r.tid} |-> inflight[y]]
            BY <6>3, <6>5
          <6> QED
            BY <6>2, <6>4, <6>5
        <5> QED
          BY <5>1, <5>2
      <4> QED
        BY <2>1, <3>2, <4>1 DEF Orphan, Left
    <3> QED
      BY <2>5, <3>1, <3>2, DeviceAnswers
  <2> QED
    BY <2>3, <2>4, <2>5 DEF Next
<1> QED
  BY <1>1, <1>2 DEF Caught, Orphan

\* A wrong answer that can be known to be wrong is caught when it is given.
LEMMA WrongIsCaught ==
    ASSUME TbBase, QueueOK, EntriesOK, sbErrors = <<>>,
           NEW i \in 1 .. Len(dutQ), NEW data, NEW err, err \in BOOLEAN,
           Answer(dutQ[i], data, err), Left(i), Expected(dutQ[i], data, err),
           bug = None, bug' # None, bug'.seen
    PROVE  Caught'
<1> USE DEF TbBase, TbTypeOK
<1> DEFINE t == dutQ[i]
           e == inflight[t.tid]
<1>1. t.needRsp
  BY DEF Answer
<1>2. t.tid \in DOMAIN inflight /\ e.op = t.op
  BY <1>1 DEF QueueOK
<1>3. e.rdata # None => t.op \in {"LOAD", "LR"} \cup AmoOps
  BY <1>1 DEF EntriesOK
<1>4. /\ t.op # "STORE" => err = e.error
      /\ ~e.error /\ t.op = "SC" => data = IF ScOk(e) THEN 0 ELSE 1
      /\ ~e.error /\ e.rdata # None => data = e.rdata
  BY <1>1 DEF Expected
<1>5. \/ /\ \E d \in Val \ {data} : core_resp_process([tid |-> t.tid, data |-> d, error |-> err])
         /\ ~e.error /\ (e.op = "SC" \/ e.rdata # None)
      \/ /\ core_resp_process([tid |-> t.tid, data |-> data, error |-> ~err])
         /\ t.op # "STORE"
      \/ \E o \in Tids \ {t.tid} : core_resp_process([tid |-> o, data |-> data, error |-> err])
  <2>1. \/ UNCHANGED bug
        \/ /\ \E d \in Val \ {data} : core_resp_process([tid |-> t.tid, data |-> d, error |-> err])
           /\ bug' = [kind |-> "data", seen |-> ~e.error /\ (e.op = "SC" \/ e.rdata # None)]
        \/ /\ core_resp_process([tid |-> t.tid, data |-> data, error |-> ~err])
           /\ bug' = [kind |-> "error", seen |-> t.op # "STORE"]
        \/ \E o \in Tids \ {t.tid} : core_resp_process([tid |-> o, data |-> data, error |-> err])
    BY <1>1, Zenon DEF Answer, monitor_response, core_resp_to_struct
  <2> HIDE DEF t, e
  <2>2. CASE UNCHANGED bug
    BY <2>2
  <2>3. CASE /\ \E d \in Val \ {data} : core_resp_process([tid |-> t.tid, data |-> d, error |-> err])
             /\ bug' = [kind |-> "data", seen |-> ~e.error /\ (e.op = "SC" \/ e.rdata # None)]
    <3>1. bug'.seen = (~e.error /\ (e.op = "SC" \/ e.rdata # None))
      BY <2>3
    <3> QED
      BY <2>3, <3>1, Zenon
  <2>4. CASE /\ core_resp_process([tid |-> t.tid, data |-> data, error |-> ~err])
             /\ bug' = [kind |-> "error", seen |-> t.op # "STORE"]
    <3>1. bug'.seen = (t.op # "STORE")
      BY <2>4
    <3> QED
      BY <2>4, <3>1, Zenon
  <2> QED
    BY <2>1, <2>2, <2>3, <2>4, Zenon
<1>6. ASSUME NEW r, core_resp_process(r), r.tid = t.tid,
             WrongFlag(e, r) \/ (~WrongFlag(e, r) /\ ~e.error /\ RespErrors(e, r) # <<>>)
      PROVE  Caught'
  <2>1. RespErrors(e, r) # <<>> /\ IsSeq(RespErrors(e, r))
    BY <1>6, ResponseMessages
  <2>2. sbErrors' = sbErrors \o RespErrors(e, r)
    BY <1>2, <1>6 DEF core_resp_process, print_error
  <2>3. sbErrors' # <<>>
    BY <2>1, <2>2, OneMessage, JoinFacts
  <2> QED
    BY <2>3 DEF Caught
<1> HIDE DEF t, e
<1>7. ASSUME NEW d, d # data, ~e.error, e.op = "SC" \/ e.rdata # None,
             core_resp_process([tid |-> t.tid, data |-> d, error |-> err])
      PROVE  Caught'
  <2> DEFINE r == [tid |-> t.tid, data |-> d, error |-> err]
  <2>1. r.tid = t.tid /\ r.data = d /\ r.error = err
    OBVIOUS
  <2>2. core_resp_process(r)
    BY <1>7
  <2> HIDE DEF r
  <2>3. CASE WrongFlag(e, r)
    BY <1>6, <2>1, <2>2, <2>3
  <2>4. CASE ~WrongFlag(e, r)
    <3>1. ScOk(e) => e.op = "SC"
      BY DEF ScOk
    <3>2. RespErrors(e, r) # <<>>
      BY <1>2, <1>3, <1>4, <1>7, <2>1, <2>4, <3>1, ResponseMessages
    <3> QED
      BY <1>6, <1>7, <2>1, <2>2, <2>4, <3>2
  <2> QED
    BY <2>3, <2>4
<1>8. ASSUME core_resp_process([tid |-> t.tid, data |-> data, error |-> ~err]), t.op # "STORE"
      PROVE  Caught'
  <2> DEFINE r == [tid |-> t.tid, data |-> data, error |-> ~err]
  <2>1. r.tid = t.tid /\ r.error = ~err /\ core_resp_process(r)
    BY <1>8
  <2> HIDE DEF r
  <2>2. WrongFlag(e, r)
    BY <1>2, <1>4, <1>8, <2>1 DEF WrongFlag
  <2> QED
    BY <1>6, <2>1, <2>2
<1>9. ASSUME NEW o, o # t.tid, core_resp_process([tid |-> o, data |-> data, error |-> err])
      PROVE  Caught'
  <2>1. inflight' \in {inflight, [y \in DOMAIN inflight \ {o} |-> inflight[y]]}
    BY <1>9 DEF core_resp_process
  <2>2. t.tid \in DOMAIN inflight'
    <3>1. CASE inflight' = inflight
      BY <1>2, <3>1
    <3>2. CASE inflight' = [y \in DOMAIN inflight \ {o} |-> inflight[y]]
      BY <1>2, <1>9, <3>2
    <3> QED
      BY <2>1, <3>1, <3>2
  <2>3. \A k \in 1 .. Len(dutQ) : k # i /\ dutQ[k].needRsp => dutQ[k].tid # t.tid
    BY <1>1 DEF QueueOK, t
  <2>4. \A j \in 1 .. Len(dutQ') : dutQ'[j].needRsp => dutQ'[j].tid # t.tid
    BY <2>3 DEF Left
  <2> QED
    BY <2>2, <2>4 DEF Caught
<1> QED
  BY <1>5, <1>7, <1>8, <1>9

-----------------------------------------------------------------------------
(* The data beats that the memory has not performed.                         *)

Beat(d) == d \in Elems(wdFifo) \/ (wdReq # None /\ d = wdReq)

\* Each was sent for a write that is pending too.
LEMMA BeatsHaveRequests ==
    ASSUME TbBase, NEW d, Beat(d)
    PROVE  \E r : (r \in Elems(waFifo) \/ (waReq # None /\ r = waReq)) /\ r.id = d.of
<1> USE DEF TbBase, TbTypeOK, MemoryType
<1>1. Len(waFifo) \in Nat /\ Len(wdFifo) \in Nat
  OBVIOUS
<1> DEFINE wa == IF waReq = None THEN 0 ELSE 1
           wd == IF wdReq = None THEN 0 ELSE 1
<1>2. /\ Len(waFifo) + wa = Len(wdFifo) + wd
      /\ \A i \in 1 .. Len(waFifo) : i <= Len(wdFifo) => waFifo[i].id = wdFifo[i].of
      /\ Len(waFifo) > Len(wdFifo) => waFifo[Len(waFifo)].id = wdReq.of
      /\ Len(wdFifo) > Len(waFifo) => wdFifo[Len(wdFifo)].of = waReq.id
      /\ waReq # None /\ wdReq # None => waReq.id = wdReq.of
  BY DEF Paired
<1>3. \A i \in 1 .. Len(waFifo) : waFifo[i] \in Elems(waFifo)
  BY DEF Elems
<1>4. CASE d \in Elems(wdFifo)
  <2>1. PICK k \in 1 .. Len(wdFifo) : d = wdFifo[k]
    BY <1>4 DEF Elems
  <2>2. CASE k \in 1 .. Len(waFifo)
    BY <1>1, <1>2, <1>3, <2>1, <2>2
  <2>3. CASE k \notin 1 .. Len(waFifo)
    <3>1. k > Len(waFifo) /\ k <= Len(wdFifo)
      BY <1>1, <2>3
    <3>2. wa \in {0, 1} /\ wd \in {0, 1}
      OBVIOUS
    <3> HIDE DEF wa, wd
    <3>3. wa = 1 /\ k = Len(wdFifo) /\ Len(wdFifo) > Len(waFifo)
      BY <1>1, <1>2, <3>1, <3>2
    <3>4. waReq # None
      BY <3>3 DEF wa
    <3> QED
      BY <1>2, <2>1, <3>3, <3>4
  <2> QED
    BY <2>2, <2>3
<1>5. CASE wdReq # None /\ d = wdReq
  <2>1. CASE waReq # None
    BY <1>2, <1>5, <2>1
  <2>2. CASE waReq = None
    <3>1. wa = 0 /\ wd = 1
      BY <1>5, <2>2
    <3> HIDE DEF wa, wd
    <3>2. Len(waFifo) > Len(wdFifo) /\ Len(waFifo) \in 1 .. Len(waFifo)
      BY <1>1, <1>2, <3>1
    <3> QED
      BY <1>2, <1>3, <1>5, <3>2
  <2> QED
    BY <2>1, <2>2
<1> QED
  BY <1>4, <1>5 DEF Beat

\* So it belongs to the atomic request or to an entry of the write buffer
\* whose response is still to come.
LEMMA BeatsAreSent ==
    ASSUME TbBase, WritesOK, NEW d, Beat(d)
    PROVE  IF d.of = UcId THEN uc.busy /\ UcWrites
           ELSE wbuf[d.of] # None /\ wbuf[d.of].sent /\ ~Holds(wrResp, d.of)
<1>1. PICK r : (r \in Elems(waFifo) \/ (waReq # None /\ r = waReq)) /\ r.id = d.of
  BY BeatsHaveRequests, Zenon
<1>2. WriteRequestOK(r) /\ ~Holds(wrResp, r.id)
  BY <1>1 DEF WritesOK
<1>3. r.id = UcId => UcWrites
  BY <1>1 DEF UcWrites, Has, Holds
<1> QED
  BY <1>1, <1>2, <1>3 DEF WriteRequestOK

LEMMA BeatsData ==
    /\ WritesData => \A d : Beat(d) => BeatOK(d)
    /\ (\A d : Beat(d) => BeatOK(d)) =>
          (\A d \in Elems(wdFifo) : BeatOK(d)) /\ (wdReq # None => BeatOK(wdReq))
BY DEF WritesData, Beat

-----------------------------------------------------------------------------
(* The answers of the device are the expected ones.                          *)

\* The oldest request on its line finds the current word.
LEMMA FindsOldest ==
    ASSUME NEW i \in 1 .. Len(dutQ), Oldest(i), NEW c, NEW v,
           FindsAt(dutQ, i, dutQ[i].addr, c, v)
    PROVE  c = v
<1>1. \A k \in 1 .. i - 1 : ~StoresTo(dutQ[k], dutQ[i].addr)
  BY DEF Oldest, StoresTo
<1> QED
  BY <1>1 DEF FindsAt

LEMMA HitExpected ==
    ASSUME TbBase, InOrder, VerdictOK, NEW i \in 1 .. Len(dutQ),
           dutQ[i].op \in {"LOAD", "CMO_PREFETCH"}, Oldest(i), cache[dutQ[i].addr] # None
    PROVE  Expected(dutQ[i], cache[dutQ[i].addr], FALSE)
<1> USE DEF TbBase, TbTypeOK, InOrder, VerdictOK
<1> DEFINE t == dutQ[i]
           a == t.addr
           e == inflight[t.tid]
<1>1. t \in Drawn /\ a \in Addr
  BY DEF DeviceType, Drawn, Request
<1>2. ~uc.busy
  BY NotBusy DEF IsRmw, AmoOps
<1>3. Good(a) /\ cache[a] = Current(a)
  BY <1>1, <1>2 DEF CacheOK, Changing
<1>4. ASSUME t.needRsp
      PROVE  e.error = FALSE /\ (e.rdata # None => cache[a] = e.rdata)
  <2>1. e.error = (within_error_region(a) /\ t.op # "SC" /\ (t.op \in CmoOps => t.op = "CMO_PREFETCH"))
    BY <1>4 DEF EntriesOK
  <2>2. e.error = FALSE
    BY <1>3, <2>1 DEF Good
  <2>3. ASSUME e.rdata # None
        PROVE  cache[a] = e.rdata
    <3>1. FindsAt(dutQ, i, a, Current(a), e.rdata)
      BY <1>2, <1>4, <2>3 DEF EntriesOK, Changing
    <3> QED
      BY <1>3, <3>1, FindsOldest
  <2> QED
    BY <2>2, <2>3
<1>5. t.op # "SC"
  OBVIOUS
<1> HIDE DEF t, e, a
<1> QED
  BY <1>4, <1>5 DEF Expected, t, e, a

LEMMA RefillExpected ==
    ASSUME TbBase, InOrder, VerdictOK, NEW i \in 1 .. Len(dutQ),
           dutQ[i].op \in {"LOAD", "CMO_PREFETCH"}, Oldest(i),
           rdResp # None, rdResp.id = dutQ[i].addr
    PROVE  /\ Expected(dutQ[i], rdResp.data, rdResp.error)
           /\ rdResp.error = within_error_region(dutQ[i].addr)
           /\ Good(dutQ[i].addr) => rdResp.data = Current(dutQ[i].addr)
<1> USE DEF TbBase, TbTypeOK, InOrder, VerdictOK
<1> DEFINE t == dutQ[i]
           a == t.addr
           e == inflight[t.tid]
<1>1. t \in Drawn /\ a \in Addr /\ a # UcId
  BY Identifiers DEF DeviceType, Drawn, Request
<1>2. ~uc.busy
  BY NotBusy DEF IsRmw, AmoOps
<1>3. a \in miss /\ rdResp.error = within_error_region(a)
  BY <1>1 DEF ReadsOK, ReadResponseOK
<1>4. Good(a) => rdResp.data = mem[a]
  BY <1>1 DEF ReadsData, ReadDataOK
<1>5. Current(a) = mem[a]
  BY <1>3 DEF DeviceOK, Current
<1>6. ASSUME t.needRsp
      PROVE  e.error = rdResp.error /\ (~e.error /\ e.rdata # None => rdResp.data = e.rdata)
  <2>1. e.error = (within_error_region(a) /\ t.op # "SC" /\ (t.op \in CmoOps => t.op = "CMO_PREFETCH"))
    BY <1>6 DEF EntriesOK
  <2>2. e.error = within_error_region(a)
    <3>1. t.op # "SC" /\ (t.op \in CmoOps => t.op = "CMO_PREFETCH")
      BY DEF CmoOps
    <3> HIDE DEF t, e
    <3> QED
      BY <2>1, <3>1 DEF within_error_region
  <2>3. ASSUME e.rdata # None
        PROVE  rdResp.data = e.rdata
    <3>1. FindsAt(dutQ, i, a, Current(a), e.rdata) /\ Good(a)
      BY <1>2, <1>6, <2>3 DEF EntriesOK, Changing
    <3> QED
      BY <1>4, <1>5, <3>1, FindsOldest
  <2> QED
    BY <1>3, <2>2, <2>3
<1>7. t.op # "SC"
  OBVIOUS
<1>8. Expected(t, rdResp.data, rdResp.error)
  <2> HIDE DEF t, e, a
  <2> QED
    BY <1>6, <1>7 DEF Expected, e
<1> QED
  BY <1>3, <1>4, <1>5, <1>8

\* The error flag of an entry, by the kind of request.
LEMMA EntryError ==
    ASSUME TbBase, EntriesOK, NEW i \in 1 .. Len(dutQ), dutQ[i].needRsp
    PROVE  LET e == inflight[dutQ[i].tid] IN
           /\ e.error \in BOOLEAN
           /\ dutQ[i].op = "SC" \/ dutQ[i].op \in CmoOps \ {"CMO_PREFETCH"} => ~e.error
           /\ dutQ[i].op \in AmoOps \cup {"LOAD", "STORE", "LR", "CMO_PREFETCH"} =>
                 (e.error <=> within_error_region(dutQ[i].addr))
           /\ dutQ[i].op \notin AmoOps \cup {"LOAD", "LR"} => e.rdata = None
<1> DEFINE t == dutQ[i]
           e == inflight[t.tid]
<1>1. e.error = (within_error_region(t.addr) /\ t.op # "SC" /\ (t.op \in CmoOps => t.op = "CMO_PREFETCH"))
  BY DEF EntriesOK
<1>2. t.op \notin AmoOps \cup {"LOAD", "LR"} => e.rdata = None
  BY DEF EntriesOK
<1>3. t.op \in AmoOps \cup {"LOAD", "STORE", "LR", "CMO_PREFETCH"} =>
         t.op # "SC" /\ (t.op \in CmoOps => t.op = "CMO_PREFETCH")
  BY DEF AmoOps, CmoOps
<1> HIDE DEF t, e
<1>4. e.error \in BOOLEAN
  BY <1>1
<1>5. t.op = "SC" \/ t.op \in CmoOps \ {"CMO_PREFETCH"} => ~e.error
  BY <1>1
<1>6. t.op \in AmoOps \cup {"LOAD", "STORE", "LR", "CMO_PREFETCH"} =>
         (e.error <=> within_error_region(t.addr))
  BY <1>1, <1>3
<1> QED
  BY <1>2, <1>4, <1>5, <1>6 DEF t, e

LEMMA StoreExpected ==
    ASSUME TbBase, InOrder, VerdictOK, NEW i \in 1 .. Len(dutQ), dutQ[i].op = "STORE"
    PROVE  Expected(dutQ[i], 0, FALSE)
<1>1. dutQ[i].needRsp => inflight[dutQ[i].tid].rdata = None
  BY EntryError DEF VerdictOK, AmoOps
<1> QED
  BY <1>1 DEF Expected

LEMMA CmoExpected ==
    ASSUME TbBase, InOrder, VerdictOK, NEW i \in 1 .. Len(dutQ),
           dutQ[i].op \in CmoOps \ {"CMO_PREFETCH"}
    PROVE  Expected(dutQ[i], 0, FALSE)
<1>1. dutQ[i].op # "SC" /\ dutQ[i].op \notin AmoOps \cup {"LOAD", "LR"}
  BY DEF CmoOps, AmoOps
<1>2. dutQ[i].needRsp => /\ inflight[dutQ[i].tid].rdata = None
                         /\ inflight[dutQ[i].tid].error \in BOOLEAN
                         /\ ~inflight[dutQ[i].tid].error
  BY <1>1, EntryError DEF VerdictOK
<1>3. dutQ[i].needRsp => inflight[dutQ[i].tid].error = FALSE
  BY <1>2
<1> QED
  BY <1>1, <1>2, <1>3 DEF Expected

LEMMA ScFailExpected ==
    ASSUME TbBase, InOrder, VerdictOK, Ready("SC"), rsv # dutQ[1].addr
    PROVE  Expected(dutQ[1], 1, FALSE) /\ (dutQ[1].needRsp => ~ScOk(inflight[dutQ[1].tid]))
<1> USE DEF TbBase, TbTypeOK, InOrder, VerdictOK
<1> DEFINE t == dutQ[1]
           e == inflight[t.tid]
<1>1. Len(dutQ) = 1 /\ t.op = "SC" /\ 1 \in 1 .. Len(dutQ)
  BY DEF Ready
<1>2. t.addr # None
  BY <1>1, OnlyRequest
<1>3. t.needRsp => e.rdata = None /\ e.error = FALSE
  <2>1. t.op \notin AmoOps \cup {"LOAD", "LR"}
    BY <1>1 DEF AmoOps
  <2> HIDE DEF t
  <2> QED
    BY <1>1, <2>1, EntryError DEF t
<1>4. ~e.atomic
  BY <1>1, <1>2 DEF ReservationsOK
<1>5. ~ScOk(e)
  BY <1>4 DEF ScOk
<1> HIDE DEF t, e
<1>6. Expected(t, 1, FALSE)
  BY <1>1, <1>3, <1>5 DEF Expected, e
<1> QED
  BY <1>5, <1>6 DEF t, e

\* The error flag of the answer to an atomic request.
UcError == (uc.rd # None /\ uc.rd.error) \/ (uc.wr # None /\ uc.wr.error)

LEMMA DoneFacts ==
    ASSUME TbBase, InOrder, VerdictOK, DutUcDone
    PROVE  LET t == dutQ[1]
               e == inflight[t.tid]
           IN  /\ ~UcWrites /\ (UcError <=> within_error_region(t.addr))
               /\ t.op = "SC" => /\ ~UcError /\ uc.wr.atomic /\ ScOk(e)
                                 /\ mem[t.addr] = t.data
               /\ t.op # "SC" => (e.error <=> UcError) /\ AtomicReadOK(uc.rd.data)
<1> USE DEF TbBase, TbTypeOK, InOrder, VerdictOK
<1> DEFINE t == dutQ[1]
           e == inflight[t.tid]
<1>1. /\ uc.busy
      /\ t.op = "SC" \/ uc.rd # None
      /\ t.op = "LR" \/ uc.wr # None
  BY DEF DutUcDone
<1>2. Len(dutQ) = 1 /\ t.needRsp /\ IsRmw(t.op) /\ 1 \in 1 .. Len(dutQ) /\ t.addr # None
  <2>1. Len(dutQ) = 1 /\ t.needRsp /\ IsRmw(t.op) /\ t.addr # None
    BY <1>1, BusyFacts
  <2>2. 1 \in 1 .. Len(dutQ)
    BY <2>1
  <2> QED
    BY <2>1, <2>2
<1>3. ~UcWrites
  BY DoneIsEmpty DEF UcWrites, Has, Holds
<1>4. CASE t.op = "SC"
  <2>1. uc.rd = None /\ uc.wr # None /\ uc.wr.error = within_error_region(t.addr) /\ uc.wr.atomic
    BY <1>1, <1>4 DEF DeviceOK, WritesOK
  <2>2. rsv = t.addr /\ ~within_error_region(t.addr)
    BY <1>1, <1>2, <1>4 DEF ReservationsOK
  <2>3. ~Killed(rsv)
    BY <1>2, <1>4 DEF Killed, AmoOps
  <2>4. e.atomic
    BY <1>2, <1>4, <2>2, <2>3 DEF ReservationsOK
  <2>5. scIsAtomic /\ mem[t.addr] = t.data
    BY <1>1, <1>3, <1>4, <2>1 DEF ScData
  <2>6. e.op = "SC" /\ ~e.error
    BY <1>2, <1>4, EntryError DEF QueueOK
  <2>7. ~UcError
    BY <2>1, <2>2 DEF UcError
  <2> QED
    BY <1>3, <1>4, <2>1, <2>2, <2>4, <2>5, <2>6, <2>7 DEF ScOk
<1>5. CASE t.op # "SC"
  <2>1. t.op = "LR" \/ t.op \in AmoOps
    BY <1>2, <1>5 DEF IsRmw
  <2>2. e.error <=> within_error_region(t.addr)
    BY <1>2, <2>1, EntryError
  <2>3. AtomicReadOK(uc.rd.data)
    BY <1>1, <1>5 DEF ReadsData
  <2>4. uc.rd # None /\ uc.rd.error = (t.op = "LR" /\ within_error_region(t.addr))
    BY <1>1, <1>5 DEF ReadsOK
  <2>5. CASE t.op = "LR"
    <3>1. uc.wr = None
      BY <1>1, <2>5 DEF DeviceOK
    <3> HIDE DEF t, e
    <3>2. UcError <=> within_error_region(t.addr)
      BY <2>4, <2>5, <3>1 DEF UcError
    <3> QED
      BY <1>3, <1>5, <2>2, <2>3, <3>2 DEF t, e
  <2>6. CASE t.op \in AmoOps
    <3>1. t.op # "LR"
      BY <2>6 DEF AmoOps
    <3>2. uc.wr # None /\ uc.wr.error = within_error_region(t.addr)
      BY <1>1, <3>1 DEF WritesOK
    <3> HIDE DEF t, e
    <3>3. UcError <=> within_error_region(t.addr)
      BY <2>4, <3>1, <3>2 DEF UcError
    <3> QED
      BY <1>3, <1>5, <2>2, <2>3, <3>3 DEF t, e
  <2> QED
    BY <2>1, <2>5, <2>6
<1> QED
  BY <1>4, <1>5

LEMMA DoneExpected ==
    ASSUME TbBase, InOrder, VerdictOK, DutUcDone
    PROVE  LET t == dutQ[1] IN
           Expected(t, IF t.op = "SC"
                       THEN (IF t.op = "SC" /\ uc.wr.atomic /\ ~UcError THEN 0 ELSE 1)
                       ELSE uc.rd.data, UcError)
<1> USE DEF TbBase, TbTypeOK, InOrder, VerdictOK
<1> DEFINE t == dutQ[1]
           e == inflight[t.tid]
<1>1. Len(dutQ) = 1 /\ t.needRsp /\ IsRmw(t.op) /\ 1 \in 1 .. Len(dutQ)
  <2>1. uc.busy
    BY DEF DutUcDone
  <2>2. Len(dutQ) = 1 /\ t.needRsp /\ IsRmw(t.op)
    BY <2>1, BusyFacts
  <2>3. 1 \in 1 .. Len(dutQ)
    BY <2>2
  <2> QED
    BY <2>2, <2>3
<1>2. e.error \in BOOLEAN /\ UcError \in BOOLEAN
  <2>1. e.error \in BOOLEAN
    BY <1>1, EntryError
  <2>2. UcError \in BOOLEAN
    BY DEF UcError
  <2> QED
    BY <2>1, <2>2
<1>3. CASE t.op = "SC"
  <2>1. ~UcError /\ uc.wr.atomic /\ ScOk(e)
    BY <1>3, DoneFacts
  <2>2. ~e.error /\ e.rdata = None
    <3>1. t.op \notin AmoOps \cup {"LOAD", "LR"}
      BY <1>3 DEF AmoOps
    <3> QED
      BY <1>1, <1>3, <3>1, EntryError
  <2>3. UcError = e.error
    BY <1>2, <2>1, <2>2
  <2> HIDE DEF t, e
  <2>4. Expected(t, 0, UcError)
    BY <1>3, <2>1, <2>2, <2>3 DEF Expected, e
  <2> QED
    BY <1>3, <2>1, <2>4 DEF t
<1>4. CASE t.op # "SC"
  <2>1. (e.error <=> UcError) /\ AtomicReadOK(uc.rd.data)
    BY <1>4, DoneFacts
  <2>2. UcError = e.error
    BY <1>2, <2>1
  <2>3. ~e.error /\ e.rdata # None => uc.rd.data = e.rdata
    <3>1. e.rdata # None => Good(t.addr)
      BY <1>1 DEF EntriesOK
    <3> QED
      BY <2>1, <3>1 DEF AtomicReadOK
  <2> HIDE DEF t, e
  <2>4. Expected(t, uc.rd.data, UcError)
    BY <1>4, <2>2, <2>3 DEF Expected, e
  <2> QED
    BY <1>4, <2>4 DEF t
<1> QED
  BY <1>3, <1>4

\* Request i is answered as expected, or wrongly.
Answers(i) == \E data, err : /\ Answer(dutQ[i], data, err)
                             /\ err \in BOOLEAN /\ Expected(dutQ[i], data, err)

LEMMA AnswersExpected ==
    ASSUME TbBase, InOrder, VerdictOK, DutStep
    PROVE  \/ UNCHANGED <<sbVars, ids, bug, dutQ>>
           \/ \E i \in 1 .. Len(dutQ) : Answers(i) /\ Left(i)
<1> USE DEF TbBase, TbTypeOK
<1>0. DOMAIN dutQ = 1 .. Len(dutQ) /\ Len(dutQ) \in Nat
  BY DEF DeviceType
<1>1. CASE DutMiss \/ DutDrain \/ DutWriteAck \/ DutUcRead \/ DutUcSend
  BY <1>1 DEF DutMiss, DutDrain, DutWrite, DutWriteAck, DutUcRead, DutUcSend
<1>2. CASE DutHit
  <2>1. PICK i \in 1 .. Len(dutQ) :
           /\ dutQ[i].op \in {"LOAD", "CMO_PREFETCH"} /\ Oldest(i) /\ cache[dutQ[i].addr] # None
           /\ Answer(dutQ[i], cache[dutQ[i].addr], FALSE) /\ dutQ' = Without(i)
    BY <1>0, <1>2, Zenon DEF DutHit
  <2>2. Expected(dutQ[i], cache[dutQ[i].addr], FALSE)
    BY <2>1, HitExpected
  <2>3. Left(i)
    BY <2>1, RemovedFacts DEF Left
  <2>4. Answers(i)
    BY <2>1, <2>2, FALSE \in BOOLEAN, Zenon DEF Answers
  <2> QED
    BY <2>3, <2>4
<1>3. CASE DutRefill
  <2>1. PICK i \in 1 .. Len(dutQ) :
           /\ dutQ[i].op \in {"LOAD", "CMO_PREFETCH"} /\ Oldest(i)
           /\ rdResp # None /\ rdResp.id = dutQ[i].addr
           /\ Answer(dutQ[i], rdResp.data, rdResp.error) /\ dutQ' = Without(i)
    BY <1>0, <1>3, Zenon DEF DutRefill
  <2>2. Expected(dutQ[i], rdResp.data, rdResp.error)
    BY <2>1, RefillExpected
  <2>3. rdResp.error \in BOOLEAN
    BY <2>1, RefillExpected DEF within_error_region
  <2>4. Left(i)
    BY <2>1, RemovedFacts DEF Left
  <2>5. Answers(i)
    BY <2>1, <2>2, <2>3, Zenon DEF Answers
  <2> QED
    BY <2>4, <2>5
<1>4. CASE DutStore
  <2>1. PICK i \in 1 .. Len(dutQ) :
           dutQ[i].op = "STORE" /\ Answer(dutQ[i], 0, FALSE) /\ dutQ' = Without(i)
    BY <1>0, <1>4, Zenon DEF DutStore
  <2>2. Expected(dutQ[i], 0, FALSE)
    BY <2>1, StoreExpected
  <2>3. Left(i)
    BY <2>1, RemovedFacts DEF Left
  <2>4. Answers(i)
    BY <2>1, <2>2, FALSE \in BOOLEAN, Zenon DEF Answers
  <2> QED
    BY <2>3, <2>4
<1>5. CASE DutScFail
  <2>1. /\ Ready("SC") /\ rsv # dutQ[1].addr /\ dutQ' = <<>>
        /\ Answer(dutQ[1], 1, FALSE)
    BY <1>5, Zenon DEF DutScFail
  <2>2. Expected(dutQ[1], 1, FALSE)
    BY <2>1, ScFailExpected
  <2>3. Left(1) /\ 1 \in 1 .. Len(dutQ)
    BY <2>1 DEF Left, Ready
  <2>4. Answers(1)
    BY <2>1, <2>2, FALSE \in BOOLEAN, Zenon DEF Answers
  <2> QED
    BY <2>3, <2>4
<1>6. CASE DutUcDone
  <2> DEFINE t == dutQ[1]
             data == IF t.op = "SC"
                     THEN (IF t.op = "SC" /\ uc.wr.atomic /\ ~UcError THEN 0 ELSE 1)
                     ELSE uc.rd.data
  <2>1. Answer(t, data, UcError) /\ dutQ' = <<>>
    BY <1>6, Zenon DEF DutUcDone, UcError
  <2>2. Expected(t, data, UcError)
    BY <1>6, DoneExpected
  <2>3. Len(dutQ) = 1
    BY <1>6, BusyFacts DEF DutUcDone, InOrder
  <2>4. Left(1) /\ 1 \in 1 .. Len(dutQ)
    BY <2>1, <2>3 DEF Left
  <2>5. UcError \in BOOLEAN
    BY DEF UcError
  <2>6. Answers(1)
    <3> HIDE DEF data
    <3> QED
      BY <2>1, <2>2, <2>5, Zenon DEF Answers
  <2> QED
    BY <2>4, <2>6
<1>7. CASE DutCmo
  <2>1. Answer(dutQ[1], 0, FALSE) /\ dutQ' = <<>>
    BY <1>7, Zenon DEF DutCmo
  <2>2. Len(dutQ) = 1 /\ dutQ[1].op \in CmoOps \ {"CMO_PREFETCH"}
    BY <1>7 DEF DutCmo, Ready
  <2>3. Left(1) /\ 1 \in 1 .. Len(dutQ)
    BY <2>1, <2>2 DEF Left
  <2>4. Expected(dutQ[1], 0, FALSE)
    BY <2>2, <2>3, CmoExpected
  <2>5. Answers(1)
    BY <2>1, <2>4, FALSE \in BOOLEAN, Zenon DEF Answers
  <2> QED
    BY <2>3, <2>5
<1> QED
  BY <1>1, <1>2, <1>3, <1>4, <1>5, <1>6, <1>7 DEF DutStep

-----------------------------------------------------------------------------
(* The monitors of the memory print nothing while the cache is right.        *)

LEMMA NoMessages ==
    ASSUME sbErrors = <<>>, NEW m, m = <<>>, print_error(m)
    PROVE  sbErrors' = <<>>
<1>1. <<>> \o <<>> = <<>>
  BY JoinFacts, OneMessage
<1> QED
  BY <1>1 DEF print_error

LEMMA ReadRequestSilent ==
    ASSUME TbBase, InOrder, sbErrors = <<>>, read_process
    PROVE  sbErrors' = <<>>
<1> USE DEF TbBase, TbTypeOK, InOrder
<1>1. rdReq # None /\ mem_read_req_process(rdReq) /\ ReadRequestOK(rdReq)
      /\ inflightRd[rdReq.id] = None
  BY DEF read_process, ReadsOK
<1>2. rdReq.cmd = "LDEX" => amoFifo # <<>> /\ Len(amoFifo) = 1
  <2> SUFFICES ASSUME rdReq.cmd = "LDEX"
               PROVE  amoFifo # <<>> /\ Len(amoFifo) = 1
    OBVIOUS
  <2>1. rdReq.id = UcId /\ uc.busy /\ dutQ[1].op = "LR"
    BY <1>1 DEF ReadRequestOK
  <2>2. Len(dutQ) = 1 /\ IsRmw(dutQ[1].op)
    BY <2>1, BusyFacts
  <2>3. Holds(rdReq, UcId)
    BY <1>1, <2>1 DEF Holds
  <2> QED
    BY <2>1, <2>2, <2>3 DEF AtomicsOK
<1> DEFINE m1 == If(inflightRd[rdReq.id] # None, "duplicate memory read id")
           ldex == ~(inflightRd[rdReq.id] # None) /\ rdReq.cmd = "LDEX"
           m2 == If(ldex /\ Len(amoFifo) > 1, "single inflight atomic")
           m3 == If(ldex /\ amoFifo = <<>>, "unexpected load-exclusive")
<1>3. print_error(m1 \o m2 \o m3)
  BY <1>1, Zenon DEF mem_read_req_process
<1>4. m1 = <<>> /\ m2 = <<>> /\ m3 = <<>>
  <2>1. ~(inflightRd[rdReq.id] # None) /\ ~(ldex /\ Len(amoFifo) > 1) /\ ~(ldex /\ amoFifo = <<>>)
    <3>1. ldex => amoFifo # <<>> /\ Len(amoFifo) = 1
      BY <1>2
    <3>2. ~(1 > 1)
      OBVIOUS
    <3> HIDE DEF ldex
    <3> QED
      BY <1>1, <3>1, <3>2, Zenon
  <2> HIDE DEF ldex
  <2> QED
    BY <2>1 DEF If
<1>5. m1 \o m2 \o m3 = <<>>
  <2> HIDE DEF m1, m2, m3
  <2> QED
    BY <1>4, JoinFacts, OneMessage
<1> HIDE DEF m1, m2, m3
<1> QED
  BY <1>3, <1>5, NoMessages

LEMMA ReadResponseSilent ==
    ASSUME TbBase, InOrder, sbErrors = <<>>, read_response_process
    PROVE  /\ sbErrors' = <<>>
           /\ ReadResponseOK(Head(rdFifo)) /\ Head(rdFifo) \in Elems(rdFifo)
           /\ ram' = Learnt(AddrOf(Head(rdFifo).id), Head(rdFifo))
<1> USE DEF TbBase, TbTypeOK, InOrder
<1> DEFINE h == Head(rdFifo)
<1>1. h \in Elems(rdFifo) /\ mem_read_resp_process(h)
  BY Popped DEF read_response_process, MemoryType
<1>2. ReadResponseOK(h) /\ inflightRd[h.id] = AddrOf(h.id)
  BY <1>1 DEF ReadsOK
<1>3. AddrOf(h.id) # None
  BY <1>2, AddrIsKnown
<1>4. /\ print_error(If(inflightRd[h.id] = None, "no inflight memory read"))
      /\ ram' = Learnt(AddrOf(h.id), h)
  BY <1>1, <1>2, <1>3 DEF mem_read_resp_process
<1>5. If(inflightRd[h.id] = None, "no inflight memory read") = <<>>
  BY <1>2, <1>3, IfFacts
<1> QED
  BY <1>1, <1>2, <1>4, <1>5, NoMessages

LEMMA WriteResponseSilent ==
    ASSUME TbBase, InOrder, sbErrors = <<>>, write_response_process
    PROVE  /\ sbErrors' = <<>>
           /\ WriteResponseOK(Head(wrFifo)) /\ Head(wrFifo) \in Elems(wrFifo)
           /\ scIsAtomic' = Head(wrFifo).atomic
<1> USE DEF TbBase, TbTypeOK, InOrder
<1> DEFINE h == Head(wrFifo)
<1>1. h \in Elems(wrFifo) /\ mem_write_resp_process(h)
  BY Popped DEF write_response_process, MemoryType
<1>2. WriteResponseOK(h) /\ inflightWr[h.id] = AddrOf(h.id)
  BY <1>1 DEF WritesOK
<1>3. AddrOf(h.id) # None
  BY <1>2, AddrIsKnown
<1>4. /\ print_error(If(inflightWr[h.id] = None, "no inflight memory write"))
      /\ scIsAtomic' = h.atomic
  BY <1>1, <1>2, <1>3 DEF mem_write_resp_process
<1>5. If(inflightWr[h.id] = None, "no inflight memory write") = <<>>
  BY <1>2, <1>3, IfFacts
<1> QED
  BY <1>1, <1>2, <1>4, <1>5, NoMessages

LEMMA WriteRequestSilent ==
    ASSUME TbBase, InOrder, sbErrors = <<>>, write_process, UNCHANGED <<kind, dutVars>>, ~overrun'
    PROVE  sbErrors' = <<>>
<1> USE DEF TbBase, TbTypeOK, InOrder
<1> DEFINE h == Head(waFifo)
           dup == inflightWr[h.id] # None
           amo == ~dup /\ MemIsAmo(h.cmd)
           stex == ~dup /\ h.cmd = "STEX"
           got == amoFifo # <<>>
           lone == ~CoreReqOf(h.addr)
           m1 == If(dup, "duplicate memory write id")
           m2 == If((amo \/ stex) /\ Len(amoFifo) > 1, "single inflight atomic")
           m3 == If((amo \/ stex) /\ ~got, "unexpected atomic request")
           m4 == If(stex /\ got /\ ~Head(amoFifo).atomic, "no valid reservation")
           m5 == If(got /\ lone /\ (amo \/ (stex /\ Head(amoFifo).atomic)),
                    "no associated core request")
<1>1. mem_write_req_process(h)
  BY DEF write_process
<1>2. print_error(m1 \o m2 \o m3 \o m4 \o m5)
  BY <1>1, Zenon DEF mem_write_req_process
<1>3. WriteRequestOK(h) /\ inflightWr[h.id] = None /\ (h.id = UcId => UcWrites)
  BY WriteTaken, Zenon
<1> HIDE DEF h
<1>4. ~dup
  BY <1>3
<1>5. CASE h.id # UcId
  <2>1. h.cmd = "WRITE"
    BY <1>3, <1>5 DEF WriteRequestOK
  <2>2. ~amo /\ ~stex
    BY <2>1 DEF MemIsAmo, MemAtomics
  <2> HIDE DEF dup, amo, stex, got, lone
  <2>3. m1 = <<>> /\ m2 = <<>> /\ m3 = <<>> /\ m4 = <<>> /\ m5 = <<>>
    BY <1>4, <2>2 DEF If
  <2>4. m1 \o m2 \o m3 \o m4 \o m5 = <<>>
    <3> HIDE DEF m1, m2, m3, m4, m5
    <3> QED
      BY <2>3, JoinFacts, OneMessage
  <2> HIDE DEF m1, m2, m3, m4, m5
  <2> QED
    BY <1>2, <2>4, NoMessages
<1>6. CASE h.id = UcId
  <2>1. /\ uc.busy /\ h.addr = dutQ[1].addr /\ UcWrites
        /\ dutQ[1].op \in AmoOps \cup {"SC"}
    BY <1>3, <1>6 DEF WriteRequestOK
  <2>2. amoFifo # <<>> /\ Len(amoFifo) = 1
    BY <2>1, AtomicIsAwaited
  <2>3. Len(dutQ) = 1 /\ IsRmw(dutQ[1].op) /\ dutQ[1].needRsp
    BY <2>1, BusyFacts
  <2>4. dutQ[1].tid \in DOMAIN inflight /\ inflight[dutQ[1].tid].addr = h.addr
    BY <2>1, <2>3 DEF QueueOK
  <2>5. ~lone
    BY <2>4 DEF CoreReqOf
  <2>6. stex => Head(amoFifo).atomic
    <3> SUFFICES ASSUME stex PROVE Head(amoFifo).atomic
      OBVIOUS
    <3>1. dutQ[1].op = "SC"
      <4>1. ASSUME dutQ[1].op \in AmoOps PROVE FALSE
        <5>1. MemIsAmo(MemAtomicOf[dutQ[1].op])
          BY <4>1, AtomicCommands
        <5>2. h.cmd = MemAtomicOf[dutQ[1].op]
          <6>1. dutQ[1].op # "SC"
            BY <4>1 DEF AmoOps
          <6> QED
            BY <1>3, <1>6, <6>1 DEF WriteRequestOK
        <5> QED
          BY <5>1, <5>2 DEF MemIsAmo
      <4> QED
        BY <2>1, <4>1
    <3>2. amoFifo[1].atomic
      BY <2>2, <2>3, <3>1 DEF AtomicsOK
    <3>3. Head(amoFifo) = amoFifo[1]
      BY <2>2, Popped DEF BoardType
    <3> QED
      BY <3>2, <3>3
  <2>7. ~(Len(amoFifo) > 1) /\ got
    BY <2>2
  <2> HIDE DEF dup, amo, stex, got, lone
  <2>8. m1 = <<>> /\ m2 = <<>> /\ m3 = <<>> /\ m4 = <<>> /\ m5 = <<>>
    BY <1>4, <2>5, <2>6, <2>7 DEF If
  <2>9. m1 \o m2 \o m3 \o m4 \o m5 = <<>>
    <3> HIDE DEF m1, m2, m3, m4, m5
    <3> QED
      BY <2>8, JoinFacts, OneMessage
  <2> HIDE DEF m1, m2, m3, m4, m5
  <2> QED
    BY <1>2, <2>9, NoMessages
<1> QED
  BY <1>5, <1>6

\* An accepted request has a new identifier, and room in the AMO FIFO.
LEMMA RequestSilent ==
    ASSUME TbBase, InOrder, CountOK, sbErrors = <<>>, drive_request
    PROVE  LET t == drv.t
               e == EntryOf(t)
           IN  /\ sbErrors' = <<>> /\ CountOK'
               /\ t.op # "STORE" \/ e.error => ram' = ram
               /\ t.op = "STORE" /\ ~e.error => ram' = [ram EXCEPT ![t.addr] = t.data]
<1> USE DEF TbBase, TbTypeOK, InOrder
<1> DEFINE t == drv.t
           e == EntryOf(t)
           dup == t.tid \in DOMAIN inflight
           mute == ~dup /\ t.op \in CmoOps /\ ~t.needRsp
           full == ~dup /\ ~mute /\ ForwardedToMem(t, e) /\ Len(amoFifo) >= AmoFifo
           done == ~dup /\ ~mute /\ ~full
           m1 == If(dup, "duplicate id")
           m2 == If(full, "amo fifo full")
<1>1. core_req_process(t) /\ DutReady
  BY DEF drive_request
<1>2. /\ nbNeedRsp' = nbNeedRsp + (IF t.needRsp THEN 1 ELSE 0)
      /\ nbResp' = nbResp
      /\ print_error(m1 \o m2) /\ TrackRequest(t, e, done)
  BY <1>1, Zenon DEF core_req_process
<1>3. ~dup
  BY AcceptedEffect
<1>4. ~full
  <2>1. amoFifo = <<>>
    BY <1>1, ReadyFacts
  <2>2. ~(Len(amoFifo) >= AmoFifo)
    BY <2>1, SbAssumption
  <2> QED
    BY <2>2
<1>5. t.op = "STORE" \/ t.needRsp => done
  <2>1. t.op = "STORE" => t.op \notin CmoOps
    BY DEF CmoOps
  <2> HIDE DEF t, e
  <2> QED
    BY <1>3, <1>4, <2>1
<1>6. t.needRsp \in BOOLEAN
  BY AcceptedEffect DEF Drawn, Request
<1> HIDE DEF t, e, dup, full, mute, done
<1>7. sbErrors' = <<>>
  <2>1. m1 = <<>> /\ m2 = <<>>
    BY <1>3, <1>4 DEF If
  <2> HIDE DEF m1, m2
  <2>2. m1 \o m2 = <<>>
    BY <2>1, JoinFacts, OneMessage
  <2> QED
    BY <1>2, <2>2, NoMessages
<1>8. CountOK'
  <2>1. IsFiniteSet(DOMAIN inflight) /\ Cardinality(DOMAIN inflight) \in Nat
    BY TableIsFinite
  <2>0. nbResp' = nbResp
    BY <1>2
  <2>2. CASE t.needRsp
    <3>1. DOMAIN inflight' = DOMAIN inflight \cup {t.tid}
      BY <1>2, <1>5, <2>2 DEF TrackRequest
    <3>2. Cardinality(DOMAIN inflight \cup {t.tid}) = Cardinality(DOMAIN inflight) + 1
      BY <1>3, <2>1, FS_AddElement DEF dup
    <3>3. nbNeedRsp' = nbNeedRsp + 1
      BY <1>2, <2>2
    <3> QED
      BY <2>0, <2>1, <3>1, <3>2, <3>3 DEF CountOK
  <2>3. CASE ~t.needRsp
    <3>1. inflight' = inflight
      BY <1>2, <2>3 DEF TrackRequest
    <3>2. nbNeedRsp' = nbNeedRsp + 0
      BY <1>2, <2>3
    <3> QED
      BY <2>0, <2>1, <3>1, <3>2 DEF CountOK
  <2> QED
    BY <2>2, <2>3
<1>9. /\ t.op # "STORE" \/ e.error => ram' = ram
      /\ t.op = "STORE" /\ ~e.error => ram' = [ram EXCEPT ![t.addr] = t.data]
  BY <1>2, <1>5 DEF TrackRequest
<1> QED
  BY <1>7, <1>8, <1>9 DEF t, e

-----------------------------------------------------------------------------
(* Steps of the memory.                                                      *)

\* A step that changes no word and takes no atomic request out of the memory.
LEMMA DataFrame ==
    ASSUME UNCHANGED <<kind, dutQ, wbuf, mem, inflight>>, uc'.busy = uc.busy,
           UcWrites' <=> UcWrites
    PROVE  /\ \A a : Current(a)' = Current(a)
           /\ \A a : Good(a)' <=> Good(a)
           /\ \A a : Changing(a)' <=> Changing(a)
           /\ \A d : AtomicReadOK(d)' <=> AtomicReadOK(d)
           /\ \A r : ReadDataOK(r)' <=> ReadDataOK(r)
           /\ \A d : BeatOK(d)' <=> BeatOK(d)
           /\ \A r : Written(r)' <=> Written(r)
<1>1. \A a : Good(a)' <=> Good(a)
  BY DEF Good, within_error_region
<1>2. \A a : Current(a)' = Current(a)
  BY DEF Current
<1>3. \A a : Changing(a)' <=> Changing(a)
  BY DEF Changing
<1>4. \A d : AtomicReadOK(d)' <=> AtomicReadOK(d)
  BY <1>1 DEF AtomicReadOK
<1>5. \A r : ReadDataOK(r)' <=> ReadDataOK(r)
  BY <1>1, <1>4 DEF ReadDataOK
<1>6. \A d : BeatOK(d)' <=> BeatOK(d)
  BY DEF BeatOK
<1>7. \A r : Written(r)' <=> Written(r)
  BY <1>1 DEF Written
<1> QED
  BY <1>1, <1>2, <1>3, <1>4, <1>5, <1>6, <1>7

LEMMA WordsFrame ==
    ASSUME UNCHANGED <<kind, dutQ, wbuf, mem, inflight>>, uc'.busy = uc.busy,
           UcWrites' <=> UcWrites
    PROVE  /\ CacheOK /\ UNCHANGED cache => CacheOK'
           /\ RamOK /\ UNCHANGED ram => RamOK'
           /\ EntriesOK => EntriesOK'
<1>1. /\ \A a : Current(a)' = Current(a)
      /\ \A a : Good(a)' <=> Good(a)
      /\ \A a : Changing(a)' <=> Changing(a)
  BY DataFrame
<1>2. ASSUME CacheOK, UNCHANGED cache PROVE CacheOK'
  BY <1>1, <1>2 DEF CacheOK
<1>3. ASSUME RamOK, UNCHANGED ram PROVE RamOK'
  <2> SUFFICES ASSUME NEW a \in Addr, Good(a)
               PROVE  /\ ram[a] # None /\ ~Changing(a) =>
                            FindsAt(dutQ', Len(dutQ') + 1, a, Current(a), ram[a])
                      /\ (\E i \in 1 .. Len(dutQ') : StoresTo(dutQ'[i], a)) => ram[a] # None
    BY <1>1, <1>3 DEF RamOK, StoresTo
  <2> QED
    BY <1>3 DEF RamOK
<1>4. ASSUME EntriesOK PROVE EntriesOK'
  <2>1. \A a : within_error_region(a)' <=> within_error_region(a)
    BY DEF within_error_region
  <2>2. inflight' = inflight /\ dutQ' = dutQ
    OBVIOUS
  <2> QED
    BY <1>1, <1>4, <2>1, <2>2 DEF EntriesOK
<1> QED
  BY <1>2, <1>3, <1>4

\* Likewise, with the channels that carry words left alone.
LEMMA VerdictFrame ==
    ASSUME VerdictOK, UNCHANGED <<kind, dutQ, cache, wbuf, uc, mem, inflight, ram, nbResp,
                                  nbNeedRsp, sbErrors, scIsAtomic, rdFifo, rdResp, wdFifo,
                                  wdReq, wrFifo, wrResp, wrOp>>,
           UcWrites' <=> UcWrites
    PROVE  VerdictOK'
<1> USE DEF VerdictOK
<1>1. CacheOK' /\ RamOK' /\ EntriesOK'
  BY WordsFrame
<1>2. ReadsData'
  BY DataFrame DEF ReadsData
<1>3. WritesData'
  BY DataFrame DEF WritesData
<1>4. ScData'
  BY DEF ScData, Holds
<1>5. CountOK' /\ sbErrors' = <<>>
  BY DEF CountOK
<1> QED
  BY <1>1, <1>2, <1>3, <1>4, <1>5

LEMMA ReadProcessData ==
    ASSUME TbBase, InOrder, VerdictOK, read_process, UNCHANGED <<kind, dutVars>>
    PROVE  VerdictOK'
<1> USE DEF VerdictOK
<1>1. UNCHANGED <<inflight, ram, nbResp, nbNeedRsp, scIsAtomic, mem, rdFifo, rdResp, wdFifo,
                  wdReq, wrFifo, wrResp, wrOp, waReq, waFifo>>
  BY DEF read_process, mem_read_req_process
<1>2. sbErrors' = <<>>
  BY ReadRequestSilent
<1>3. UcWrites' <=> UcWrites
  BY <1>1 DEF UcWrites, Has, Holds
<1> QED
  BY <1>1, <1>2, <1>3, VerdictFrame DEF dutVars

LEMMA ReadOperationData ==
    ASSUME TbBase, InOrder, VerdictOK, readOperation, UNCHANGED <<kind, dutVars>>
    PROVE  VerdictOK'
<1> USE DEF TbBase, TbTypeOK, InOrder, VerdictOK
<1>1. UNCHANGED <<inflight, ram, nbResp, nbNeedRsp, sbErrors, scIsAtomic, mem, rdResp, wdFifo,
                  wdReq, wrFifo, wrResp, wrOp, waReq, waFifo>>
  BY DEF readOperation, sbVars
<1>2. UcWrites' <=> UcWrites
  BY <1>1 DEF UcWrites, Has, Holds
<1>3. UNCHANGED <<dutQ, wbuf, uc, cache>>
  BY DEF dutVars
<1> DEFINE err == within_error_region(rdOp.addr)
           new == [id |-> rdOp.id, error |-> err, data |-> IF err THEN 0 ELSE mem[rdOp.addr]]
<1>4. rdOp # None /\ rdFifo' = Append(rdFifo, new) /\ ReadRequestOK(rdOp)
  BY DEF readOperation, readMemory, ReadsOK
<1>5. Elems(rdFifo') = Elems(rdFifo) \cup {new}
  BY <1>4, Pushed DEF MemoryType
<1>6. ReadDataOK(new)
  <2>1. new.id = rdOp.id /\ (~err => new.data = mem[rdOp.addr])
    OBVIOUS
  <2>2. CASE rdOp.id = UcId
    <3>1. uc.busy /\ dutQ[1].op = "LR" /\ rdOp.addr = dutQ[1].addr
      BY <1>4, <2>2 DEF ReadRequestOK
    <3>2. Len(dutQ) = 1 /\ dutQ[1].needRsp /\ dutQ[1].addr \in Addr
      BY <3>1, BusyFacts
    <3>3. 1 \in 1 .. Len(dutQ)
      BY <3>2
    <3>4. dutQ[1].op \notin AmoOps /\ ~Changing(dutQ[1].addr)
      BY <3>1 DEF AmoOps, Changing
    <3>5. Current(dutQ[1].addr) = mem[dutQ[1].addr]
      BY <3>1, <3>2 DEF DeviceOK, Current
    <3>6. inflight[dutQ[1].tid].rdata # None => inflight[dutQ[1].tid].rdata = mem[dutQ[1].addr]
      <4> SUFFICES ASSUME inflight[dutQ[1].tid].rdata # None
                   PROVE  inflight[dutQ[1].tid].rdata = mem[dutQ[1].addr]
        OBVIOUS
      <4>1. FindsAt(dutQ, 1, dutQ[1].addr, Current(dutQ[1].addr), inflight[dutQ[1].tid].rdata)
        BY <3>2, <3>3, <3>4 DEF EntriesOK
      <4> QED
        BY <3>5, <4>1, FindsFirst
    <3>7. Good(dutQ[1].addr) => new.data = mem[dutQ[1].addr]
      BY <2>1, <3>1 DEF Good
    <3> HIDE DEF new
    <3> QED
      BY <2>1, <2>2, <3>1, <3>4, <3>6, <3>7 DEF ReadDataOK, AtomicReadOK
  <2>3. CASE rdOp.id # UcId
    <3>1. rdOp.addr = rdOp.id
      BY <1>4, <2>3 DEF ReadRequestOK
    <3>2. Good(rdOp.id) => new.data = mem[rdOp.id]
      BY <2>1, <3>1 DEF Good
    <3> HIDE DEF new
    <3> QED
      BY <2>1, <2>3, <3>2 DEF ReadDataOK
  <2> QED
    BY <2>2, <2>3
<1> HIDE DEF new
<1>7. CacheOK' /\ RamOK' /\ EntriesOK'
  BY <1>1, <1>2, <1>3, WordsFrame
<1>8. ReadsData'
  BY <1>1, <1>2, <1>3, <1>5, <1>6, DataFrame DEF ReadsData
<1>9. WritesData'
  BY <1>1, <1>2, <1>3, DataFrame DEF WritesData
<1>10. ScData'
  BY <1>1, <1>2, <1>3 DEF ScData, Holds
<1>11. CountOK' /\ sbErrors' = <<>>
  BY <1>1 DEF CountOK
<1> QED
  BY <1>7, <1>8, <1>9, <1>10, <1>11

\* The word of a read response is learnt where none is known: then no store to
\* it is in the device, and the word is the current one.
LEMMA ReadResponseData ==
    ASSUME TbBase, InOrder, VerdictOK, read_response_process, UNCHANGED <<kind, dutVars>>
    PROVE  VerdictOK'
<1> USE DEF TbBase, TbTypeOK, InOrder, VerdictOK
<1>1. UNCHANGED <<inflight, nbResp, nbNeedRsp, scIsAtomic, mem, wdFifo,
                  wdReq, wrFifo, wrResp, wrOp, waReq, waFifo>>
  BY DEF read_response_process, mem_read_resp_process
<1>2. UcWrites' <=> UcWrites
  BY <1>1 DEF UcWrites, Has, Holds
<1>3. UNCHANGED <<dutQ, wbuf, uc, cache>>
  BY DEF dutVars
<1> DEFINE h == Head(rdFifo)
           b == AddrOf(h.id)
<1>4. /\ sbErrors' = <<>> /\ ReadResponseOK(h) /\ h \in Elems(rdFifo)
      /\ ram' = Learnt(b, h)
  BY ReadResponseSilent
<1>5. ReadDataOK(h)
  BY <1>4 DEF ReadsData
<1>6. rdResp' = h /\ Elems(rdFifo') \subseteq Elems(rdFifo)
  BY Popped DEF read_response_process, MemoryType
<1> HIDE DEF h
<1>7. RamOK'
  <2>1. ram' = ram \/ (ram[b] = None /\ ram' = [ram EXCEPT ![b] = h.data])
    BY <1>4 DEF Learnt
  <2>2. CASE ram' = ram
    BY <1>1, <1>2, <1>3, <2>2, WordsFrame
  <2>3. CASE ram[b] = None /\ ram' = [ram EXCEPT ![b] = h.data]
    <3>1. DOMAIN ram = Addr
      BY DEF BoardType
    <3>2. \A a : /\ Current(a)' = Current(a)
                 /\ Good(a)' <=> Good(a)
                 /\ Changing(a)' <=> Changing(a)
      BY <1>1, <1>2, <1>3, DataFrame
    <3>3. ASSUME NEW a \in Addr, Good(a), a # b
          PROVE  /\ ram'[a] # None /\ ~Changing(a) =>
                       FindsAt(dutQ, Len(dutQ) + 1, a, Current(a), ram'[a])
                 /\ (\E i \in 1 .. Len(dutQ) : StoresTo(dutQ[i], a)) => ram'[a] # None
      <4>1. ram'[a] = ram[a]
        BY <2>3, <3>1, <3>3
      <4> QED
        BY <3>3, <4>1 DEF RamOK
    <3>4. ASSUME b \in Addr, Good(b)
          PROVE  /\ ram'[b] # None /\ ~Changing(b) =>
                       FindsAt(dutQ, Len(dutQ) + 1, b, Current(b), ram'[b])
                 /\ (\E i \in 1 .. Len(dutQ) : StoresTo(dutQ[i], b)) => ram'[b] # None
      <4>1. ram'[b] = h.data
        BY <2>3, <3>1, <3>4
      <4>2. \A i \in 1 .. Len(dutQ) : ~StoresTo(dutQ[i], b)
        BY <2>3, <3>4 DEF RamOK
      <4>3. ~Changing(b) => Current(b) = h.data
        <5>1. CASE h.id = UcId
          <6>1. uc.busy /\ dutQ[1].op # "SC" /\ ~UcWrites /\ b = dutQ[1].addr
            BY <1>4, <5>1 DEF ReadResponseOK, AddrOf
          <6>2. Current(b) = mem[b]
            BY <3>4, <6>1 DEF DeviceOK, Current
          <6>3. AtomicReadOK(h.data)
            BY <1>5, <5>1 DEF ReadDataOK
          <6>4. dutQ[1].op = "LR" => h.data = mem[b]
            BY <3>4, <6>1, <6>3 DEF AtomicReadOK
          <6> QED
            BY <6>1, <6>2, <6>4 DEF Changing
        <5>2. CASE h.id # UcId
          <6>1. b = h.id /\ b \in miss
            BY <1>4, <5>2 DEF ReadResponseOK, AddrOf
          <6>2. Current(b) = mem[b]
            BY <6>1 DEF DeviceOK, Current
          <6>3. h.data = mem[b]
            BY <1>5, <3>4, <5>2, <6>1 DEF ReadDataOK
          <6> QED
            BY <6>2, <6>3
        <5> QED
          BY <5>1, <5>2
      <4>4. ~Changing(b) => FindsAt(dutQ, Len(dutQ) + 1, b, Current(b), h.data)
        <5>1. 1 .. (Len(dutQ) + 1) - 1 = 1 .. Len(dutQ)
          BY DEF DeviceType
        <5> HIDE DEF b
        <5> QED
          BY <4>2, <4>3, <5>1 DEF FindsAt
      <4> QED
        BY <4>1, <4>2, <4>4
    <3> HIDE DEF b
    <3>5. ASSUME NEW a \in Addr, Good(a)
          PROVE  /\ ram'[a] # None /\ ~Changing(a) =>
                       FindsAt(dutQ, Len(dutQ) + 1, a, Current(a), ram'[a])
                 /\ (\E i \in 1 .. Len(dutQ) : StoresTo(dutQ[i], a)) => ram'[a] # None
      BY <3>3, <3>4, <3>5, Zenon
    <3>6. dutQ' = dutQ
      BY <1>3
    <3> QED
      BY <3>2, <3>5, <3>6 DEF RamOK, StoresTo
  <2> QED
    BY <2>1, <2>2, <2>3
<1>8. CacheOK' /\ EntriesOK'
  BY <1>1, <1>2, <1>3, WordsFrame
<1>9. ReadsData'
  BY <1>1, <1>2, <1>3, <1>5, <1>6, DataFrame DEF ReadsData
<1>10. WritesData'
  BY <1>1, <1>2, <1>3, DataFrame DEF WritesData
<1>11. ScData'
  BY <1>1, <1>2, <1>3 DEF ScData, Holds
<1>12. CountOK'
  BY <1>1 DEF CountOK
<1> QED
  BY <1>4, <1>7, <1>8, <1>9, <1>10, <1>11, <1>12

LEMMA WriteAddressData ==
    ASSUME TbBase, InOrder, VerdictOK, write_address_process, UNCHANGED <<kind, dutVars>>,
           ~overrun'
    PROVE  VerdictOK'
<1> USE DEF TbBase, TbTypeOK
<1>1. UNCHANGED <<inflight, ram, nbResp, nbNeedRsp, sbErrors, scIsAtomic, mem, rdFifo, rdResp,
                  wdFifo, wdReq, wrFifo, wrResp, wrOp>>
  BY DEF write_address_process, sbVars
<1>2. waReq # None /\ waReq' = None /\ Elems(waFifo') = Elems(waFifo) \cup {waReq}
  BY AddressTaken, WriteIds, Pushed DEF write_address_process
<1>3. UcWrites' <=> UcWrites
  BY <1>2 DEF UcWrites, Has, Holds
<1> QED
  BY <1>1, <1>3, VerdictFrame DEF dutVars

LEMMA WriteDataData ==
    ASSUME TbBase, InOrder, VerdictOK, write_data_process, UNCHANGED <<kind, dutVars>>,
           ~overrun'
    PROVE  VerdictOK'
<1> USE DEF TbBase, TbTypeOK, InOrder, VerdictOK
<1>1. UNCHANGED <<inflight, ram, nbResp, nbNeedRsp, sbErrors, scIsAtomic, mem, rdFifo, rdResp,
                  waFifo, waReq, wrFifo, wrResp, wrOp>>
  BY DEF write_data_process, sbVars
<1>2. UcWrites' <=> UcWrites
  BY <1>1 DEF UcWrites, Has, Holds
<1>3. UNCHANGED <<dutQ, wbuf, uc, cache>>
  BY DEF dutVars
<1>4. IsSeq(wdFifo)
  BY SeqIsSeq DEF MemoryType
<1>5. wdReq # None /\ wdReq' = None /\ Elems(wdFifo') = Elems(wdFifo) \cup {wdReq}
  BY <1>4, BeatTaken, Pushed DEF write_data_process
<1>6. CacheOK' /\ RamOK' /\ EntriesOK'
  BY <1>1, <1>2, <1>3, WordsFrame
<1>7. ReadsData'
  BY <1>1, <1>2, <1>3, DataFrame DEF ReadsData
<1>8. WritesData'
  BY <1>1, <1>2, <1>3, <1>5, DataFrame DEF WritesData
<1>9. ScData'
  BY <1>1, <1>2, <1>3 DEF ScData, Holds
<1>10. CountOK' /\ sbErrors' = <<>>
  BY <1>1 DEF CountOK
<1> QED
  BY <1>6, <1>7, <1>8, <1>9, <1>10

LEMMA WritePushData ==
    ASSUME TbBase, InOrder, VerdictOK, WritePush, UNCHANGED <<kind, dutVars>>
    PROVE  VerdictOK'
<1> USE DEF TbBase, TbTypeOK, InOrder, VerdictOK
<1>1. UNCHANGED <<inflight, ram, nbResp, nbNeedRsp, sbErrors, scIsAtomic, mem, rdResp,
                  waFifo, waReq, wdFifo, wdReq, wrResp>>
  BY DEF WritePush, sbVars
<1>2. UcWrites' <=> UcWrites
  BY <1>1 DEF UcWrites, Has, Holds
<1>3. UNCHANGED <<dutQ, wbuf, uc, cache>>
  BY DEF dutVars
<1> DEFINE h == Head(wrOp)
<1>4. /\ wrOp # <<>> /\ wrOp' = Tail(wrOp) /\ IsSeq(wrOp)
      /\ h = wrOp[1] /\ Len(wrOp) \in {1, 2} /\ Len(wrOp') = Len(wrOp) - 1
      /\ \A k \in 1 .. Len(wrOp) - 1 : wrOp'[k] = wrOp[k + 1]
  <2>1. wrOp # <<>> /\ wrOp' = Tail(wrOp) /\ IsSeq(wrOp) /\ Len(wrOp) <= 2
    BY DEF WritePush, MemoryType, AcksOK
  <2>2. /\ h = wrOp[1] /\ Len(wrOp) \in Nat \ {0} /\ Len(wrOp') = Len(wrOp) - 1
        /\ \A k \in 1 .. Len(wrOp) - 1 : wrOp'[k] = wrOp[k + 1]
    BY <2>1, Popped
  <2> QED
    BY <2>1, <2>2
<1>5. \/ /\ h.chan = "read" /\ UNCHANGED wrFifo
         /\ rdFifo' = Append(rdFifo, [id |-> h.id, error |-> h.error, data |-> h.data])
      \/ /\ h.chan = "write" /\ UNCHANGED rdFifo
         /\ wrFifo' = Append(wrFifo, [id |-> h.id, error |-> h.error, atomic |-> h.atomic])
  BY Zenon DEF WritePush
<1>6. Len(wrOp) = 1 => h.chan = "write" /\ Written(h)
  BY <1>4 DEF AcksOK, WritesData
<1>7. Len(wrOp) = 2 => h.chan = "read" /\ ReadDataOK(h)
  BY <1>4 DEF AcksOK, ReadsData
<1>8. Len(wrOp') # 2 /\ (wrOp' # <<>> => wrOp'[Len(wrOp')] = wrOp[Len(wrOp)])
  <2>1. CASE Len(wrOp) = 1
    <3>1. wrOp' = <<>>
      <4>1. IsSeq(wrOp') /\ Len(wrOp') = 0
        BY <1>4, <2>1, Popped
      <4> QED
        BY <4>1, NothingLeft
    <3> QED
      BY <1>4, <2>1, <3>1
  <2>2. CASE Len(wrOp) = 2
    BY <1>4, <2>2
  <2> QED
    BY <1>4, <2>1, <2>2
<1> HIDE DEF h
<1>9. CacheOK' /\ RamOK' /\ EntriesOK'
  BY <1>1, <1>2, <1>3, WordsFrame
<1>10. ReadsData'
  <2>1. ASSUME NEW r \in Elems(rdFifo') PROVE ReadDataOK(r)
    <3>1. CASE h.chan = "read"
      <4> DEFINE new == [id |-> h.id, error |-> h.error, data |-> h.data]
      <4>0. rdFifo' = Append(rdFifo, new)
        BY <1>5, <3>1, "read" # "write", Zenon
      <4>1. Elems(rdFifo') = Elems(rdFifo) \cup {new}
        <5> HIDE DEF new
        <5> QED
          BY <4>0, Pushed DEF MemoryType
      <4>2. Len(wrOp) = 2
        BY <1>4, <1>6, <3>1
      <4>3. ReadDataOK(new)
        BY <1>7, <4>2 DEF ReadDataOK
      <4> HIDE DEF new
      <4> QED
        BY <2>1, <4>1, <4>3 DEF ReadsData
    <3>2. CASE h.chan = "write"
      BY <1>5, <2>1, <3>2 DEF ReadsData
    <3> QED
      BY <1>5, <3>1, <3>2
  <2> QED
    BY <1>1, <1>2, <1>3, <1>8, <2>1, DataFrame DEF ReadsData
<1>11. WritesData'
  <2>1. ASSUME NEW r \in Elems(wrFifo') PROVE Written(r)
    <3>1. CASE h.chan = "write"
      <4> DEFINE new == [id |-> h.id, error |-> h.error, atomic |-> h.atomic]
      <4>0. wrFifo' = Append(wrFifo, new)
        BY <1>5, <3>1, "read" # "write", Zenon
      <4>1. Elems(wrFifo') = Elems(wrFifo) \cup {new}
        <5> HIDE DEF new
        <5> QED
          BY <4>0, Pushed DEF MemoryType
      <4>2. Len(wrOp) = 1
        BY <1>4, <1>7, <3>1
      <4>3. Written(new)
        BY <1>6, <4>2 DEF Written
      <4> HIDE DEF new
      <4> QED
        BY <2>1, <4>1, <4>3 DEF WritesData
    <3>2. CASE h.chan = "read"
      BY <1>5, <2>1, <3>2 DEF WritesData
    <3> QED
      BY <1>5, <3>1, <3>2
  <2> QED
    BY <1>1, <1>2, <1>3, <1>4, <1>8, <2>1, DataFrame DEF WritesData
<1>12. ScData'
  BY <1>1, <1>2, <1>3 DEF ScData, Holds
<1>13. CountOK' /\ sbErrors' = <<>>
  BY <1>1 DEF CountOK
<1> QED
  BY <1>9, <1>10, <1>11, <1>12, <1>13

LEMMA WriteResponseData ==
    ASSUME TbBase, InOrder, VerdictOK, write_response_process, UNCHANGED <<kind, dutVars>>
    PROVE  VerdictOK'
<1> USE DEF TbBase, TbTypeOK, InOrder, VerdictOK
<1>1. UNCHANGED <<inflight, ram, nbResp, nbNeedRsp, mem, rdFifo, rdResp, wdFifo,
                  wdReq, wrOp, waReq, waFifo>>
  BY DEF write_response_process, mem_write_resp_process
<1>2. UcWrites' <=> UcWrites
  BY <1>1 DEF UcWrites, Has, Holds
<1>3. UNCHANGED <<dutQ, wbuf, uc, cache>>
  BY DEF dutVars
<1> DEFINE h == Head(wrFifo)
<1>4. /\ sbErrors' = <<>> /\ WriteResponseOK(h) /\ h \in Elems(wrFifo)
      /\ scIsAtomic' = h.atomic
  BY WriteResponseSilent
<1>5. wrResp' = h /\ wrResp = None /\ Elems(wrFifo') \subseteq Elems(wrFifo)
  BY Popped DEF write_response_process, MemoryType
<1>6. Written(h)
  BY <1>4 DEF WritesData
<1> HIDE DEF h
<1>7. CacheOK' /\ RamOK' /\ EntriesOK'
  BY <1>1, <1>2, <1>3, WordsFrame
<1>8. ReadsData'
  BY <1>1, <1>2, <1>3, DataFrame DEF ReadsData
<1>9. WritesData'
  BY <1>1, <1>2, <1>3, <1>5, <1>6, DataFrame DEF WritesData
<1>10. ScData'
  <2> SUFFICES ASSUME uc.busy, dutQ[1].op = "SC"
               PROVE  /\ ~UcWrites => mem[dutQ[1].addr] = dutQ[1].data
                      /\ scIsAtomic'
    BY <1>1, <1>2, <1>3 DEF ScData
  <2>1. h.id = UcId
    <3> SUFFICES ASSUME h.id # UcId PROVE FALSE
      OBVIOUS
    <3>1. wbuf[h.id] # None /\ h.id \in Addr
      BY <1>4, Identifiers DEF WriteResponseOK
    <3> QED
      BY <3>1 DEF DeviceOK
  <2>2. h.atomic
    BY <1>4, <2>1 DEF WriteResponseOK
  <2> QED
    BY <1>4, <2>2 DEF ScData
<1>11. CountOK'
  BY <1>1 DEF CountOK
<1> QED
  BY <1>4, <1>7, <1>8, <1>9, <1>10, <1>11

\* A step after which no word has changed but the one that is being changed.
LEMMA WordsKept ==
    ASSUME DeviceType, UNCHANGED <<kind, dutQ, inflight>>,
           \A a \in Addr : Good(a) /\ ~Changing(a)' => ~Changing(a) /\ Current(a)' = Current(a)
    PROVE  /\ CacheOK /\ UNCHANGED cache => CacheOK'
           /\ RamOK /\ UNCHANGED ram => RamOK'
           /\ EntriesOK => EntriesOK'
<1>1. \A a : Good(a)' <=> Good(a)
  BY DEF Good, within_error_region
<1>2. ASSUME CacheOK, UNCHANGED cache PROVE CacheOK'
  BY <1>1, <1>2 DEF CacheOK
<1>3. ASSUME RamOK, UNCHANGED ram PROVE RamOK'
  <2>1. ASSUME NEW a \in Addr, Good(a)
        PROVE  /\ ram[a] # None /\ ~Changing(a)' =>
                     FindsAt(dutQ, Len(dutQ) + 1, a, Current(a)', ram[a])
               /\ (\E i \in 1 .. Len(dutQ) : StoresTo(dutQ[i], a)) => ram[a] # None
    BY <1>3, <2>1 DEF RamOK
  <2>2. dutQ' = dutQ
    OBVIOUS
  <2> QED
    BY <1>1, <1>3, <2>1, <2>2 DEF RamOK, StoresTo
<1>4. ASSUME EntriesOK PROVE EntriesOK'
  <2>1. \A a : within_error_region(a)' <=> within_error_region(a)
    BY DEF within_error_region
  <2>2. inflight' = inflight /\ dutQ' = dutQ
    OBVIOUS
  <2>3. \A i \in 1 .. Len(dutQ) : dutQ[i].addr \in Addr
    BY DEF DeviceType, Drawn, Request
  <2> QED
    BY <1>1, <1>4, <2>1, <2>2, <2>3 DEF EntriesOK
<1> QED
  BY <1>2, <1>3, <1>4

\* What write_process pairs.
LEMMA PairTaken ==
    ASSUME TbBase, InOrder, VerdictOK, write_process, UNCHANGED <<kind, dutVars>>, ~overrun'
    PROVE  LET h == Head(waFifo)
               d == Head(wdFifo)
           IN  /\ BeatOK(d) /\ d.of = h.id
               /\ Elems(wdFifo') \subseteq Elems(wdFifo)
               /\ UNCHANGED <<inflight, ram, nbResp, nbNeedRsp, scIsAtomic, rdFifo,
                              rdResp, wdReq, wrFifo, wrResp>>
               /\ UNCHANGED <<dutQ, wbuf, uc, cache>>
               /\ WriteOperation(h, d.data) /\ wrOp = <<>>
<1> USE DEF TbBase, TbTypeOK, InOrder, VerdictOK
<1>1. /\ waFifo # <<>> /\ wdFifo # <<>> /\ wdFifo' = Tail(wdFifo) /\ wrOp = <<>>
      /\ WriteOperation(Head(waFifo), Head(wdFifo).data)
  BY DEF write_process
<1>2. IsSeq(wdFifo) /\ IsSeq(waFifo)
  BY SeqIsSeq DEF MemoryType
<1>3. /\ Head(wdFifo) \in Elems(wdFifo) /\ Head(wdFifo) = wdFifo[1]
      /\ Elems(wdFifo') \subseteq Elems(wdFifo) /\ Len(wdFifo) \in Nat \ {0}
  BY <1>1, <1>2, Popped
<1>4. Head(waFifo) = waFifo[1] /\ Len(waFifo) \in Nat \ {0}
  BY <1>1, <1>2, Popped
<1>5. BeatOK(Head(wdFifo))
  BY <1>3 DEF WritesData
<1>6. Head(wdFifo).of = Head(waFifo).id
  <2>1. 1 \in 1 .. Len(waFifo) /\ 1 <= Len(wdFifo)
    BY <1>3, <1>4
  <2>2. waFifo[1].id = wdFifo[1].of
    BY <2>1 DEF Paired
  <2> QED
    BY <1>3, <1>4, <2>2
<1>7. UNCHANGED <<inflight, ram, nbResp, nbNeedRsp, scIsAtomic, rdFifo,
                  rdResp, wdReq, wrFifo, wrResp>>
  BY ChannelsKept DEF write_process, mem_write_req_process
<1> QED
  BY <1>1, <1>3, <1>5, <1>6, <1>7 DEF dutVars

LEMMA PlainWriteData ==
    ASSUME TbBase, InOrder, VerdictOK, write_process, UNCHANGED <<kind, dutVars>>, ~overrun',
           Head(waFifo).id # UcId
    PROVE  VerdictOK'
<1> USE DEF TbBase, TbTypeOK, InOrder, VerdictOK
<1> SUFFICES ASSUME NEW b, b = Head(waFifo).id
             PROVE  VerdictOK'
  OBVIOUS
<1> DEFINE h == Head(waFifo)
           d == Head(wdFifo)
<1>1. /\ BeatOK(d) /\ d.of = b
      /\ Elems(wdFifo') \subseteq Elems(wdFifo)
      /\ UNCHANGED <<inflight, ram, nbResp, nbNeedRsp, scIsAtomic, rdFifo,
                     rdResp, wdReq, wrFifo, wrResp>>
      /\ UNCHANGED <<dutQ, wbuf, uc, cache>>
      /\ WriteOperation(h, d.data)
  BY PairTaken
<1>2. b \in MemIds /\ WriteRequestOK(h) /\ (UcWrites' <=> UcWrites)
  BY WriteTaken, Zenon
<1>3. b \in Addr /\ h.addr = b /\ h.cmd = "WRITE" /\ wbuf[b] # None /\ wbuf[b].sent
  BY <1>2, Identifiers DEF WriteRequestOK
<1>4. ~uc.busy /\ b \notin miss /\ uc.rd = None
  BY <1>3 DEF DeviceOK
<1>5. d.data = wbuf[b].data
  BY <1>1 DEF BeatOK
<1>6. ~MemIsAmo(h.cmd) /\ h.cmd # "STEX"
  BY <1>3 DEF MemIsAmo, MemAtomics
<1>7. /\ mem' = IF within_error_region(b) THEN mem ELSE [mem EXCEPT ![b] = d.data]
      /\ \E e, k : wrOp' = <<[chan |-> "write", id |-> b, error |-> e, atomic |-> k]>>
  BY <1>1, <1>3, <1>6 DEF WriteOperation, writeMemory, WriteResponses
<1> HIDE DEF h, d
<1>8. /\ \A a \in Addr : a # b => mem'[a] = mem[a]
      /\ Good(b) => mem'[b] = wbuf[b].data
  BY <1>3, <1>5, <1>7 DEF MemoryType, Good
<1>9. \A a \in Addr : Current(a)' = Current(a)
  BY <1>1, <1>3, <1>8 DEF Current
<1>10. \A a : ~Changing(a) /\ ~Changing(a)'
  BY <1>1, <1>4 DEF Changing
<1>11. CacheOK' /\ RamOK' /\ EntriesOK'
  BY <1>1, <1>9, <1>10, WordsKept
<1>12. \A a : Good(a)' <=> Good(a)
  BY DEF Good, within_error_region
<1>13. Len(wrOp') = 1 /\ wrOp'[1].id = b
  BY <1>7
<1>14. ReadsData'
  <2>1. ASSUME NEW r, ReadResponseOK(r), ReadDataOK(r) PROVE ReadDataOK(r)'
    <3>1. r.id \in miss /\ r.id # UcId /\ r.id # b /\ r.id \in Addr
      BY <1>4, <2>1, Identifiers DEF ReadResponseOK
    <3> QED
      BY <1>8, <1>12, <2>1, <3>1 DEF ReadDataOK
  <2> QED
    BY <1>1, <1>4, <1>13, <2>1 DEF ReadsData, ReadsOK
<1>15. WritesData'
  <2>1. \A x : BeatOK(x)' <=> BeatOK(x)
    BY <1>1 DEF BeatOK
  <2>2. ASSUME NEW r, WriteResponseOK(r), Written(r) PROVE Written(r)'
    <3>1. CASE r.id = UcId
      BY <3>1 DEF Written
    <3>2. CASE r.id # UcId
      <4>1. r.id \in Addr
        BY <2>2, <3>2, Identifiers DEF WriteResponseOK
      <4> QED
        BY <1>1, <1>8, <1>12, <2>2, <4>1 DEF Written
    <3> QED
      BY <3>1, <3>2
  <2>3. Written(wrOp[Len(wrOp)])'
    <3>1. wrOp'[Len(wrOp')].id = b
      BY <1>13
    <3>2. Good(b)' => mem'[b] = wbuf'[b].data
      BY <1>1, <1>8, <1>12
    <3> QED
      BY <3>1, <3>2 DEF Written
  <2> QED
    BY <1>1, <2>1, <2>2, <2>3 DEF WritesData, WritesOK
<1>16. ScData'
  BY <1>1, <1>4 DEF ScData
<1>17. CountOK' /\ sbErrors' = <<>>
  BY <1>1, WriteRequestSilent DEF CountOK
<1> QED
  BY <1>11, <1>14, <1>15, <1>16, <1>17

\* The memory performs an atomic request: only its word changes, and the device
\* has not answered it yet.
LEMMA AtomicWriteData ==
    ASSUME TbBase, InOrder, VerdictOK, write_process, UNCHANGED <<kind, dutVars>>, ~overrun',
           Head(waFifo).id = UcId
    PROVE  VerdictOK'
<1> USE DEF TbBase, TbTypeOK, InOrder, VerdictOK
<1> DEFINE h == Head(waFifo)
           d == Head(wdFifo)
<1>1. /\ BeatOK(d) /\ d.of = UcId
      /\ Elems(wdFifo') \subseteq Elems(wdFifo)
      /\ UNCHANGED <<inflight, ram, nbResp, nbNeedRsp, scIsAtomic, rdFifo,
                     rdResp, wdReq, wrFifo, wrResp>>
      /\ UNCHANGED <<dutQ, wbuf, uc, cache>>
      /\ WriteOperation(h, d.data)
  BY PairTaken
<1>2. WriteRequestOK(h) /\ UcWrites /\ ~UcWrites' /\ h \in Elems(waFifo)
  BY WriteTaken, Zenon
<1> SUFFICES ASSUME NEW t, t = dutQ[1], NEW b, b = dutQ[1].addr
             PROVE  VerdictOK'
  OBVIOUS
<1>3. /\ uc.busy /\ uc.rd = None /\ uc.wr = None /\ h.addr = b
      /\ \/ t.op = "SC" /\ h.cmd = "STEX"
         \/ t.op \in AmoOps /\ h.cmd = MemAtomicOf[t.op]
  BY <1>2 DEF WriteRequestOK
<1>4. /\ Len(dutQ) = 1 /\ 1 \in 1 .. Len(dutQ) /\ t \in Drawn /\ b \in Addr /\ t.needRsp
      /\ t.op # "LR" /\ t.op \in AmoOps \cup {"SC"}
  <2>1. Len(dutQ) = 1 /\ t \in Drawn /\ b \in Addr /\ t.needRsp
    BY <1>3, BusyFacts
  <2>2. 1 \in 1 .. Len(dutQ)
    BY <2>1
  <2>3. t.op # "LR" /\ t.op \in AmoOps \cup {"SC"}
    BY <1>3 DEF AmoOps
  <2> QED
    BY <2>1, <2>2, <2>3
<1>5. miss = {} /\ \A a \in Addr : wbuf[a] = None
  BY <1>3 DEF DeviceOK
<1>6. d.data = MemDataOf(t.op, t.data)
  BY <1>1 DEF BeatOK
<1>7. t.op = "SC" => excl[UcId] = b /\ ~within_error_region(b)
  BY <1>2, <1>3, <1>4, AtomicIsAwaited
<1>8. /\ \A a \in Addr : a # b => mem'[a] = mem[a]
      /\ t.op = "SC" => mem'[b] = t.data /\ Len(wrOp') = 1
      /\ t.op \in AmoOps /\ Good(b) =>
            mem'[b] = MemComputeAmo(MemAtomicOf[t.op], mem[b], d.data, FALSE)
      /\ t.op \in AmoOps =>
            /\ Len(wrOp') = 2 /\ wrOp'[1].id = UcId
            /\ Good(b) => wrOp'[1].data = mem[b]
      /\ wrOp' # <<>> /\ wrOp'[Len(wrOp')].id = UcId
  <2>1. CASE t.op = "SC"
    <3>1. h.cmd = "STEX" /\ ~MemIsAmo(h.cmd) /\ t.op \notin AmoOps
      BY <1>3, <2>1 DEF MemIsAmo, AmoOps
    <3>2. MemDataOf(t.op, t.data) = t.data
      BY <2>1 DEF MemDataOf
    <3>3. mem' = [mem EXCEPT ![b] = d.data]
      BY <1>1, <1>3, <1>7, <2>1, <3>1 DEF WriteOperation, writeMemory
    <3>4. \E e, k : wrOp' = <<[chan |-> "write", id |-> UcId, error |-> e, atomic |-> k]>>
      BY <1>1, <3>1 DEF WriteOperation, WriteResponses
    <3>5. Len(wrOp') = 1 /\ wrOp'[1].id = UcId /\ wrOp' # <<>>
      BY <3>4
    <3>6. mem'[b] = t.data /\ \A a \in Addr : a # b => mem'[a] = mem[a]
      BY <1>4, <1>6, <3>2, <3>3 DEF MemoryType
    <3>7. wrOp'[Len(wrOp')].id = UcId
      BY <3>5
    <3> QED
      BY <2>1, <3>1, <3>5, <3>6, <3>7
  <2>2. CASE t.op \in AmoOps
    <3>1. /\ h.cmd = MemAtomicOf[t.op] /\ MemIsAmo(h.cmd) /\ h.cmd # "STEX" /\ t.op # "SC"
      <4>1. t.op # "SC"
        BY <2>2 DEF AmoOps
      <4>2. h.cmd = MemAtomicOf[t.op] /\ MemIsAmo(h.cmd)
        BY <1>3, <2>2, <4>1, AtomicCommands
      <4> QED
        BY <4>1, <4>2 DEF MemIsAmo
    <3>2. mem' = IF within_error_region(b) THEN mem
                 ELSE [mem EXCEPT ![b] = MemComputeAmo(h.cmd, mem[b], d.data, FALSE)]
      BY <1>1, <1>3, <3>1 DEF WriteOperation, writeMemory, readMemory
    <3>3. \E e, k, x, f : /\ wrOp' = <<[chan |-> "read", id |-> UcId, error |-> f, data |-> x],
                                       [chan |-> "write", id |-> UcId, error |-> e, atomic |-> k]>>
                          /\ Good(b) => x = mem[b]
      <4>1. wrOp' = <<[chan |-> "read", id |-> h.id, error |-> FALSE,
                       data |-> IF within_error_region(h.addr) THEN 0 ELSE readMemory(h.addr)],
                      [chan |-> "write", id |-> h.id, error |-> within_error_region(h.addr),
                       atomic |-> h.cmd = "STEX" /\ ~within_error_region(h.addr) /\ excl[h.id] = h.addr]>>
        BY <1>1, <3>1 DEF WriteOperation, WriteResponses
      <4>2. Good(b) => (IF within_error_region(h.addr) THEN 0 ELSE readMemory(h.addr)) = mem[b]
        BY <1>3 DEF Good, readMemory
      <4> HIDE DEF h
      <4>3. h.id = UcId
        BY DEF h
      <4> QED
        BY <4>1, <4>2, <4>3
    <3>4. /\ Len(wrOp') = 2 /\ wrOp'[1].id = UcId /\ wrOp'[2].id = UcId /\ wrOp' # <<>>
          /\ Good(b) => wrOp'[1].data = mem[b]
      BY <3>3
    <3>5. \A a \in Addr : a # b => mem'[a] = mem[a]
      BY <3>2 DEF MemoryType
    <3>6. Good(b) => mem'[b] = MemComputeAmo(h.cmd, mem[b], d.data, FALSE)
      BY <1>4, <3>2 DEF MemoryType, Good
    <3>7. wrOp'[Len(wrOp')].id = UcId
      BY <3>4
    <3> QED
      BY <2>2, <3>1, <3>4, <3>5, <3>6, <3>7
  <2> QED
    BY <1>4, <2>1, <2>2
<1> HIDE DEF h, d
<1>9. ~Changing(b) /\ Changing(b)' /\ \A a : a # b => ~Changing(a) /\ ~Changing(a)'
  BY <1>1, <1>2, <1>3, <1>4 DEF Changing
<1>10. \A a \in Addr : a # b => Current(a)' = Current(a)
  BY <1>1, <1>8 DEF Current
<1>11. CacheOK' /\ RamOK' /\ EntriesOK'
  <2>1. \A a \in Addr : Good(a) /\ ~Changing(a)' => ~Changing(a) /\ Current(a)' = Current(a)
    BY <1>9, <1>10
  <2> QED
    BY <1>1, <2>1, WordsKept
<1>12. \A a : Good(a)' <=> Good(a)
  BY DEF Good, within_error_region
<1>13. Elems(rdFifo) = {} /\ rdResp = None
  <2>1. \A r : ~ReadResponseOK(r)
    BY <1>2, <1>5 DEF ReadResponseOK
  <2> QED
    BY <2>1 DEF ReadsOK
<1>14. ReadsData'
  <2>1. ASSUME t.op \in AmoOps
        PROVE  ReadDataOK(wrOp[1])'
    <3>1. wrOp'[1].id = UcId /\ dutQ'[1] = t /\ t.op # "LR" /\ inflight' = inflight
      BY <1>1, <1>4, <1>8, <2>1
    <3> SUFFICES ASSUME Good(b)
                 PROVE  /\ inflight[t.tid].rdata # None => wrOp'[1].data = inflight[t.tid].rdata
                        /\ mem'[b] = ComputeAmo(t.op, wrOp'[1].data, t.data, FALSE)
      BY <1>12, <3>1 DEF ReadDataOK, AtomicReadOK
    <3>2. wrOp'[1].data = mem[b]
      BY <1>8, <2>1
    <3>3. Current(b) = mem[b]
      BY <1>4, <1>5 DEF Current
    <3>4. inflight[t.tid].rdata # None => inflight[t.tid].rdata = mem[b]
      <4> SUFFICES ASSUME inflight[t.tid].rdata # None
                   PROVE  inflight[t.tid].rdata = mem[b]
        OBVIOUS
      <4>1. FindsAt(dutQ, 1, b, Current(b), inflight[t.tid].rdata)
        BY <1>4, <1>9 DEF EntriesOK
      <4> QED
        BY <3>3, <4>1, FindsFirst
    <3>5. t.data \in Int
      BY <1>4, WordFacts DEF Drawn, Request
    <3>6. mem'[b] = ComputeAmo(t.op, mem[b], t.data, FALSE)
      BY <1>6, <1>8, <2>1, <3>5, AmoUnits
    <3> QED
      BY <3>2, <3>4, <3>6
  <2>2. Len(wrOp') = 2 => t.op \in AmoOps
    BY <1>4, <1>8
  <2>3. uc'.rd = None
    BY <1>1, <1>3
  <2>4. Elems(rdFifo)' = {} /\ rdResp' = None
    BY <1>1, <1>13
  <2> QED
    BY <2>1, <2>2, <2>3, <2>4 DEF ReadsData
<1>15. WritesData'
  <2>1. \A x : BeatOK(x)' <=> BeatOK(x)
    BY <1>1 DEF BeatOK
  <2>2. ASSUME NEW r, WriteResponseOK(r) PROVE Written(r)'
    <3>1. r.id = UcId
      BY <1>5, <2>2, Identifiers DEF WriteResponseOK
    <3> QED
      BY <3>1 DEF Written
  <2>3. Written(wrOp[Len(wrOp)])'
    BY <1>8 DEF Written
  <2> QED
    BY <1>1, <2>1, <2>2, <2>3 DEF WritesData, WritesOK
<1>16. ScData'
  <2> SUFFICES ASSUME t.op = "SC"
               PROVE  mem'[b] = t.data /\ ~(Holds(wrResp, UcId)' \/ uc'.wr # None)
    BY <1>1 DEF ScData
  <2>1. ~Holds(wrResp, UcId)
    BY <1>2 DEF WritesOK, h
  <2> QED
    BY <1>1, <1>3, <1>8, <2>1 DEF Holds
<1>17. CountOK' /\ sbErrors' = <<>>
  BY <1>1, WriteRequestSilent DEF CountOK
<1> QED
  BY <1>11, <1>14, <1>15, <1>16, <1>17

-----------------------------------------------------------------------------
(* Steps of the device.                                                      *)

\* The error flag expected in the answer to u.
EntryFlag(u) == /\ within_error_region(u.addr) /\ u.op # "SC"
                /\ u.op \in CmoOps => u.op = "CMO_PREFETCH"

\* EntriesOK after a step, in terms of one request and its entry.
LEMMA EntriesNext ==
    ASSUME \A j \in 1 .. Len(dutQ') : \A u, x :
              u = dutQ'[j] /\ u.needRsp /\ x = inflight'[u.tid] =>
                 /\ x.error = EntryFlag(u)'
                 /\ x.rdata # None =>
                       /\ u.op \in {"LOAD", "LR"} \cup AmoOps /\ Good(u.addr)'
                       /\ FindsAt(dutQ', j, u.addr, Current(u.addr)', x.rdata)
    PROVE  EntriesOK'
BY DEF EntriesOK, EntryFlag, Good, Current, within_error_region

\* Request i, the oldest on its line, is answered and leaves the device.
LEMMA DataRemoved ==
    ASSUME TbBase, QueueOK, RamOK, EntriesOK, UNCHANGED <<kind, uc, ram>>, ~uc.busy,
           NEW i \in 1 .. Len(dutQ), Oldest(i), dutQ' = Without(i), Answered(dutQ[i]),
           \A a \in Addr : Current(a)' = IF StoresTo(dutQ[i], a) THEN dutQ[i].data ELSE Current(a)
    PROVE  RamOK' /\ EntriesOK'
<1> USE DEF TbBase, TbTypeOK
<1> SUFFICES ASSUME NEW t, t = dutQ[i]
             PROVE  RamOK' /\ EntriesOK'
  OBVIOUS
<1>0. Len(dutQ) \in Nat \ {0} /\ Len(dutQ') = Len(dutQ) - 1 /\ i <= Len(dutQ)
  BY RemovedFacts
<1>1. \A a : (Good(a)' <=> Good(a)) /\ ~Changing(a) /\ ~Changing(a)'
  BY DEF Good, within_error_region, Changing
<1>2. \A a : within_error_region(a)' <=> within_error_region(a)
  BY DEF within_error_region
<1>3. \A a : StoresTo(t, a) => \A k \in 1 .. i - 1 : ~StoresTo(dutQ[k], a)
  BY DEF Oldest, StoresTo
<1>4. ASSUME NEW a, NEW c, NEW v
      PROVE  /\ \A n \in i + 1 .. Len(dutQ) + 1 :
                   FindsAt(dutQ, n, a, c, v) =>
                   FindsAt(dutQ', n - 1, a, IF StoresTo(t, a) THEN t.data ELSE c, v)
             /\ \A n \in 1 .. i : FindsAt(dutQ, n, a, c, v) => FindsAt(dutQ', n, a, c, v)
  BY <1>3, FindsRemoved
<1>5. RamOK'
  <2> SUFFICES ASSUME NEW a \in Addr, Good(a)
               PROVE  /\ ram[a] # None =>
                            FindsAt(dutQ', Len(dutQ') + 1, a, Current(a)', ram[a])
                      /\ (\E k \in 1 .. Len(dutQ') : StoresTo(dutQ'[k], a)) => ram[a] # None
    <3>1. \A a, k : StoresTo(dutQ[k], a)' <=> StoresTo(dutQ'[k], a)
      BY DEF StoresTo
    <3> QED
      BY <1>1, <3>1 DEF RamOK
  <2>1. ASSUME ram[a] # None
        PROVE  FindsAt(dutQ', Len(dutQ') + 1, a, Current(a)', ram[a])
    <3>1. FindsAt(dutQ, Len(dutQ) + 1, a, Current(a), ram[a])
      BY <1>1, <2>1 DEF RamOK
    <3>2. Len(dutQ) + 1 \in i + 1 .. Len(dutQ) + 1 /\ Len(dutQ') + 1 = (Len(dutQ) + 1) - 1
      BY <1>0
    <3> QED
      BY <1>4, <3>1, <3>2
  <2>2. ASSUME NEW k \in 1 .. Len(dutQ'), StoresTo(dutQ'[k], a)
        PROVE  ram[a] # None
    <3>1. PICK m \in 1 .. Len(dutQ) : dutQ'[k] = dutQ[m]
      BY <2>2, RemovedFacts
    <3> QED
      BY <2>2, <3>1 DEF RamOK
  <2> QED
    BY <2>1, <2>2
<1>6. EntriesOK'
  <2> SUFFICES ASSUME NEW j \in 1 .. Len(dutQ'), NEW u, u = dutQ'[j], u.needRsp,
                      NEW x, x = inflight'[u.tid]
               PROVE  /\ x.error = EntryFlag(u)'
                      /\ x.rdata # None =>
                            /\ u.op \in {"LOAD", "LR"} \cup AmoOps /\ Good(u.addr)'
                            /\ FindsAt(dutQ', j, u.addr, Current(u.addr)', x.rdata)
    BY EntriesNext
  <2>0. PICK k \in 1 .. Len(dutQ) :
           k # i /\ u = dutQ[k] /\ ((j < i /\ k = j) \/ (j >= i /\ k = j + 1))
    <3>1. CASE j < i
      <4>1. j \in 1 .. Len(dutQ) /\ j # i
        BY <1>0, <3>1
      <4> QED
        BY <3>1, <4>1, RemovedFacts
    <3>2. CASE ~(j < i)
      <4>1. u = dutQ[j + 1] /\ j + 1 \in 1 .. Len(dutQ)
        BY <3>2, RemovedFacts
      <4>2. j + 1 # i /\ j >= i
        BY <1>0, <3>2
      <4> QED
        BY <4>1, <4>2
    <3> QED
      BY <3>1, <3>2
  <2> SUFFICES ASSUME NEW e, e = inflight[u.tid]
               PROVE  /\ x.error = EntryFlag(u)'
                      /\ x.rdata # None =>
                            /\ u.op \in {"LOAD", "LR"} \cup AmoOps /\ Good(u.addr)'
                            /\ FindsAt(dutQ', j, u.addr, Current(u.addr)', x.rdata)
    OBVIOUS
  <2>1. u \in Drawn /\ u.addr \in Addr
    BY <2>0 DEF DeviceType, Drawn, Request
  <2>2. x = e
    <3>1. u.tid \in DOMAIN inflight /\ (u.tid # t.tid \/ ~t.needRsp)
      BY <2>0 DEF QueueOK
    <3> QED
      BY <3>1 DEF Answered
  <2>3. /\ e.error = EntryFlag(u)
        /\ e.rdata # None =>
              /\ u.op \in {"LOAD", "LR"} \cup AmoOps /\ Good(u.addr)
              /\ FindsAt(dutQ, k, u.addr, Current(u.addr), e.rdata)
    BY <1>1, <2>0 DEF EntriesOK, EntryFlag
  <2>4. ASSUME e.rdata # None
        PROVE  FindsAt(dutQ', j, u.addr, Current(u.addr)', e.rdata)
    <3>1. FindsAt(dutQ, k, u.addr, Current(u.addr), e.rdata)
      BY <2>3, <2>4
    <3>2. CASE j < i /\ k = j
      <4>1. ~StoresTo(t, u.addr)
        <5>1. k \in 1 .. i - 1
          BY <1>0, <3>2
        <5> QED
          BY <2>0, <5>1 DEF Oldest, StoresTo
      <4>2. Current(u.addr)' = Current(u.addr)
        BY <2>1, <4>1
      <4>3. j \in 1 .. i
        BY <1>0, <3>2
      <4> QED
        BY <1>4, <3>1, <3>2, <4>2, <4>3
    <3>3. CASE j >= i /\ k = j + 1
      <4>1. k \in i + 1 .. Len(dutQ) + 1 /\ k - 1 = j
        BY <1>0, <2>0, <3>3
      <4>2. Current(u.addr)' = IF StoresTo(t, u.addr) THEN t.data ELSE Current(u.addr)
        BY <2>1
      <4> QED
        BY <1>4, <3>1, <4>1, <4>2
    <3> QED
      BY <2>0, <3>2, <3>3
  <2>5. EntryFlag(u)' = EntryFlag(u)
    BY <1>2 DEF EntryFlag, within_error_region
  <2> QED
    BY <1>1, <2>2, <2>3, <2>4, <2>5
<1> QED
  BY <1>5, <1>6

\* While no atomic request is sent, the words in the memory's FIFOs do not
\* depend on the requests of the device.
LEMMA QuietReadsData ==
    ASSUME InOrder, ReadsData, ~uc.busy, UNCHANGED <<kind, mem, uc, rdFifo, wrOp>>,
           rdResp' \in {rdResp, None}
    PROVE  ReadsData'
<1> USE DEF InOrder
<1>1. \A a : Good(a)' <=> Good(a)
  BY DEF Good, within_error_region
<1>2. ASSUME NEW r, ReadResponseOK(r), ReadDataOK(r)
      PROVE  ReadDataOK(r)'
  <2>1. r.id # UcId
    BY <1>2 DEF ReadResponseOK
  <2> QED
    BY <1>1, <1>2, <2>1 DEF ReadDataOK
<1>3. uc'.rd = None
  BY DEF DeviceOK
<1> QED
  BY <1>2, <1>3 DEF ReadsData, ReadsOK, AcksOK

LEMMA QuietWritesData ==
    ASSUME TbBase, InOrder, WritesData, ~uc.busy,
           UNCHANGED <<kind, mem, wdFifo, wdReq, wrFifo, wrResp, wrOp>>,
           \A a \in Addr : wbuf[a] # None /\ wbuf[a].sent => wbuf'[a].data = wbuf[a].data
    PROVE  WritesData'
<1> USE DEF InOrder
<1>1. \A a : Good(a)' <=> Good(a)
  BY DEF Good, within_error_region
<1>2. ASSUME NEW d, Beat(d), BeatOK(d)
      PROVE  BeatOK(d)'
  <2>1. d.of # UcId /\ wbuf[d.of] # None /\ wbuf[d.of].sent
    BY <1>2, BeatsAreSent
  <2>2. d \in WriteBeat
    BY <1>2, SeqIsSeq DEF Beat, TbBase, TbTypeOK, MemoryType
  <2>3. d.of \in Addr
    BY <2>1, <2>2, Identifiers DEF WriteBeat
  <2> QED
    BY <1>2, <2>1, <2>3 DEF BeatOK
<1>3. ASSUME NEW r, WriteResponseOK(r), Written(r)
      PROVE  Written(r)'
  <2>1. r.id # UcId /\ r.id \in Addr /\ wbuf[r.id] # None /\ wbuf[r.id].sent
    BY <1>3, Identifiers DEF WriteResponseOK
  <2> QED
    BY <1>1, <1>3, <2>1 DEF Written
<1> QED
  BY <1>2, <1>3 DEF WritesData, WritesOK, AcksOK, Beat

\* What the scoreboard keeps of a right answer.
LEMMA RightLeaves ==
    ASSUME TbBase, InOrder, VerdictOK, NEW i \in 1 .. Len(dutQ), NEW data, NEW err,
           Answer(dutQ[i], data, err), Expected(dutQ[i], data, err), bug' = None
    PROVE  /\ Answered(dutQ[i]) /\ CountOK' /\ sbErrors' = <<>> /\ scIsAtomic' = scIsAtomic
           /\ dutQ[i].op \notin AmoOps \cup {"SC"} => ram' = ram
<1>1. Answered(dutQ[i])
  BY RightEffect
<1>2. Right(dutQ[i], data, err) /\ scIsAtomic' = scIsAtomic
  BY AnswerEffect
<1>3. /\ CountOK' /\ sbErrors' = <<>>
      /\ dutQ[i].op \notin AmoOps \cup {"SC"} => ram' = ram
  BY <1>2, RightAnswer DEF VerdictOK, InOrder
<1> QED
  BY <1>1, <1>2, <1>3

LEMMA HitData ==
    ASSUME TbBase, InOrder, VerdictOK, DutHit, UNCHANGED kind, bug' = None
    PROVE  VerdictOK'
<1> USE DEF TbBase, TbTypeOK, InOrder, VerdictOK
<1>0. DOMAIN dutQ = 1 .. Len(dutQ)
  BY DEF DeviceType
<1>1. PICK i \in 1 .. Len(dutQ) :
         /\ dutQ[i].op \in {"LOAD", "CMO_PREFETCH"} /\ Oldest(i) /\ cache[dutQ[i].addr] # None
         /\ Answer(dutQ[i], cache[dutQ[i].addr], FALSE) /\ dutQ' = Without(i)
  BY <1>0, Zenon DEF DutHit
<1>2. UNCHANGED <<cache, miss, wbuf, rsv, uc, memVars>>
  BY DEF DutHit
<1>3. ~uc.busy
  <2>1. ~IsRmw(dutQ[i].op)
    BY <1>1 DEF IsRmw, AmoOps
  <2> QED
    BY <2>1, NotBusy
<1>4. /\ Answered(dutQ[i]) /\ CountOK' /\ sbErrors' = <<>> /\ ram' = ram
  <2>1. Expected(dutQ[i], cache[dutQ[i].addr], FALSE)
    BY <1>1, HitExpected
  <2>2. dutQ[i].op \notin AmoOps \cup {"SC"}
    BY <1>1 DEF AmoOps
  <2> QED
    BY <1>1, <2>1, <2>2, RightLeaves
<1>5. \A a : /\ Current(a)' = Current(a) /\ (Good(a)' <=> Good(a))
             /\ ~Changing(a) /\ ~Changing(a)' /\ ~StoresTo(dutQ[i], a)
  BY <1>1, <1>2, <1>3 DEF Current, Good, within_error_region, Changing, StoresTo, memVars
<1>6. CacheOK'
  BY <1>2, <1>5 DEF CacheOK
<1>7. RamOK' /\ EntriesOK'
  BY <1>1, <1>2, <1>3, <1>4, <1>5, DataRemoved
<1>8. ReadsData'
  BY <1>2, <1>3, QuietReadsData DEF memVars
<1>9. WritesData'
  BY <1>2, <1>3, QuietWritesData DEF memVars
<1>10. ScData'
  BY <1>2, <1>3 DEF ScData
<1> QED
  BY <1>4, <1>6, <1>7, <1>8, <1>9, <1>10

LEMMA RefillData ==
    ASSUME TbBase, InOrder, VerdictOK, DutRefill, UNCHANGED kind, bug' = None
    PROVE  VerdictOK'
<1> USE DEF TbBase, TbTypeOK, InOrder, VerdictOK
<1>0. DOMAIN dutQ = 1 .. Len(dutQ)
  BY DEF DeviceType
<1>1. PICK i \in 1 .. Len(dutQ) :
         /\ dutQ[i].op \in {"LOAD", "CMO_PREFETCH"} /\ Oldest(i)
         /\ rdResp # None /\ rdResp.id = dutQ[i].addr
         /\ cache' = IF rdResp.error THEN cache ELSE [cache EXCEPT ![dutQ[i].addr] = rdResp.data]
         /\ Answer(dutQ[i], rdResp.data, rdResp.error) /\ dutQ' = Without(i)
  BY <1>0, Zenon DEF DutRefill
<1>2. /\ UNCHANGED <<wbuf, uc, mem, rdFifo, wdReq, wdFifo, wrOp, wrFifo, wrResp>>
      /\ rdResp' = None
  BY DEF DutRefill
<1>3. ~uc.busy
  <2>1. ~IsRmw(dutQ[i].op)
    BY <1>1 DEF IsRmw, AmoOps
  <2> QED
    BY <2>1, NotBusy
<1>4. /\ rdResp.error = within_error_region(dutQ[i].addr)
      /\ Good(dutQ[i].addr) => rdResp.data = Current(dutQ[i].addr)
      /\ Expected(dutQ[i], rdResp.data, rdResp.error)
  BY <1>1, RefillExpected
<1>5. Answered(dutQ[i]) /\ CountOK' /\ sbErrors' = <<>> /\ ram' = ram
  <2>1. dutQ[i].op \notin AmoOps \cup {"SC"}
    BY <1>1 DEF AmoOps
  <2> QED
    BY <1>1, <1>4, <2>1, RightLeaves
<1>6. \A a : /\ Current(a)' = Current(a) /\ (Good(a)' <=> Good(a))
             /\ ~Changing(a) /\ ~Changing(a)' /\ ~StoresTo(dutQ[i], a)
  BY <1>1, <1>2, <1>3 DEF Current, Good, within_error_region, Changing, StoresTo
<1>7. CacheOK'
  <2> SUFFICES ASSUME NEW a \in Addr, cache'[a] # None
               PROVE  Good(a) /\ cache'[a] = Current(a)
    BY <1>6 DEF CacheOK
  <2>1. CASE rdResp.error \/ a # dutQ[i].addr
    <3>1. cache'[a] = cache[a]
      BY <1>1, <2>1 DEF DeviceType
    <3> QED
      BY <1>6, <3>1 DEF CacheOK
  <2>2. CASE ~rdResp.error /\ a = dutQ[i].addr
    <3>1. cache'[a] = rdResp.data
      BY <1>1, <2>2 DEF DeviceType
    <3> QED
      BY <1>4, <2>2, <3>1 DEF Good
  <2> QED
    BY <2>1, <2>2
<1>8. RamOK' /\ EntriesOK'
  BY <1>1, <1>2, <1>3, <1>5, <1>6, DataRemoved
<1>9. ReadsData'
  BY <1>2, <1>3, QuietReadsData
<1>10. WritesData'
  BY <1>2, <1>3, QuietWritesData
<1>11. ScData'
  BY <1>2, <1>3 DEF ScData
<1> QED
  BY <1>5, <1>7, <1>8, <1>9, <1>10, <1>11

LEMMA StoreData ==
    ASSUME TbBase, InOrder, VerdictOK, DutStore, UNCHANGED kind, bug' = None
    PROVE  VerdictOK'
<1> USE DEF TbBase, TbTypeOK, InOrder, VerdictOK
<1>0. DOMAIN dutQ = 1 .. Len(dutQ)
  BY DEF DeviceType
<1>1. PICK i \in 1 .. Len(dutQ) : LET t == dutQ[i] IN
         /\ t.op = "STORE" /\ Oldest(i)
         /\ wbuf[t.addr] # None => ~wbuf[t.addr].sent
         /\ wbuf' = [wbuf EXCEPT ![t.addr] = [data |-> t.data, sent |-> FALSE]]
         /\ cache' = IF cache[t.addr] = None THEN cache
                     ELSE [cache EXCEPT ![t.addr] = t.data]
         /\ Answer(t, 0, FALSE) /\ dutQ' = Without(i)
  BY <1>0, Zenon DEF DutStore
<1> SUFFICES ASSUME NEW t, t = dutQ[i]
             PROVE  VerdictOK'
  OBVIOUS
<1>2. UNCHANGED <<uc, memVars>>
  BY DEF DutStore
<1>3. ~uc.busy
  <2>1. ~IsRmw(dutQ[i].op)
    BY <1>1 DEF IsRmw, AmoOps
  <2> QED
    BY <2>1, NotBusy
<1>4. Answered(t) /\ CountOK' /\ sbErrors' = <<>> /\ ram' = ram
  <2>1. dutQ[i].op \notin AmoOps \cup {"SC"}
    BY <1>1 DEF AmoOps
  <2>2. Expected(dutQ[i], 0, FALSE)
    BY <1>1, StoreExpected
  <2> QED
    BY <1>1, <2>1, <2>2, RightLeaves
<1>5. t \in Drawn /\ t.addr \in Addr /\ t.data \in Data \cup {0}
  BY DEF DeviceType, Drawn, Request
<1>6. [data |-> t.data, sent |-> FALSE] # None
  <2>1. [data |-> t.data, sent |-> FALSE] \in WbufEntry
    BY <1>5 DEF WbufEntry
  <2> QED
    BY <2>1, TbNoneAssumption
<1>7. ASSUME NEW a \in Addr
      PROVE  /\ a = t.addr => wbuf'[a] = [data |-> t.data, sent |-> FALSE]
             /\ a # t.addr => wbuf'[a] = wbuf[a]
  BY <1>1, <1>5 DEF DeviceType
<1>8. \A a \in Addr : Current(a)' = IF StoresTo(t, a) THEN t.data ELSE Current(a)
  BY <1>1, <1>2, <1>6, <1>7 DEF Current, StoresTo, memVars
<1>9. \A a : (Good(a)' <=> Good(a)) /\ ~Changing(a) /\ ~Changing(a)'
  BY <1>2, <1>3 DEF Good, within_error_region, Changing
<1>10. CacheOK'
  <2> SUFFICES ASSUME NEW a \in Addr, cache'[a] # None
               PROVE  Good(a) /\ cache'[a] = Current(a)'
    BY <1>9 DEF CacheOK
  <2>1. cache[a] # None
    BY <1>1 DEF DeviceType
  <2>2. cache'[a] = IF a = t.addr THEN t.data ELSE cache[a]
    BY <1>1, <2>1 DEF DeviceType
  <2>3. StoresTo(t, a) <=> a = t.addr
    BY <1>1 DEF StoresTo
  <2> QED
    BY <1>8, <1>9, <2>1, <2>2, <2>3 DEF CacheOK
<1>11. RamOK' /\ EntriesOK'
  BY <1>1, <1>2, <1>3, <1>4, <1>8, DataRemoved
<1>12. ReadsData'
  BY <1>2, <1>3, QuietReadsData DEF memVars
<1>13. WritesData'
  <2>1. \A a \in Addr : wbuf[a] # None /\ wbuf[a].sent => wbuf'[a].data = wbuf[a].data
    BY <1>1, <1>7
  <2> QED
    BY <1>2, <1>3, <2>1, QuietWritesData DEF memVars
<1>14. ScData'
  BY <1>2, <1>3 DEF ScData
<1> QED
  BY <1>4, <1>10, <1>11, <1>12, <1>13, <1>14

LEMMA MissData ==
    ASSUME TbBase, InOrder, VerdictOK, DutMiss, UNCHANGED kind
    PROVE  VerdictOK'
<1>1. UNCHANGED <<kind, dutQ, cache, wbuf, uc, mem, inflight, ram, nbResp, nbNeedRsp,
                  sbErrors, scIsAtomic, rdFifo, rdResp, wdFifo, wdReq, wrFifo, wrResp,
                  wrOp, waReq, waFifo>>
  BY DEF DutMiss, sbVars
<1>2. UcWrites' <=> UcWrites
  BY <1>1 DEF UcWrites, Holds, Has, Elems
<1> QED
  BY <1>1, <1>2, VerdictFrame

LEMMA DrainData ==
    ASSUME TbBase, InOrder, VerdictOK, DutDrain, UNCHANGED kind
    PROVE  VerdictOK'
<1> USE DEF TbBase, TbTypeOK, InOrder, VerdictOK
<1>1. PICK a \in Addr :
         /\ wbuf[a] # None /\ ~wbuf[a].sent
         /\ wdReq = None /\ wdReq' = [of |-> a, data |-> wbuf[a].data]
         /\ wbuf' = [wbuf EXCEPT ![a].sent = TRUE]
  BY DEF DutDrain, DutWrite
<1>2. UNCHANGED <<dutQ, cache, uc, mem, inflight, ram, nbResp, nbNeedRsp, sbErrors,
                  rdFifo, rdResp, wdFifo, wrFifo, wrResp, wrOp>>
  BY DEF DutDrain, DutWrite, sbVars
<1>3. ~uc.busy
  BY <1>1 DEF DeviceOK
<1>4. ASSUME NEW x \in Addr
      PROVE  (wbuf'[x] # None <=> wbuf[x] # None) /\ (wbuf[x] # None => wbuf'[x].data = wbuf[x].data)
  <2>1. CASE x = a
    <3>1. wbuf[a] \in WbufEntry
      BY <1>1 DEF DeviceType
    <3>2. wbuf'[x] = [wbuf[a] EXCEPT !.sent = TRUE]
      BY <1>1, <2>1 DEF DeviceType
    <3>3. wbuf'[x] \in WbufEntry /\ wbuf'[x].data = wbuf[a].data
      BY <3>1, <3>2 DEF WbufEntry
    <3> QED
      BY <1>1, <2>1, <3>3, TbNoneAssumption
  <2>2. CASE x # a
    BY <1>1, <2>2 DEF DeviceType
  <2> QED
    BY <2>1, <2>2
<1>5. \A x : (Good(x)' <=> Good(x)) /\ ~Changing(x) /\ ~Changing(x)'
  BY <1>2, <1>3 DEF Good, within_error_region, Changing
<1>6. \A x \in Addr : Current(x)' = Current(x)
  BY <1>2, <1>4 DEF Current
<1>7. CacheOK' /\ RamOK' /\ EntriesOK'
  BY <1>2, <1>5, <1>6, WordsKept
<1>8. ReadsData'
  BY <1>2, <1>3, QuietReadsData
<1>9. WritesData'
  <2>1. \A d : Beat(d) /\ BeatOK(d) => BeatOK(d)'
    <3> SUFFICES ASSUME NEW d, Beat(d), BeatOK(d)
                 PROVE  BeatOK(d)'
      OBVIOUS
    <3>1. d.of # UcId /\ wbuf[d.of] # None
      BY <1>3, BeatsAreSent
    <3>2. d \in WriteBeat
      BY SeqIsSeq DEF Beat, MemoryType
    <3>3. d.of \in Addr
      BY <3>1, <3>2, Identifiers DEF WriteBeat
    <3> QED
      BY <1>4, <3>1, <3>3 DEF BeatOK
  <2>2. \A r : WriteResponseOK(r) /\ Written(r) => Written(r)'
    <3> SUFFICES ASSUME NEW r, WriteResponseOK(r), Written(r)
                 PROVE  Written(r)'
      OBVIOUS
    <3>1. r.id \in Addr /\ wbuf[r.id] # None
      BY <1>3, Identifiers DEF WriteResponseOK
    <3> QED
      BY <1>2, <1>4, <1>5, <3>1 DEF Written
  <2>3. \A d \in Elems(wdFifo') : BeatOK(d)'
    BY <1>2, <2>1 DEF WritesData, Beat
  <2>4. BeatOK(wdReq)'
    BY <1>1, <1>4, Identifiers DEF BeatOK
  <2> QED
    BY <1>2, <2>2, <2>3, <2>4 DEF WritesData, WritesOK, AcksOK
<1>10. ScData'
  BY <1>2, <1>3 DEF ScData
<1>11. CountOK' /\ sbErrors' = <<>>
  BY <1>2 DEF CountOK
<1> QED
  BY <1>7, <1>8, <1>9, <1>10, <1>11

LEMMA UcReadData ==
    ASSUME TbBase, InOrder, VerdictOK, DutUcRead, UNCHANGED kind
    PROVE  VerdictOK'
<1> USE DEF TbBase, TbTypeOK, InOrder, VerdictOK
<1>1. /\ rdResp # None /\ rdResp.id = UcId /\ rdResp' = None
      /\ uc' = [uc EXCEPT !.rd = rdResp]
  BY DEF DutUcRead
<1>2. UNCHANGED <<dutQ, cache, wbuf, mem, inflight, ram, nbResp, nbNeedRsp, sbErrors,
                  scIsAtomic, rdFifo, wdFifo, wdReq, wrFifo, wrResp, wrOp, waReq, waFifo>>
  BY DEF DutUcRead, sbVars
<1>3. uc'.busy = uc.busy /\ uc'.rd = rdResp /\ uc'.wr = uc.wr
  BY <1>1 DEF DeviceType
<1>4. UcWrites' <=> UcWrites
  BY <1>2 DEF UcWrites, Holds, Has, Elems
<1>5. CacheOK' /\ RamOK' /\ EntriesOK'
  BY <1>2, <1>3, <1>4, WordsFrame
<1>6. ReadsData'
  <2>1. AtomicReadOK(rdResp.data)
    BY <1>1 DEF ReadsData, ReadDataOK
  <2> QED
    BY <1>1, <1>2, <1>3, <1>4, <2>1, DataFrame DEF ReadsData
<1>7. WritesData'
  BY <1>2, <1>3, <1>4, DataFrame DEF WritesData
<1>8. ScData'
  BY <1>2, <1>3, <1>4 DEF ScData, Holds
<1>9. CountOK' /\ sbErrors' = <<>>
  BY <1>2 DEF CountOK
<1> QED
  BY <1>5, <1>6, <1>7, <1>8, <1>9

LEMMA AtomicAckData ==
    ASSUME TbBase, InOrder, VerdictOK, DutWriteAck, UNCHANGED kind, wrResp.id = UcId
    PROVE  VerdictOK'
<1> USE DEF TbBase, TbTypeOK, InOrder, VerdictOK
<1>1. wrResp # None /\ wrResp' = None /\ uc' = [uc EXCEPT !.wr = wrResp]
  BY DEF DutWriteAck
<1>2. UNCHANGED <<dutQ, cache, wbuf, mem, inflight, ram, nbResp, nbNeedRsp, sbErrors,
                  scIsAtomic, rdFifo, rdResp, wdFifo, wdReq, wrFifo, wrOp, waReq, waFifo>>
  BY DEF DutWriteAck, sbVars
<1>3. uc'.busy = uc.busy /\ uc'.rd = uc.rd /\ uc'.wr = wrResp
  BY <1>1 DEF DeviceType
<1>4. UcWrites' <=> UcWrites
  BY <1>2 DEF UcWrites, Holds, Has, Elems
<1>5. CacheOK' /\ RamOK' /\ EntriesOK'
  BY <1>2, <1>3, <1>4, WordsFrame
<1>6. ReadsData'
  BY <1>2, <1>3, <1>4, DataFrame DEF ReadsData
<1>7. WritesData'
  BY <1>1, <1>2, <1>3, <1>4, DataFrame DEF WritesData
<1>8. ScData'
  BY <1>1, <1>2, <1>3, <1>4 DEF ScData, Holds
<1>9. CountOK' /\ sbErrors' = <<>>
  BY <1>2 DEF CountOK
<1> QED
  BY <1>5, <1>6, <1>7, <1>8, <1>9

\* The write buffer lets a word go that the memory has written.
LEMMA PlainAckData ==
    ASSUME TbBase, InOrder, VerdictOK, DutWriteAck, UNCHANGED kind, wrResp.id # UcId
    PROVE  VerdictOK'
<1> USE DEF TbBase, TbTypeOK, InOrder, VerdictOK
<1>1. wrResp # None /\ wrResp' = None /\ wbuf' = [wbuf EXCEPT ![wrResp.id] = None]
  BY DEF DutWriteAck
<1>2. UNCHANGED <<dutQ, cache, uc, mem, inflight, ram, nbResp, nbNeedRsp, sbErrors,
                  rdFifo, rdResp, wdFifo, wdReq, wrFifo, wrOp>>
  BY DEF DutWriteAck, sbVars
<1>3. /\ wrResp.id \in Addr /\ wbuf[wrResp.id] # None /\ inflightWr[wrResp.id] = None
      /\ Good(wrResp.id) => mem[wrResp.id] = wbuf[wrResp.id].data
  BY <1>1, Identifiers DEF WritesOK, WriteResponseOK, WritesData, Written
<1>4. ~uc.busy
  BY <1>3 DEF DeviceOK
<1>5. \A x \in Addr : wbuf'[x] = IF x = wrResp.id THEN None ELSE wbuf[x]
  BY <1>1 DEF DeviceType
<1>6. \A x : (Good(x)' <=> Good(x)) /\ ~Changing(x) /\ ~Changing(x)'
  BY <1>2, <1>4 DEF Good, within_error_region, Changing
<1>7. \A x \in Addr : Good(x) => Current(x)' = Current(x)
  BY <1>2, <1>3, <1>5 DEF Current
<1>8. CacheOK' /\ RamOK' /\ EntriesOK'
  BY <1>2, <1>6, <1>7, WordsKept
<1>9. ReadsData'
  BY <1>2, <1>4, QuietReadsData
<1>10. WritesData'
  <2>1. ASSUME NEW d, Beat(d), BeatOK(d)
        PROVE  BeatOK(d)'
    <3>1. d.of # UcId /\ ~Holds(wrResp, d.of)
      BY <1>4, <2>1, BeatsAreSent
    <3>2. d \in WriteBeat
      BY <2>1, SeqIsSeq DEF Beat, MemoryType
    <3>3. d.of \in Addr /\ d.of # wrResp.id
      BY <1>1, <3>1, <3>2, Identifiers DEF WriteBeat, Holds
    <3> QED
      BY <1>5, <2>1, <3>1, <3>3 DEF BeatOK
  <2>2. ASSUME NEW r, WriteResponseOK(r), inflightWr[r.id] = AddrOf(r.id), Written(r)
        PROVE  Written(r)'
    <3>1. r.id \in Addr
      BY <1>4, <2>2, Identifiers DEF WriteResponseOK
    <3>2. r.id # wrResp.id
      BY <1>3, <2>2, AddrIsKnown
    <3> QED
      BY <1>2, <1>5, <1>6, <2>2, <3>1, <3>2 DEF Written
  <2>3. /\ \A d \in Elems(wdFifo') : BeatOK(d)'
        /\ wdReq' # None => BeatOK(wdReq)'
    BY <1>2, <2>1 DEF WritesData, Beat, BeatOK
  <2> QED
    BY <1>1, <1>2, <2>2, <2>3 DEF WritesData, WritesOK, AcksOK
<1>11. ScData'
  BY <1>2, <1>4 DEF ScData
<1>12. CountOK' /\ sbErrors' = <<>>
  BY <1>2 DEF CountOK
<1> QED
  BY <1>8, <1>9, <1>10, <1>11, <1>12

LEMMA UcSendData ==
    ASSUME TbBase, InOrder, VerdictOK, DutUcSend, UNCHANGED kind
    PROVE  VerdictOK'
<1> USE DEF TbBase, TbTypeOK, InOrder, VerdictOK
<1> SUFFICES ASSUME NEW t, t = dutQ[1]
             PROVE  VerdictOK'
  OBVIOUS
<1>1. /\ Len(dutQ) = 1 /\ IsRmw(t.op) /\ Quiet /\ ~uc.busy
      /\ uc' = [UcIdle EXCEPT !.busy = TRUE]
      /\ UNCHANGED <<dutQ, cache, wbuf, mem, inflight, ram, nbResp, nbNeedRsp, sbErrors,
                     rdFifo, rdResp, wdFifo, wrOp, wrFifo, wrResp>>
  BY DEF DutUcSend, Ready, DutWrite, sbVars
<1>2. \/ t.op = "LR" /\ wdReq' = wdReq
      \/ /\ t.op # "LR" /\ waReq' # None /\ waReq'.id = UcId
         /\ wdReq' = [of |-> UcId, data |-> MemDataOf(t.op, t.data)]
  <2>1. t.addr \in Addr
    BY <1>1, OnlyRequest
  <2>2. CASE t.op = "LR"
    <3>1. t.op # "SC" /\ t.op \notin AmoOps
      BY <2>2 DEF AmoOps
    <3> QED
      BY <2>2, <3>1 DEF DutUcSend
  <2>3. CASE t.op = "SC"
    <3>1. t.op # "LR" /\ t.op \notin AmoOps
      BY <2>3 DEF AmoOps
    <3>2. DutWrite([id |-> UcId, addr |-> t.addr, cmd |-> "STEX"], t.data)
      BY <3>1 DEF DutUcSend
    <3>3. [id |-> UcId, addr |-> t.addr, cmd |-> "STEX"] \in WriteRequest
      BY <2>1, Identifiers DEF WriteRequest, MemAtomics
    <3>4. MemDataOf(t.op, t.data) = t.data
      BY <2>3 DEF MemDataOf
    <3> QED
      BY <3>1, <3>2, <3>3, <3>4, ChannelAssumption DEF DutWrite
  <2>4. CASE t.op \in AmoOps
    <3>1. t.op # "LR" /\ t.op # "SC"
      BY <2>4 DEF AmoOps
    <3>2. DutWrite([id |-> UcId, addr |-> t.addr, cmd |-> MemAtomicOf[t.op]],
                   MemDataOf(t.op, t.data))
      BY <3>1 DEF DutUcSend
    <3>3. [id |-> UcId, addr |-> t.addr, cmd |-> MemAtomicOf[t.op]] \in WriteRequest
      BY <2>1, <2>4, Identifiers, AtomicCommands DEF WriteRequest
    <3> QED
      BY <3>1, <3>2, <3>3, ChannelAssumption DEF DutWrite
  <2> QED
    BY <1>1, <2>2, <2>3, <2>4 DEF IsRmw
<1>3. uc'.busy /\ uc'.rd = None /\ uc'.wr = None
  BY <1>1 DEF UcIdle
<1>4. /\ rdResp = None /\ Elems(rdFifo) = {} /\ wrResp = None /\ wrOp = <<>>
      /\ Elems(wrFifo) = {} /\ Elems(waFifo) = {} /\ waReq = None
  BY <1>1, QuietIsEmpty
<1>5. \A d : ~Beat(d)
  BY <1>4, BeatsHaveRequests
<1>6. t.op # "LR" => UcWrites'
  BY <1>2 DEF UcWrites, Holds
<1>7. \A a : Current(a)' = Current(a) /\ ~Changing(a) /\ ~Changing(a)'
  BY <1>1, <1>6 DEF Current, Changing
<1>8. CacheOK' /\ RamOK' /\ EntriesOK'
  BY <1>1, <1>7, WordsKept
<1>9. ReadsData'
  BY <1>1, <1>3, <1>4 DEF ReadsData
<1>10. WritesData'
  <2>1. Elems(wdFifo') = {} /\ Elems(wrFifo') = {} /\ wrResp' = None /\ wrOp' = <<>>
    BY <1>1, <1>4, <1>5 DEF Beat
  <2>2. wdReq' # None => BeatOK(wdReq)'
    BY <1>1, <1>2, <1>5 DEF BeatOK, Beat
  <2> QED
    BY <2>1, <2>2 DEF WritesData
<1>11. ScData'
  <2>1. t.op = "SC" => t.op # "LR"
    OBVIOUS
  <2> QED
    BY <1>1, <1>3, <1>4, <1>6, <2>1 DEF ScData, Holds
<1>12. CountOK' /\ sbErrors' = <<>>
  BY <1>1 DEF CountOK
<1> QED
  BY <1>8, <1>9, <1>10, <1>11, <1>12

\* The last request of the device was performed, with nothing pending.
LEMMA EmptiedData ==
    ASSUME TbBase, InOrder, dutQ' = <<>>, ~uc'.busy, uc'.rd = None,
           rdResp = None, Elems(rdFifo) = {}, wrResp = None, wrOp = <<>>,
           Elems(wrFifo) = {}, Elems(waFifo) = {}, waReq = None,
           UNCHANGED <<memVars>>,
           \A a \in Addr : Good(a)' /\ ram'[a] # None => Current(a)' = ram'[a],
           \A a \in Addr : cache'[a] # None => Good(a)' /\ cache'[a] = Current(a)',
           CountOK', sbErrors' = <<>>
    PROVE  VerdictOK'
<1>1. \A d : ~Beat(d)
  BY BeatsHaveRequests
<1>2. Len(dutQ') = 0
  OBVIOUS
<1>3. CacheOK'
  BY DEF CacheOK
<1>4. RamOK'
  <2>1. \A a \in Addr : Good(a)' /\ ram'[a] # None =>
           FindsAt(dutQ', Len(dutQ') + 1, a, Current(a)', ram'[a])
    BY <1>2, FindsFirst
  <2>2. \A i \in 1 .. Len(dutQ') : FALSE
    BY <1>2
  <2> QED
    BY <2>1, <2>2 DEF RamOK
<1>5. EntriesOK'
  BY <1>2 DEF EntriesOK
<1>6. ReadsData'
  BY DEF ReadsData, memVars
<1>7. WritesData'
  BY <1>1 DEF WritesData, memVars, Beat
<1>8. ScData'
  BY DEF ScData
<1> QED
  BY <1>3, <1>4, <1>5, <1>6, <1>7, <1>8 DEF VerdictOK

LEMMA ScFailData ==
    ASSUME TbBase, InOrder, VerdictOK, DutScFail, UNCHANGED kind, bug' = None
    PROVE  VerdictOK'
<1> USE DEF TbBase, TbTypeOK, InOrder, VerdictOK
<1>1. /\ Ready("SC") /\ ~uc.busy /\ rsv # dutQ[1].addr /\ dutQ' = <<>>
      /\ Answer(dutQ[1], 1, FALSE)
  BY Zenon DEF DutScFail
<1>2. UNCHANGED <<cache, wbuf, uc, memVars>>
  BY DEF DutScFail
<1>3. Len(dutQ) = 1 /\ dutQ[1].op = "SC" /\ Quiet
  BY <1>1 DEF Ready
<1>4. 1 \in 1 .. Len(dutQ)
  BY <1>3
<1>5. dutQ[1].needRsp
  BY <1>3, OnlyRequest DEF Drawn, IsRmw
<1>6. Expected(dutQ[1], 1, FALSE) /\ ~ScOk(inflight[dutQ[1].tid])
  BY <1>1, <1>5, ScFailExpected
<1>7. CountOK' /\ sbErrors' = <<>> /\ ram' = ram
  <2>1. Right(dutQ[1], 1, FALSE)
    BY <1>1, AnswerEffect
  <2> QED
    BY <1>3, <1>4, <1>6, <2>1, RightAnswer
<1>8. \A a : /\ Current(a)' = Current(a) /\ (Good(a)' <=> Good(a))
             /\ ~Changing(a) /\ ~StoresTo(dutQ[1], a)
  BY <1>1, <1>2, <1>3 DEF Current, Good, within_error_region, Changing, StoresTo, memVars
<1>9. \A a \in Addr : Good(a) /\ ram[a] # None => Current(a) = ram[a]
  <2>1. Len(dutQ) + 1 = 2
    BY <1>3
  <2> QED
    BY <1>8, <2>1, FindsFirst DEF RamOK
<1>10. uc'.rd = None
  BY <1>1, <1>2 DEF DeviceOK
<1>11. \A a \in Addr : cache'[a] # None => Good(a)' /\ cache'[a] = Current(a)'
  BY <1>2, <1>8 DEF CacheOK
<1>12. /\ rdResp = None /\ Elems(rdFifo) = {} /\ wrResp = None /\ wrOp = <<>>
       /\ Elems(wrFifo) = {} /\ Elems(waFifo) = {} /\ waReq = None
  BY <1>1, <1>3, QuietIsEmpty
<1> QED
  BY <1>1, <1>2, <1>7, <1>8, <1>9, <1>10, <1>11, <1>12, EmptiedData

LEMMA CmoData ==
    ASSUME TbBase, InOrder, VerdictOK, DutCmo, UNCHANGED kind, bug' = None
    PROVE  VerdictOK'
<1> USE DEF TbBase, TbTypeOK, InOrder, VerdictOK
<1>1. Answer(dutQ[1], 0, FALSE) /\ dutQ' = <<>>
  BY Zenon DEF DutCmo
<1>2. /\ UNCHANGED <<wbuf, uc, memVars>>
      /\ cache' = IF dutQ[1].op = "CMO_FENCE" THEN cache ELSE [a \in Addr |-> None]
  BY DEF DutCmo
<1>3. Len(dutQ) = 1 /\ dutQ[1].op \in CmoOps \ {"CMO_PREFETCH"} /\ Quiet
  BY DEF DutCmo, Ready
<1>4. 1 \in 1 .. Len(dutQ)
  BY <1>3
<1>5. ~uc.busy
  <2>1. ~IsRmw(dutQ[1].op)
    BY <1>3 DEF CmoOps, IsRmw, AmoOps
  <2> QED
    BY <1>4, <2>1, NotBusy
<1>6. dutQ[1].op # "STORE" /\ dutQ[1].op \notin AmoOps \cup {"SC"}
  BY <1>3 DEF CmoOps, AmoOps
<1>7. CountOK' /\ sbErrors' = <<>> /\ ram' = ram
  <2>1. Expected(dutQ[1], 0, FALSE)
    BY <1>3, <1>4, CmoExpected
  <2> QED
    BY <1>1, <1>4, <1>6, <2>1, RightLeaves
<1>8. \A a : /\ Current(a)' = Current(a) /\ (Good(a)' <=> Good(a))
             /\ ~Changing(a) /\ ~StoresTo(dutQ[1], a)
  BY <1>2, <1>5, <1>6 DEF Current, Good, within_error_region, Changing, StoresTo, memVars
<1>9. \A a \in Addr : Good(a) /\ ram[a] # None => Current(a) = ram[a]
  <2>1. Len(dutQ) + 1 = 2
    BY <1>3
  <2> QED
    BY <1>8, <2>1, FindsFirst DEF RamOK
<1>10. uc'.rd = None /\ ~uc'.busy
  BY <1>2, <1>5 DEF DeviceOK
<1>11. \A a \in Addr : cache'[a] # None => Good(a)' /\ cache'[a] = Current(a)'
  BY <1>2, <1>8 DEF CacheOK
<1>12. /\ rdResp = None /\ Elems(rdFifo) = {} /\ wrResp = None /\ wrOp = <<>>
       /\ Elems(wrFifo) = {} /\ Elems(waFifo) = {} /\ waReq = None
  BY <1>3, <1>5, QuietIsEmpty
<1> QED
  BY <1>1, <1>2, <1>7, <1>8, <1>9, <1>10, <1>11, <1>12, EmptiedData

LEMMA UcDoneData ==
    ASSUME TbBase, InOrder, VerdictOK, DutUcDone, UNCHANGED kind, bug' = None
    PROVE  VerdictOK'
<1> USE DEF TbBase, TbTypeOK, InOrder, VerdictOK
<1> SUFFICES ASSUME NEW t, t = dutQ[1], NEW e, e = inflight[t.tid], NEW a, a = t.addr
             PROVE  VerdictOK'
  OBVIOUS
<1>1. /\ uc.busy /\ uc' = UcIdle /\ dutQ' = <<>> /\ UNCHANGED <<wbuf, memVars>>
      /\ t.op = "SC" \/ uc.rd # None
  BY DEF DutUcDone
<1>2. /\ Len(dutQ) = 1 /\ t.needRsp /\ IsRmw(t.op) /\ a \in Addr
      /\ \A b \in Addr : wbuf[b] = None
  BY <1>1, BusyFacts DEF DeviceOK
<1>3. 1 \in 1 .. Len(dutQ)
  BY <1>2
<1>4. /\ UcError <=> within_error_region(a)
      /\ t.op = "SC" => ~UcError /\ uc.wr.atomic /\ ScOk(e) /\ mem[a] = t.data
      /\ t.op # "SC" => (e.error <=> UcError) /\ AtomicReadOK(uc.rd.data)
  BY DoneFacts
<1> SUFFICES ASSUME NEW data,
                    data = IF t.op = "SC"
                           THEN (IF t.op = "SC" /\ uc.wr.atomic /\ ~UcError THEN 0 ELSE 1)
                           ELSE uc.rd.data
             PROVE  VerdictOK'
  OBVIOUS
<1>5. Right(t, data, UcError)
  <2>1. Answer(t, data, UcError)
    BY Zenon DEF DutUcDone, UcError
  <2> QED
    BY <2>1, AnswerEffect
<1>6. Expected(t, data, UcError)
  BY DoneExpected
<1>7. /\ CountOK' /\ sbErrors' = <<>>
      /\ t.op = "LR" => ram' = ram
      /\ t.op = "SC" => ram' = [ram EXCEPT ![a] = t.data]
      /\ t.op \in AmoOps =>
            ram' = IF UcError THEN ram
                   ELSE [ram EXCEPT ![a] = ComputeAmo(t.op, uc.rd.data, t.data, FALSE)]
  <2>1. /\ CountOK' /\ sbErrors' = <<>>
        /\ t.op \notin AmoOps \cup {"SC"} => ram' = ram
        /\ t.op = "SC" => ram' = IF ScOk(e) THEN [ram EXCEPT ![a] = t.data] ELSE ram
        /\ t.op \in AmoOps =>
              ram' = IF e.error THEN ram
                     ELSE [ram EXCEPT ![a] = ComputeAmo(t.op, data, t.data, FALSE)]
    BY <1>3, <1>5, <1>6, RightAnswer
  <2>2. "SC" \notin AmoOps /\ "LR" \notin AmoOps
    BY DEF AmoOps
  <2> QED
    BY <1>4, <2>1, <2>2
<1>8. \A b : Good(b)' <=> Good(b)
  BY DEF Good, within_error_region
<1>9. \A b \in Addr : Current(b)' = mem[b] /\ Current(b) = mem[b]
  BY <1>1, <1>2 DEF Current, memVars
<1>10. /\ t.op = "LR" /\ Good(a) => uc.rd.data = mem[a]
       /\ t.op \in AmoOps /\ Good(a) => mem[a] = ComputeAmo(t.op, uc.rd.data, t.data, FALSE)
  <2>1. "SC" \notin AmoOps
    BY DEF AmoOps
  <2> QED
    BY <1>4, <2>1 DEF AtomicReadOK
<1>11. ASSUME NEW b \in Addr, Good(b), ram'[b] # None
       PROVE  mem[b] = ram'[b]
  <2>1. CASE b # a \/ t.op = "LR"
    <3>1. ram'[b] = ram[b]
      BY <1>2, <1>7, <2>1 DEF BoardType, IsRmw
    <3>2. ~Changing(b)
      BY <2>1 DEF Changing
    <3>3. ~StoresTo(t, b)
      BY <1>2 DEF StoresTo, IsRmw, AmoOps
    <3>4. Len(dutQ) + 1 = 2
      BY <1>2
    <3>5. FindsAt(dutQ, 2, b, Current(b), ram[b])
      BY <1>11, <3>1, <3>2, <3>4 DEF RamOK
    <3> QED
      BY <1>9, <3>1, <3>3, <3>5, FindsFirst
  <2>2. CASE b = a /\ t.op = "SC"
    BY <1>4, <1>7, <2>2 DEF BoardType
  <2>3. CASE b = a /\ t.op \in AmoOps
    <3>1. ~UcError
      BY <1>4, <1>11, <2>3 DEF Good
    <3> QED
      BY <1>7, <1>10, <1>11, <2>3, <3>1 DEF BoardType
  <2> QED
    BY <1>2, <2>1, <2>2, <2>3 DEF IsRmw
<1>12. /\ ~Good(a) => cache' = cache
       /\ Good(a) => cache' \in {cache, [cache EXCEPT ![a] = mem[a]]}
       /\ Good(a) /\ cache[a] # None => cache'[a] = mem[a]
  <2>0. cache' = IF \/ cache[a] = None \/ UcError
                    \/ (t.op = "SC" /\ ~(t.op = "SC" /\ uc.wr.atomic /\ ~UcError))
                 THEN cache
                 ELSE [cache EXCEPT ![a] = IF t.op = "SC" THEN t.data
                                           ELSE IF t.op = "LR" THEN uc.rd.data
                                           ELSE ComputeAmo(t.op, uc.rd.data, t.data, FALSE)]
    BY Zenon DEF DutUcDone, UcError
  <2>1. ~Good(a) => UcError
    BY <1>4 DEF Good
  <2>2. Good(a) => ~UcError
    BY <1>4 DEF Good
  <2>3. CASE ~Good(a)
    BY <2>0, <2>1, <2>3
  <2>4. CASE Good(a)
    <3>1. mem[a] = IF t.op = "SC" THEN t.data
                   ELSE IF t.op = "LR" THEN uc.rd.data
                   ELSE ComputeAmo(t.op, uc.rd.data, t.data, FALSE)
      BY <1>2, <1>4, <1>10, <2>4 DEF IsRmw
    <3>2. cache' = IF cache[a] = None THEN cache ELSE [cache EXCEPT ![a] = mem[a]]
      BY <1>4, <2>0, <2>2, <2>4, <3>1
    <3> QED
      BY <1>2, <2>4, <3>2 DEF DeviceType
  <2> QED
    BY <2>3, <2>4
<1>13. ASSUME NEW b \in Addr, cache'[b] # None
       PROVE  Good(b) /\ cache'[b] = mem[b]
  <2>1. CASE b # a
    <3>1. cache'[b] = cache[b] /\ ~Changing(b)
      BY <1>12, <2>1 DEF Changing, DeviceType
    <3> QED
      BY <1>9, <1>13, <3>1 DEF CacheOK
  <2>2. CASE b = a /\ cache[a] # None
    <3>1. Good(a)
      BY <1>2, <2>2 DEF CacheOK
    <3> QED
      BY <1>12, <2>2, <3>1
  <2>3. CASE b = a /\ cache[a] = None
    <3>1. cache' = cache \/ Good(a)
      BY <1>12
    <3>2. Good(a) /\ cache' # cache
      BY <1>13, <2>3, <3>1
    <3>3. cache'[a] = mem[a]
      BY <1>2, <1>12, <3>2 DEF DeviceType
    <3> QED
      BY <2>3, <3>2, <3>3
  <2> QED
    BY <2>1, <2>2, <2>3
<1>14. uc'.rd = None /\ ~uc'.busy
  BY <1>1 DEF UcIdle
<1>15. /\ rdResp = None /\ Elems(rdFifo) = {} /\ wrResp = None /\ wrOp = <<>>
       /\ Elems(wrFifo) = {} /\ Elems(waFifo) = {} /\ waReq = None
  BY DoneIsEmpty
<1> QED
  BY <1>1, <1>7, <1>8, <1>9, <1>11, <1>13, <1>14, <1>15, EmptiedData

-----------------------------------------------------------------------------
(* The driver hands a request to the device and to the scoreboard.           *)

\* None is no word.
LEMMA WordsAreKnown == None \notin Data \cup {0}
<1>1. PICK d : d \in Data
  BY SeqAssumption
<1>2. 2 ^ W \in Int /\ d \in 0 .. 2 ^ W - 1
  BY <1>1, WordFacts, SeqAssumption DEF Val
<1>3. 0 \in Val
  BY <1>2 DEF Val
<1> QED
  BY <1>3, SeqAssumption, SbAssumption

\* The error flag and the word the scoreboard expects of a new request.
LEMMA NewEntry ==
    ASSUME TbBase, InOrder, NEW t, t \in Drawn, DutReady, ~FindsPhantom(t)
    PROVE  LET e == EntryOf(t) IN
           /\ e.error = EntryFlag(t)
           /\ e.rdata # None => /\ t.op \in {"LOAD", "LR"} \cup AmoOps /\ Good(t.addr)
                                /\ e.rdata = ram[t.addr]
<1> USE DEF TbBase, TbTypeOK, InOrder
<1>1. ~LastIs("LR") /\ ~LastIs("SC")
  BY ReadyFacts
<1>2. lrsc # None => ~within_error_region(lrsc)
  <2>1. lrsc \in {rsv, None}
    BY <1>1 DEF ReservationsOK, LastIs
  <2> QED
    BY <2>1 DEF ReservationsOK
<1>3. t.addr # None /\ t.addr \in Addr
  BY Identifiers DEF Drawn, Request
<1>4. EntryOf(t).error = EntryFlag(t)
  <2>1. EntryFlag(t) \in BOOLEAN /\ within_error_region(t.addr) \in BOOLEAN
    BY DEF EntryFlag, within_error_region
  <2>2. CASE t.op = "SC"
    <3>1. ~(within_error_region(t.addr) /\ lrsc = t.addr)
      BY <1>2, <1>3
    <3> QED
      BY <2>2, <3>1 DEF EntryOf, EntryFlag, AddrMatch, FindsPhantom
  <2>3. CASE t.op # "SC"
    BY <2>1, <2>3 DEF EntryOf, EntryFlag
  <2> QED
    BY <2>2, <2>3
<1>5. ASSUME EntryOf(t).rdata # None
      PROVE  /\ t.op \in {"LOAD", "LR"} \cup AmoOps /\ Good(t.addr)
             /\ EntryOf(t).rdata = ram[t.addr]
  <2>1. /\ t.op \in {"LOAD", "LR"} \cup AmoOps
        /\ ~((t.op \notin CmoOps \/ t.op = "CMO_PREFETCH") /\ within_error_region(t.addr))
        /\ EntryOf(t).rdata = ram[t.addr]
    BY <1>5 DEF EntryOf, ramRead
  <2>2. t.op \notin CmoOps
    BY <2>1 DEF AmoOps, CmoOps
  <2> QED
    BY <2>1, <2>2 DEF Good
<1> QED
  BY <1>4, <1>5

LEMMA DriveData ==
    ASSUME TbBase, InOrder, VerdictOK, drive_request, ~phantom'
    PROVE  VerdictOK'
<1> USE DEF TbBase, TbTypeOK, InOrder, VerdictOK
<1> SUFFICES ASSUME NEW t, t = drv.t, NEW e, e = EntryOf(t)
             PROVE  VerdictOK'
  OBVIOUS
<1>1. /\ DutReady /\ dutQ' = Append(dutQ, t)
      /\ UNCHANGED <<kind, memVars, cache, wbuf, uc>>
  BY DEF drive_request
<1>2. ~uc.busy
  BY <1>1, ReadyFacts
<1>3. /\ t \in Drawn /\ t.tid \notin DOMAIN inflight /\ ~FindsPhantom(t)
      /\ t.needRsp => inflight'[t.tid] = e
      /\ \A x \in DOMAIN inflight : inflight'[x] = inflight[x]
  BY AcceptedEffect
<1>4. t.addr \in Addr /\ t.data # None
  BY <1>3, WordsAreKnown DEF Drawn, Request
<1>5. /\ e.error = EntryFlag(t)
      /\ e.rdata # None => /\ t.op \in {"LOAD", "LR"} \cup AmoOps /\ Good(t.addr)
                           /\ e.rdata = ram[t.addr]
  BY <1>1, <1>3, NewEntry
<1>6. /\ sbErrors' = <<>> /\ CountOK'
      /\ t.op # "STORE" \/ e.error => ram' = ram
      /\ t.op = "STORE" /\ ~e.error => ram' = [ram EXCEPT ![t.addr] = t.data]
  BY RequestSilent
<1>7. \A a : /\ Current(a)' = Current(a) /\ (Good(a)' <=> Good(a))
             /\ ~Changing(a) /\ ~Changing(a)'
  BY <1>1, <1>2 DEF Current, Good, within_error_region, Changing, memVars
<1>8. /\ Len(dutQ) \in Nat /\ Len(dutQ') = Len(dutQ) + 1 /\ dutQ'[Len(dutQ) + 1] = t
      /\ \A k \in 1 .. Len(dutQ) : dutQ'[k] = dutQ[k]
  BY <1>1, <1>3 DEF DeviceType
<1>9. CacheOK'
  BY <1>1, <1>7 DEF CacheOK
<1>10. RamOK'
  <2> SUFFICES ASSUME NEW a \in Addr, Good(a)
               PROVE  /\ ram'[a] # None =>
                            FindsAt(dutQ', Len(dutQ) + 2, a, Current(a), ram'[a])
                      /\ (\E k \in 1 .. Len(dutQ') : StoresTo(dutQ'[k], a)) => ram'[a] # None
    <3>1. \A a, k : StoresTo(dutQ[k], a)' <=> StoresTo(dutQ'[k], a)
      BY DEF StoresTo
    <3>2. Len(dutQ') + 1 = Len(dutQ) + 2
      BY <1>8
    <3> QED
      BY <1>7, <3>1, <3>2 DEF RamOK
  <2>1. CASE StoresTo(t, a)
    <3>1. ~e.error
      BY <1>5, <2>1 DEF EntryFlag, StoresTo, Good
    <3>2. ram'[a] = t.data
      BY <1>6, <2>1, <3>1 DEF StoresTo, BoardType
    <3> QED
      BY <1>1, <1>3, <1>4, <2>1, <3>2, FindsAppended DEF DeviceType
  <2>2. CASE ~StoresTo(t, a)
    <3>1. ram'[a] = ram[a]
      <4>1. CASE t.op # "STORE" \/ e.error
        BY <1>6, <4>1
      <4>2. CASE t.op = "STORE" /\ ~e.error
        BY <1>6, <2>2, <4>2 DEF StoresTo, BoardType
      <4> QED
        BY <4>1, <4>2
    <3>2. ram[a] # None => FindsAt(dutQ, Len(dutQ) + 1, a, Current(a), ram[a])
      BY <1>7 DEF RamOK
    <3>3. ASSUME NEW k \in 1 .. Len(dutQ'), StoresTo(dutQ'[k], a)
          PROVE  ram[a] # None
      <4>1. k \in 1 .. Len(dutQ) \/ k = Len(dutQ) + 1
        BY <1>8
      <4>2. k \in 1 .. Len(dutQ) /\ StoresTo(dutQ[k], a)
        BY <1>8, <2>2, <3>3, <4>1
      <4> QED
        BY <4>2 DEF RamOK
    <3>4. ram[a] # None => FindsAt(dutQ', Len(dutQ) + 2, a, Current(a), ram[a])
      BY <1>1, <1>3, <2>2, <3>2, FindsAppended DEF DeviceType
    <3> QED
      BY <3>1, <3>3, <3>4
  <2> QED
    BY <2>1, <2>2
<1>11. EntriesOK'
  <2> SUFFICES ASSUME NEW j \in 1 .. Len(dutQ'), NEW u, u = dutQ'[j], u.needRsp,
                      NEW x, x = inflight'[u.tid]
               PROVE  /\ x.error = EntryFlag(u)'
                      /\ x.rdata # None =>
                            /\ u.op \in {"LOAD", "LR"} \cup AmoOps /\ Good(u.addr)'
                            /\ FindsAt(dutQ', j, u.addr, Current(u.addr)', x.rdata)
    BY EntriesNext
  <2>0. EntryFlag(u)' = EntryFlag(u)
    BY <1>1 DEF EntryFlag, within_error_region
  <2>1. j \in 1 .. Len(dutQ) + 1
    BY <1>8
  <2>2. \A a, c, v : FindsAt(dutQ', j, a, c, v) <=> FindsAt(dutQ, j, a, c, v)
    BY <1>1, <1>3, <2>1, FindsAppended DEF DeviceType
  <2>3. CASE j = Len(dutQ) + 1
    <3>1. u = t /\ x = e
      BY <1>3, <1>8, <2>3
    <3>2. ASSUME x.rdata # None
          PROVE  FindsAt(dutQ, j, u.addr, Current(u.addr), x.rdata)
      BY <1>4, <1>5, <1>7, <2>3, <3>1, <3>2 DEF RamOK
    <3> QED
      BY <1>5, <1>7, <2>0, <2>2, <3>1, <3>2
  <2>4. CASE j \in 1 .. Len(dutQ)
    <3>1. u = dutQ[j] /\ u.tid \in DOMAIN inflight
      BY <1>8, <2>4 DEF QueueOK
    <3>2. x = inflight[u.tid]
      BY <1>3, <3>1
    <3>3. /\ x.error = EntryFlag(u)
          /\ x.rdata # None =>
                /\ u.op \in {"LOAD", "LR"} \cup AmoOps /\ Good(u.addr)
                /\ FindsAt(dutQ, j, u.addr, Current(u.addr), x.rdata)
      BY <1>7, <2>4, <3>1, <3>2 DEF EntriesOK, EntryFlag
    <3> QED
      BY <1>7, <2>0, <2>2, <3>3
  <2> QED
    BY <1>8, <2>1, <2>3, <2>4
<1>12. ReadsData'
  BY <1>1, <1>2, QuietReadsData DEF memVars
<1>13. WritesData'
  BY <1>1, <1>2, QuietWritesData DEF memVars
<1>14. ScData'
  BY <1>1, <1>2 DEF ScData
<1> QED
  BY <1>6, <1>9, <1>10, <1>11, <1>12, <1>13, <1>14

-----------------------------------------------------------------------------
(* The verdict.                                                              *)

\* A right step keeps the words the scoreboard knows right.
LEMMA DataStep ==
    ASSUME TbBase, InOrder, VerdictOK, Next, bug' = None, Sound'
    PROVE  VerdictOK'
<1> USE DEF Sound
<1>1. CASE Simulate \/ SeqStep \/ DriverTake \/ CheckInflight \/ DriverFinish
  <2>1. UNCHANGED <<kind, dutVars, memVars, inflight, ram, nbResp, nbNeedRsp, sbErrors,
                    scIsAtomic>>
    <3>1. CASE Simulate
      BY <3>1 DEF Simulate, sbVars
    <3>2. CASE SeqStep
      BY <3>2, SequenceSteps DEF SeqStep, sbVars, TbBase, TbTypeOK
    <3>3. CASE DriverTake
      BY <3>3 DEF DriverTake, sbVars
    <3>4. CASE CheckInflight
      BY <3>4 DEF CheckInflight, check_inflight_requests, seqVars
    <3>5. CASE DriverFinish
      BY <3>5 DEF DriverFinish, sbVars, seqVars
    <3> QED
      BY <1>1, <3>1, <3>2, <3>3, <3>4, <3>5
  <2>2. UcWrites' <=> UcWrites
    BY <2>1 DEF memVars, UcWrites, Holds, Has, Elems
  <2> QED
    BY <2>1, <2>2, VerdictFrame DEF memVars, dutVars
<1>2. CASE MemStep
  <2>1. UNCHANGED <<kind, dutVars>>
    BY <1>2 DEF MemStep
  <2>2. CASE read_process \/ readOperation \/ read_response_process
    BY <2>1, <2>2, ReadProcessData, ReadOperationData, ReadResponseData
  <2>3. CASE write_address_process \/ WritePush \/ write_response_process
    BY <2>1, <2>3, WriteAddressData, WritePushData, WriteResponseData
  <2>4. CASE write_data_process
    BY <2>1, <2>4, WriteDataData
  <2>5. CASE write_process
    BY <2>1, <2>5, PlainWriteData, AtomicWriteData
  <2> QED
    BY <1>2, <2>2, <2>3, <2>4, <2>5 DEF MemStep
<1>3. CASE DutStep
  <2>1. UNCHANGED kind
    BY <1>3 DEF DutStep
  <2>2. CASE DutHit \/ DutMiss \/ DutRefill \/ DutStore
    BY <2>1, <2>2, HitData, MissData, RefillData, StoreData
  <2>3. CASE DutDrain \/ DutWriteAck
    BY <2>1, <2>3, DrainData, AtomicAckData, PlainAckData
  <2>4. CASE DutUcRead \/ DutUcSend
    BY <2>1, <2>4, UcReadData, UcSendData
  <2>5. CASE DutScFail \/ DutUcDone \/ DutCmo
    BY <2>1, <2>5, ScFailData, UcDoneData, CmoData
  <2> QED
    BY <1>3, <2>2, <2>3, <2>4, <2>5 DEF DutStep
<1>4. CASE drive_request
  BY <1>4, DriveData
<1> QED
  BY <1>1, <1>2, <1>3, <1>4 DEF Next

\* The device answers wrongly once at most.
LEMMA BugIsKept ==
    ASSUME TbAlways, UcAlone, Next
    PROVE  bug # None \/ ~DutStep => bug' = bug
<1>1. ASSUME ~DutStep
      PROVE  bug' = bug
  BY <1>1 DEF Next, Simulate, SeqStep, MemStep, DriverTake, drive_request, CheckInflight,
              DriverFinish, dutVars
<1>2. ASSUME DutStep, bug # None
      PROVE  bug' = bug
  <2>1. CASE UNCHANGED bug
    BY <2>1
  <2>2. CASE \E t, data, err : Answer(t, data, err)
    BY <1>2, <2>2, Zenon DEF Answer
  <2> QED
    BY <1>2, <2>1, <2>2, DeviceAnswers
<1> QED
  BY <1>1, <1>2

LEMMA AloneStep ==
    ASSUME TbAlways, UcAlone, Next
    PROVE  UcAlone'
<1>1. CASE DutStep
  BY <1>1, DeviceAnswers
<1>2. CASE drive_request
  <2>1. /\ \A i \in DOMAIN dutQ : ~IsFence(dutQ[i].op)
        /\ uc' = uc
    BY <1>2 DEF drive_request, DutReady
  <2>2. Len(dutQ) = 1 => 1 \in DOMAIN dutQ
    BY DEF TbAlways, TbTypeOK, DeviceType
  <2> QED
    BY <2>1, <2>2 DEF UcAlone, IsFence
<1>3. CASE ~DutStep /\ ~drive_request
  <2>1. UNCHANGED <<uc, dutQ>>
    BY <1>3 DEF Next, Simulate, SeqStep, MemStep, DriverTake, CheckInflight, DriverFinish,
                dutVars
  <2> QED
    BY <2>1 DEF UcAlone
<1> QED
  BY <1>1, <1>2, <1>3

LEMMA VerdictInit ==
    ASSUME Init
    PROVE  VerdictInv
<1> USE DEF Init, ScoreboardInit, MemInit
<1>1. TbInv
  BY RightInit
<1>2. EndOK /\ UcAlone /\ ~uc.busy /\ uc.rd = None
  BY DEF EndOK, UcAlone, UcIdle
<1>3. IsSeq(<<>>) /\ Elems(<<>>) = {} /\ Len(dutQ) = 0
  <2>1. <<>> \in Seq({})
    OBVIOUS
  <2>2. IsSeq(<<>>)
    BY <2>1, SeqIsSeq
  <2>3. Elems(<<>>) = {} /\ Len(dutQ) = 0
    BY DEF Elems
  <2> QED
    BY <2>2, <2>3
<1>4. CacheOK /\ EntriesOK /\ ScData
  BY <1>2, <1>3 DEF CacheOK, EntriesOK, ScData
<1>5. RamOK
  BY <1>3 DEF RamOK
<1>6. ReadsData /\ WritesData
  BY <1>2, <1>3 DEF ReadsData, WritesData
<1>7. CountOK
  <2>1. DOMAIN inflight = {}
    OBVIOUS
  <2> QED
    BY <2>1, FS_EmptySet DEF CountOK
<1> QED
  BY <1>1, <1>2, <1>3, <1>4, <1>5, <1>6, <1>7 DEF VerdictInv, VerdictOK

LEMMA VerdictStep == VerdictInv /\ [Next]_vars => VerdictInv'
<1> SUFFICES ASSUME VerdictInv, [Next]_vars
             PROVE  VerdictInv'
  OBVIOUS
<1> USE DEF VerdictInv
<1>1. TbAlways /\ TbInv'
  BY RightStep DEF TbInv, TbAlways
<1>2. CASE Next
  <2>1. EndOK' /\ UcAlone' /\ IsSeq(sbErrors)'
    BY <1>1, <1>2, EndStep, AloneStep, ErrorsGrow
  <2>2. ASSUME bug = None, Sound
        PROVE  InOrder /\ VerdictOK
    BY <2>2 DEF TbInv, RightSoFar, InOrder
  <2>5. ASSUME Sound'
        PROVE  Sound /\ TbBase
    BY <1>1, <1>2, <2>5, SoundSoFar DEF TbAlways, TbTypeOK, TbBase, Sound
  <2>3. ASSUME bug' = None, Sound'
        PROVE  VerdictOK'
    BY <1>2, <2>2, <2>3, <2>5, BugStays, DataStep
  <2>4. ASSUME bug' # None, bug'.seen, Sound'
        PROVE  Caught'
    <3>0. Sound /\ TbBase
      BY <2>4, <2>5
    <3>1. CASE bug # None
      BY <1>1, <1>2, <2>4, <3>0, <3>1, BugIsKept, CaughtStays
    <3>2. CASE bug = None
      <4>1. DutStep /\ InOrder /\ VerdictOK
        BY <1>1, <1>2, <2>2, <2>4, <3>0, <3>2, BugIsKept
      <4>2. PICK i \in 1 .. Len(dutQ) : Answers(i) /\ Left(i)
        BY <2>4, <3>0, <3>2, <4>1, AnswersExpected
      <4>3. PICK data, err : /\ Answer(dutQ[i], data, err)
                             /\ err \in BOOLEAN /\ Expected(dutQ[i], data, err)
        BY <4>2, Zenon DEF Answers
      <4> QED
        BY <2>4, <3>0, <3>2, <4>1, <4>2, <4>3, WrongIsCaught DEF InOrder, VerdictOK
    <3> QED
      BY <3>1, <3>2
  <2> QED
    BY <1>1, <2>1, <2>3, <2>4
<1>3. CASE UNCHANGED vars
  <2>1. UNCHANGED <<kind, dutQ, cache, wbuf, uc, bug, mem, inflight, ram, nbResp,
                    nbNeedRsp, sbErrors, noInflight, scIsAtomic, rdFifo, rdResp, wdFifo,
                    wdReq, wrFifo, wrResp, wrOp, waReq, waFifo, drv, fresh, overrun,
                    phantom>>
    BY <1>3 DEF vars, seqVars, sbVars, memVars, dutVars
  <2>2. UcWrites' <=> UcWrites
    BY <2>1 DEF UcWrites, Holds, Has, Elems
  <2>3. VerdictOK => VerdictOK'
    BY <2>1, <2>2, VerdictFrame
  <2>4. EndOK' /\ UcAlone' /\ IsSeq(sbErrors)' /\ (Caught => Caught')
    BY <2>1 DEF EndOK, UcAlone, IsSeq, Elems, Caught
  <2> QED
    BY <1>1, <2>1, <2>3, <2>4 DEF Sound
<1> QED
  BY <1>2, <1>3

\* A cache that answers rightly is never accused, by a testbench that has
\* lost no handshake of the memory and matched no uninitialised reservation:
\* no thread of the scoreboard has printed an SB_ERROR, and the final
\* report finds as many responses as requests and no identifier in use.
THEOREM NoFalseAlarms == Spec => []NoFalseAlarm
<1>1. Init => VerdictInv
  BY VerdictInit
<1>2. VerdictInv => NoFalseAlarm
  <2> SUFFICES ASSUME VerdictInv, bug = None, Sound
               PROVE  sbErrors = <<>> /\ (drv.st = "finish" => FinalReport = <<>>)
    BY DEF NoFalseAlarm
  <2>1. VerdictOK /\ EndOK /\ IdsExact /\ ChanOK
    BY DEF VerdictInv, TbInv, RightSoFar
  <2>2. sbErrors = <<>>
    BY <2>1 DEF VerdictOK
  <2>3. ASSUME drv.st = "finish"
        PROVE  FinalReport = <<>>
    <3>1. DOMAIN inflight = {} /\ chan = <<>>
      BY <2>1, <2>3 DEF EndOK, ChanOK
    <3>2. ids = {}
      BY <2>1, <2>3, <3>1 DEF IdsExact, Waiting
    <3>3. nbResp = nbNeedRsp
      <4>1. Cardinality(DOMAIN inflight) = 0
        BY <3>1, FS_EmptySet
      <4> QED
        BY <2>1, <4>1 DEF VerdictOK, CountOK
    <3> QED
      BY <3>2, <3>3 DEF FinalReport, If
  <2> QED
    BY <2>2, <2>3
<1> QED
  BY <1>1, <1>2, VerdictStep, PTL DEF Spec

\* A wrong answer that the scoreboard can know to be wrong never lets the test
\* of such a testbench end in silence: it is reported when it is given, or it leaves a request in
\* the table for which the driver waits for ever.
THEOREM NoSilentBugs == Spec => []NoSilentBug
<1>1. Init => VerdictInv
  BY VerdictInit
<1>2. VerdictInv => NoSilentBug
  <2> SUFFICES ASSUME VerdictInv, drv.st = "finish", bug # None, bug.seen, Sound
               PROVE  sbErrors \o FinalReport # <<>>
    BY DEF NoSilentBug
  <2>1. DOMAIN inflight = {}
    BY DEF VerdictInv, EndOK
  <2>2. sbErrors # <<>>
    BY <2>1 DEF VerdictInv, Caught
  <2>3. IsSeq(FinalReport)
    BY IfFacts, JoinFacts DEF FinalReport
  <2> QED
    BY <2>2, <2>3, JoinFacts DEF VerdictInv
<1> QED
  BY <1>1, <1>2, VerdictStep, PTL DEF Spec

=============================================================================
