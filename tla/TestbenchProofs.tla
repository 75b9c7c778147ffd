-------------------------- MODULE TestbenchProofs --------------------------
(***************************************************************************)
(* Proofs about the testbench of the cache, for any number of addresses,   *)
(* identifiers and transactions: the two write channels of the memory stay *)
(* paired while no handshake is lost on them, none is lost while the FIFOs *)
(* have room for the writes that the cache can have outstanding, and every *)
(* identifier is accounted for as long as the cache answers rightly.       *)
(***************************************************************************)
EXTENDS Testbench, FiniteSetTheorems, WellFoundedInduction, TLAPS

-----------------------------------------------------------------------------
(* What a FIFO and a channel hold.                                           *)

Elems(q) == {q[k] : k \in 1 .. Len(q)}
IsSeq(q) == q \in Seq(Elems(q))
Distinct(q) == \A j, k \in 1 .. Len(q) : q[j].id = q[k].id => j = k
Has(q, i) == \E r \in Elems(q) : r.id = i
Holds(x, i) == x # None /\ x.id = i

-----------------------------------------------------------------------------
(* The inductive invariant.                                                  *)

\* Requests that the sequences draw: an atomic one asks for a response.
Drawn == {t \in Request : IsRmw(t.op) => t.needRsp}

SequenceType ==
    /\ kind \in Kinds /\ ids \subseteq Tids
    /\ lr # None => lr = [addr |-> lr.addr, left |-> lr.left] /\ lr.addr \in Addr

DeviceType ==
    /\ dutQ \in Seq(Drawn)
    /\ DOMAIN cache = Addr /\ miss \subseteq Addr
    /\ wbuf \in [Addr -> WbufEntry \cup {None}]
    /\ uc = [busy |-> uc.busy, rd |-> uc.rd, wr |-> uc.wr] /\ uc.busy \in BOOLEAN

BoardType ==
    /\ DOMAIN inflight \subseteq Tids /\ DOMAIN ram = Addr
    /\ DOMAIN inflightRd = MemIds /\ DOMAIN inflightWr = MemIds
    /\ lrsc \in Addr \cup {None} /\ (lrscRaw # None => lrsc = None) /\ IsSeq(amoFifo)

\* Words are left out: what a bit operation returns is defined by recursion.
MemoryType ==
    /\ DOMAIN mem = Addr /\ DOMAIN excl = MemIds
    /\ IsSeq(rdFifo) /\ IsSeq(wrOp) /\ IsSeq(wrFifo)
    /\ waFifo \in Seq(WriteRequest) /\ waReq \in WriteRequest \cup {None}
    /\ wdFifo \in Seq(WriteBeat) /\ wdReq \in WriteBeat \cup {None}

TbTypeOK == SequenceType /\ DeviceType /\ BoardType /\ MemoryType

\* The sequence and the driver hand over one request at a time.
ChanOK ==
    /\ drv = [st |-> drv.st, t |-> drv.t]
    /\ \/ pc \in {"start", "next"} /\ chan = <<>> /\ drv.st = "idle"
       \/ pc = "ret" /\ chan = <<>> /\ drv.st = "drive" /\ drv.t \in Drawn
       \/ pc = "ret" /\ drv.st = "idle" /\ \E t \in Drawn : chan = <<t>>
       \/ pc = "done" /\ drv.st = "idle" /\ chan = <<Nullptr>>
       \/ pc = "done" /\ chan = <<>> /\ drv.st \in {"drain", "finish"}

\* The identifier of the request that was not driven yet.
Waiting ==
    IF drv.st = "drive" THEN {drv.t.tid}
    ELSE IF chan # <<>> /\ chan[1] # Nullptr THEN {chan[1].tid} ELSE {}

\* While the cache answers rightly, no other identifier is in use.
IdsExact == ids = Waiting \cup DOMAIN inflight

IdsOK ==
    /\ Waiting \cup DOMAIN inflight \subseteq ids
    /\ Waiting \cap DOMAIN inflight = {}

\* The two write channels: what one has more than the other is still driven.
Paired ==
    /\ Len(waFifo) + (IF waReq = None THEN 0 ELSE 1)
         = Len(wdFifo) + (IF wdReq = None THEN 0 ELSE 1)
    /\ \A i \in 1 .. Len(waFifo) : i <= Len(wdFifo) => waFifo[i].id = wdFifo[i].of
    /\ Len(waFifo) > Len(wdFifo) => waFifo[Len(waFifo)].id = wdReq.of
    /\ Len(wdFifo) > Len(waFifo) => wdFifo[Len(wdFifo)].of = waReq.id
    /\ waReq # None /\ wdReq # None => waReq.id = wdReq.of

-----------------------------------------------------------------------------
(* While the cache answers rightly.                                          *)

\* Requests in the device: a fence is the last, those that need a response
\* are in the table of the scoreboard, each under its own identifier.
QueueOK ==
    /\ \A i \in 1 .. Len(dutQ) - 1 : ~IsFence(dutQ[i].op)
    /\ \A i \in 1 .. Len(dutQ) : dutQ[i].needRsp =>
          /\ dutQ[i].tid \in DOMAIN inflight
          /\ inflight[dutQ[i].tid].op = dutQ[i].op
          /\ inflight[dutQ[i].tid].addr = dutQ[i].addr
          /\ inflight[dutQ[i].tid].data = dutQ[i].data
    /\ \A i, j \in 1 .. Len(dutQ) :
          dutQ[i].needRsp /\ dutQ[j].needRsp /\ dutQ[i].tid = dutQ[j].tid => i = j

\* A line is fetched for the oldest request on it, a load, while the write
\* buffer holds nothing of it; an atomic request is sent when nothing else
\* is pending.
DeviceOK ==
    /\ \A a \in miss :
          /\ wbuf[a] = None /\ cache[a] = None
          /\ \E i \in 1 .. Len(dutQ) :
                /\ dutQ[i].addr = a /\ dutQ[i].op \in {"LOAD", "CMO_PREFETCH"}
                /\ Oldest(i)
    /\ uc.busy =>
          /\ Len(dutQ) = 1 /\ IsRmw(dutQ[1].op)
          /\ miss = {} /\ \A a \in Addr : wbuf[a] = None
          /\ dutQ[1].op = "LR" => uc.wr = None
          /\ dutQ[1].op = "SC" => uc.rd = None
    /\ ~uc.busy => uc.rd = None /\ uc.wr = None

UcWrites == Holds(waReq, UcId) \/ Has(waFifo, UcId)

ReadRequestOK(r) ==
    /\ r.id \in MemIds
    /\ IF r.id = UcId
       THEN /\ uc.busy /\ uc.rd = None /\ dutQ[1].op = "LR"
            /\ r.addr = dutQ[1].addr /\ r.cmd = "LDEX"
       ELSE r.addr = r.id /\ r.cmd = "READ" /\ r.id \in miss

ReadResponseOK(r) ==
    /\ r.id \in MemIds
    /\ IF r.id = UcId
       THEN /\ uc.busy /\ uc.rd = None /\ dutQ[1].op # "SC" /\ ~UcWrites
            /\ r.error = (dutQ[1].op = "LR" /\ within_error_region(dutQ[1].addr))
       ELSE r.id \in miss /\ r.error = within_error_region(r.id)

\* Where the address of a memory transaction comes from.
AddrOf(i) == IF i = UcId THEN dutQ[1].addr ELSE i

\* A read is at one place of the memory at a time, and in the scoreboard's
\* table from its request to its response.
ReadsOK ==
    /\ rdReq # None => ReadRequestOK(rdReq) /\ inflightRd[rdReq.id] = None
    /\ rdOp # None =>
          /\ ReadRequestOK(rdOp) /\ inflightRd[rdOp.id] = rdOp.addr
          /\ ~Has(rdFifo, rdOp.id)
    /\ \A r \in Elems(rdFifo) :
          ReadResponseOK(r) /\ inflightRd[r.id] = AddrOf(r.id)
    /\ Distinct(rdFifo)
    /\ rdResp # None =>
          /\ ReadResponseOK(rdResp) /\ inflightRd[rdResp.id] = None
          /\ ~Holds(rdReq, rdResp.id)
    /\ \A i \in MemIds : inflightRd[i] # None =>
          IF i = UcId
          THEN uc.busy /\ uc.rd = None /\ dutQ[1].op # "SC" /\ ~UcWrites
          ELSE i \in miss
    /\ uc.rd # None =>
          uc.rd.error = (dutQ[1].op = "LR" /\ within_error_region(dutQ[1].addr))

WriteRequestOK(r) ==
    IF r.id = UcId
    THEN /\ uc.busy /\ uc.rd = None /\ uc.wr = None /\ r.addr = dutQ[1].addr
         /\ \/ dutQ[1].op = "SC" /\ r.cmd = "STEX"
            \/ dutQ[1].op \in AmoOps /\ r.cmd = MemAtomicOf[dutQ[1].op]
    ELSE r.addr = r.id /\ r.cmd = "WRITE" /\ wbuf[r.id] # None /\ wbuf[r.id].sent

WriteResponseOK(r) ==
    /\ r.id \in MemIds
    /\ IF r.id = UcId
       THEN /\ uc.busy /\ uc.wr = None /\ dutQ[1].op # "LR" /\ ~UcWrites
            /\ r.error = within_error_region(dutQ[1].addr)
            /\ dutQ[1].op = "SC" => r.atomic
       ELSE wbuf[r.id] # None /\ wbuf[r.id].sent

\* Likewise for a write; an atomic operation answers on both channels.
WritesOK ==
    /\ waReq # None =>
          /\ WriteRequestOK(waReq) /\ inflightWr[waReq.id] = None
          /\ ~Has(waFifo, waReq.id) /\ ~Holds(wrResp, waReq.id)
    /\ \A r \in Elems(waFifo) :
          /\ WriteRequestOK(r) /\ inflightWr[r.id] = None
          /\ ~Holds(wrResp, r.id)
    /\ Distinct(waFifo)
    /\ \A r \in Elems(wrFifo) :
          WriteResponseOK(r) /\ inflightWr[r.id] = AddrOf(r.id)
    /\ Distinct(wrFifo)
    /\ wrResp # None => WriteResponseOK(wrResp) /\ inflightWr[wrResp.id] = None
    /\ \A i \in MemIds : inflightWr[i] # None =>
          IF i = UcId THEN uc.busy /\ uc.wr = None /\ dutQ[1].op # "LR"
          ELSE wbuf[i] # None /\ wbuf[i].sent
    /\ uc.wr # None =>
          /\ uc.wr.error = within_error_region(dutQ[1].addr)
          /\ dutQ[1].op = "SC" => uc.wr.atomic
          /\ ~UcWrites

\* The responses that writeOperation has still to push.
AcksOK ==
    /\ Len(wrOp) <= 2
    /\ wrOp # <<>> =>
          LET ack == wrOp[Len(wrOp)] IN
          /\ ack.chan = "write" /\ WriteResponseOK(ack)
          /\ inflightWr[ack.id] = AddrOf(ack.id) /\ ~Has(wrFifo, ack.id)
    /\ Len(wrOp) = 2 =>
          /\ wrOp[1].chan = "read" /\ wrOp[1].id = UcId /\ ReadResponseOK(wrOp[1])
          /\ inflightRd[UcId] = AddrOf(UcId)
          /\ ~Has(rdFifo, UcId) /\ ~Holds(rdOp, UcId)

\* The scoreboard waits for an atomic request until the memory sees it.
AtomicsOK ==
    LET n == Len(dutQ) IN
    /\ amoFifo # <<>> =>
          /\ Len(amoFifo) = 1 /\ n > 0 /\ IsRmw(dutQ[n].op)
          /\ amoFifo[1] = inflight[dutQ[n].tid]
          /\ dutQ[n].op = "SC" => amoFifo[1].atomic
          /\ uc.busy => UcWrites \/ Holds(rdReq, UcId)
    /\ /\ n > 0 /\ IsRmw(dutQ[n].op)
       /\ dutQ[n].op = "SC" => inflight[dutQ[n].tid].atomic
       /\ uc.busy => UcWrites \/ Holds(rdReq, UcId)
       => amoFifo # <<>>

Killed(a) == \E i \in 1 .. Len(dutQ) :
                dutQ[i].op \in AmoOps \cup {"STORE"} /\ dutQ[i].addr = a

\* The reservation of the scoreboard is the one the device will have when it
\* has performed what it has accepted; the memory has it too.
ReservationsOK ==
    LET n == Len(dutQ)
        last(op) == n > 0 /\ dutQ[n].op = op
        left == IF rsv # None /\ ~Killed(rsv) THEN rsv ELSE None
    IN  /\ rsv \in Addr \cup {None} /\ (rsv # None => ~within_error_region(rsv))
        /\ last("LR") => lrsc = IF within_error_region(dutQ[n].addr) THEN None
                                ELSE dutQ[n].addr
        /\ last("SC") =>
              /\ lrsc = None
              /\ inflight[dutQ[n].tid].atomic <=> left = dutQ[n].addr
              /\ uc.busy => rsv = dutQ[n].addr
        /\ ~last("LR") /\ ~last("SC") => lrsc = left
        /\ rsv # None =>
              \/ excl[UcId] = rsv
              \/ uc.busy /\ last("LR")
              \/ uc.busy /\ last("SC") /\ ~UcWrites
        /\ uc.busy /\ last("LR") /\ ~within_error_region(dutQ[n].addr) =>
              excl[UcId] = dutQ[n].addr \/ Holds(rdReq, UcId) \/ Holds(rdOp, UcId)

RightSoFar ==
    /\ IdsExact
    /\ QueueOK /\ DeviceOK /\ ReadsOK /\ WritesOK /\ AcksOK /\ AtomicsOK /\ ReservationsOK

TbInv ==
    /\ TbTypeOK /\ ChanOK /\ IdsOK
    /\ ~overrun => Paired
    /\ bug = None /\ Sound => RightSoFar

-----------------------------------------------------------------------------
(* FIFOs.                                                                    *)

\* FIFOs with elements of a known type are such sequences too.
LEMMA SeqIsSeq ==
    ASSUME NEW S, NEW q \in Seq(S)
    PROVE  IsSeq(q) /\ Elems(q) \subseteq S
<1>1. \A k \in 1 .. Len(q) : q[k] \in Elems(q)
  BY DEF Elems
<1>2. Len(q) \in Nat /\ \A k \in 1 .. Len(q) : q[k] \in S
  OBVIOUS
<1>3. q \in Seq(Elems(q))
  BY <1>1
<1>4. Elems(q) \subseteq S
  BY <1>2 DEF Elems
<1> QED
  BY <1>3, <1>4 DEF IsSeq

\* A write to a FIFO.
LEMMA Pushed ==
    ASSUME NEW q, NEW e, IsSeq(q)
    PROVE  /\ IsSeq(Append(q, e))
           /\ Elems(Append(q, e)) = Elems(q) \cup {e}
           /\ Len(q) \in Nat /\ Len(Append(q, e)) = Len(q) + 1
           /\ \A k \in 1 .. Len(q) : Append(q, e)[k] = q[k]
           /\ Append(q, e)[Len(q) + 1] = e
<1> DEFINE S == Elems(q) \cup {e}
<1>1. q \in Seq(S) /\ e \in S
  BY DEF IsSeq
<1>2. /\ Append(q, e) \in Seq(S)
      /\ Len(q) \in Nat /\ Len(Append(q, e)) = Len(q) + 1
      /\ \A k \in 1 .. Len(q) : Append(q, e)[k] = q[k]
      /\ Append(q, e)[Len(q) + 1] = e
  <2> HIDE DEF S
  <2> QED
    BY <1>1
<1>3. Elems(Append(q, e)) = S
  BY <1>2 DEF Elems
<1> QED
  BY <1>2, <1>3 DEF IsSeq

LEMMA PushedDistinct ==
    ASSUME NEW q, NEW e, IsSeq(q), Distinct(q), ~Has(q, e.id)
    PROVE  Distinct(Append(q, e))
BY Pushed DEF Distinct, Has, Elems

\* A read of a FIFO.
LEMMA Popped ==
    ASSUME NEW q, IsSeq(q), q # <<>>
    PROVE  /\ IsSeq(Tail(q))
           /\ Head(q) \in Elems(q) /\ Head(q) = q[1]
           /\ Elems(q) = Elems(Tail(q)) \cup {Head(q)}
           /\ Len(q) \in Nat \ {0} /\ Len(Tail(q)) = Len(q) - 1
           /\ \A k \in 1 .. Len(q) - 1 : Tail(q)[k] = q[k + 1]
<1> DEFINE S == Elems(q)
<1>1. q \in Seq(S)
  BY DEF IsSeq
<1>2. /\ Tail(q) \in Seq(S) /\ Head(q) = q[1]
      /\ Len(q) \in Nat \ {0} /\ Len(Tail(q)) = Len(q) - 1
      /\ \A k \in 1 .. Len(q) - 1 : Tail(q)[k] = q[k + 1]
  <2> HIDE DEF S
  <2> QED
    BY <1>1
<1>3. Head(q) \in S
  BY <1>2 DEF Elems
<1>4. S = Elems(Tail(q)) \cup {Head(q)}
  <2>1. Elems(Tail(q)) \subseteq S
    BY <1>2 DEF Elems
  <2>2. ASSUME NEW k \in 1 .. Len(q), k # 1
        PROVE  q[k] \in Elems(Tail(q))
    <3>1. k - 1 \in 1 .. Len(Tail(q)) /\ Tail(q)[k - 1] = q[k]
      BY <1>2, <2>2
    <3> QED
      BY <3>1 DEF Elems
  <2> QED
    BY <1>2, <1>3, <2>1, <2>2 DEF Elems
<1>5. IsSeq(Tail(q))
  BY <1>2, SeqIsSeq
<1> QED
  BY <1>2, <1>3, <1>4, <1>5

LEMMA PoppedDistinct ==
    ASSUME NEW q, IsSeq(q), q # <<>>, Distinct(q)
    PROVE  Distinct(Tail(q)) /\ ~Has(Tail(q), Head(q).id)
<1>1. ASSUME NEW k \in 1 .. Len(Tail(q))
      PROVE  k + 1 \in 1 .. Len(q) /\ k + 1 # 1 /\ Tail(q)[k] = q[k + 1]
  BY Popped
<1>2. Distinct(Tail(q))
  <2> SUFFICES ASSUME NEW j \in 1 .. Len(Tail(q)), NEW k \in 1 .. Len(Tail(q)),
                      Tail(q)[j].id = Tail(q)[k].id
               PROVE  j = k
    BY DEF Distinct
  <2>1. j + 1 = k + 1
    BY <1>1 DEF Distinct
  <2> QED
    BY <2>1
<1>3. ~Has(Tail(q), Head(q).id)
  <2>1. 1 \in 1 .. Len(q) /\ Head(q) = q[1]
    BY Popped
  <2>2. \A k \in 1 .. Len(Tail(q)) : Tail(q)[k].id # Head(q).id
    BY <1>1, <2>1 DEF Distinct
  <2> QED
    BY <2>2 DEF Has, Elems
<1> QED
  BY <1>2, <1>3


-----------------------------------------------------------------------------
(* The sequences.                                                            *)

\* Probing from any start finds an identifier that is not in use.
LEMMA AllocateId ==
    ASSUME ids \subseteq Tids, is_available_id, NEW start \in Starts
    PROVE  allocate_id(start) \in Tids \ ids
<1> DEFINE N == Cardinality(Tids)
           Free(k) == (start + k) % N \notin ids
           K == {k \in 0 .. N - 1 : Free(k)}
<1>1. N \in Nat \ {0} /\ Tids = 0 .. N - 1 /\ start \in 0 .. N - 1
  BY FS_CardinalityType, FS_EmptySet, SeqAssumption
<1>2. PICK f \in Tids : f \notin ids
  <2> SUFFICES ASSUME ids = Tids
               PROVE  FALSE
    OBVIOUS
  <2>1. N < N
    BY DEF is_available_id
  <2> HIDE DEF N
  <2> QED
    BY <1>1, <2>1
<1> HIDE DEF N
<1>3. PICK s \in 0 .. N - 1 : (start + s) % N = f
  <2>1. f \in 0 .. N - 1 /\ f % N = f /\ (f + N) % N = f
    BY <1>1
  <2>2. CASE f >= start
    <3>1. f - start \in 0 .. N - 1 /\ start + (f - start) = f
      BY <1>1, <2>1, <2>2
    <3> QED
      BY <2>1, <3>1
  <2>3. CASE ~(f >= start)
    <3>1. f + N - start \in 0 .. N - 1 /\ start + (f + N - start) = f + N
      BY <1>1, <2>1, <2>3
    <3> QED
      BY <2>1, <3>1
  <2> QED
    BY <2>2, <2>3
<1>4. K # {} /\ K \subseteq Nat
  <2>1. s \in K
    BY <1>2, <1>3
  <2>2. K \subseteq Nat
    BY <1>1
  <2> QED
    BY <2>1, <2>2
<1>5. PICK m \in K : \A j \in K : ~(j < m)
  <2> HIDE DEF K
  <2>1. \E m \in K : \A j \in K : <<j, m>> \notin OpToRel(<, Nat)
    BY <1>4, NatLessThanWellFounded, WFMin
  <2> QED
    BY <1>4, <2>1 DEF OpToRel
<1>6. ASSUME NEW j \in 0 .. m - 1
      PROVE  ~Free(j)
  <2>1. m \in 0 .. N - 1
    BY <1>5
  <2>2. j \in 0 .. N - 1 /\ j < m
    BY <1>1, <2>1
  <2> QED
    BY <1>5, <2>2
<1>7. /\ allocate_id(start) \notin ids
      /\ \E k \in 0 .. N - 1 : allocate_id(start) = (start + k) % N
  BY <1>5, <1>6 DEF allocate_id, N
<1>8. allocate_id(start) \in 0 .. N - 1
  BY <1>1, <1>7
<1> QED
  BY <1>1, <1>7, <1>8


\* Transaction t gets an identifier that is not in use and goes to the driver.
Sends(t) ==
    /\ t.tid \notin ids /\ ids' = ids \cup {t.tid}
    /\ chan' = <<t>> /\ pc' = "ret"

\* What every sequence draws is a request with the identifier it was given.
LEMMA DrawsAreDrawn ==
    ASSUME NEW tid \in Tids, NEW t,
           \/ t \in random_seq[tid] \/ t \in unique_set[tid] \/ t \in read_seq[tid]
           \/ t \in write_seq[tid] \/ t \in from_trace[tid]
    PROVE  t \in Drawn /\ t.tid = tid
<1> USE SeqAssumption
<1>1. ASSUME NEW segs, NEW addrs \in SUBSET Addr,
             t \in create_random_transaction(segs, addrs, tid)
      PROVE  t \in Drawn /\ t.tid = tid
  BY <1>1 DEF create_random_transaction, Drawn, Request
<1>2. ASSUME NEW op \in {"LOAD", "STORE"}, NEW addrs \in SUBSET Addr,
             NEW data \in {{0}, Data}, NEW rsp \in BOOLEAN,
             t \in Plain(op, addrs, data, rsp, tid)
      PROVE  t \in Drawn /\ t.tid = tid
  BY <1>2 DEF Plain, Drawn, Request, ReqOps, IsRmw, AmoOps
<1>3. random_seq[tid] = create_random_transaction(random_segments, Addr, tid)
  BY DEF random_seq
<1>4. unique_set[tid] = create_random_transaction(unique_set_segments, OneSet, tid)
  BY DEF unique_set
<1>5. read_seq[tid] = Plain("LOAD", Segment, {0}, TRUE, tid)
  BY DEF read_seq
<1>6. write_seq[tid] = Plain("STORE", Segment, Data, TRUE, tid)
  BY DEF write_seq
<1>7. from_trace[tid] = Plain("LOAD", Addr, {0}, TRUE, tid)
                            \cup Plain("STORE", Addr, Data, FALSE, tid)
  BY DEF from_trace
<1> QED
  BY <1>1, <1>2, <1>3, <1>4, <1>5, <1>6, <1>7

LEMMA SequenceSteps ==
    ASSUME SequenceType, ChanOK, SeqStep
    PROVE  /\ UNCHANGED <<kind, sbVars, memVars, dutVars, drv, fresh>>
           /\ pc \in {"start", "next"}
           /\ lr' # None =>
                 lr' = [addr |-> lr'.addr, left |-> lr'.left] /\ lr'.addr \in Addr
           /\ \/ pc' = "next" /\ UNCHANGED <<ids, chan>>
              \/ \E t \in Drawn : Sends(t)
              \/ pc' = "done" /\ chan' = <<Nullptr>> /\ UNCHANGED ids
<1> USE DEF SequenceType
<1> DEFINE LrOK == lr # None =>
                lr = [addr |-> lr.addr, left |-> lr.left] /\ lr.addr \in Addr
<1>1. UNCHANGED <<sbVars, memVars, dutVars, drv, fresh>>
  BY DEF SeqStep
<1>2. ASSUME NEW start \in Starts, is_available_id, NEW t,
             \/ t \in random_seq[allocate_id(start)]
             \/ t \in unique_set[allocate_id(start)]
             \/ t \in read_seq[allocate_id(start)]
             \/ t \in write_seq[allocate_id(start)]
             \/ t \in from_trace[allocate_id(start)],
             send_transaction(t)
      PROVE  t \in Drawn /\ Sends(t)
  <2>1. allocate_id(start) \in Tids \ ids
    BY <1>2, AllocateId
  <2>2. t \in Drawn /\ t.tid = allocate_id(start)
    BY <1>2, <2>1, DrawsAreDrawn
  <2> QED
    BY <1>2, <2>1, <2>2 DEF send_transaction, Sends
<1>3. CASE RunStart
  BY <1>1, <1>3 DEF RunStart
<1>4. CASE RunStop
  BY <1>1, <1>4 DEF RunStop
<1>5. CASE RunRead \/ RunWrite \/ RunTrace
  BY <1>1, <1>2, <1>5 DEF RunRead, RunWrite, RunTrace, RunPlain
<1>6. ASSUME NEW draws, draws = random_seq \/ draws = unique_set, RunLrsc(draws)
      PROVE  /\ pc = "next" /\ UNCHANGED kind /\ LrOK'
             /\ \E t \in Drawn : Sends(t)
  <2>1. pc = "next" /\ is_available_id /\ UNCHANGED kind
    BY <1>6 DEF RunLrsc
  <2>2. CASE RunFirst(draws)
    <3>1. PICK start \in Starts : \E t \in draws[allocate_id(start)] :
             /\ send_transaction(t)
             /\ lr' \in IF t.op = "LR"
                        THEN {None, [addr |-> t.addr, left |-> gap]} ELSE {None}
      BY <2>2 DEF RunFirst
    <3>2. PICK t \in draws[allocate_id(start)] :
             /\ send_transaction(t)
             /\ lr' \in IF t.op = "LR"
                        THEN {None, [addr |-> t.addr, left |-> gap]} ELSE {None}
      BY <3>1
    <3>3. t \in Drawn /\ Sends(t)
      BY <1>2, <1>6, <2>1, <3>2
    <3>4. LrOK'
      BY <3>3, <3>2 DEF Drawn, Request
    <3> QED
      BY <2>1, <3>3, <3>4
  <2>3. CASE RunBetween(draws)
    <3>1. PICK start \in Starts :
             \E t \in draws[allocate_id(start)] : send_transaction(t)
      BY <2>3 DEF RunBetween
    <3>2. PICK t \in draws[allocate_id(start)] : send_transaction(t)
      BY <3>1
    <3>3. t \in Drawn /\ Sends(t)
      BY <1>2, <1>6, <2>1, <3>2
    <3>4. LrOK'
      <4>1. lr # None /\ lr' = [lr EXCEPT !.left = @ - 1]
        BY <2>3 DEF RunBetween
      <4>2. lr' = [addr |-> lr.addr, left |-> lr.left - 1] /\ lr.addr \in Addr
        BY <4>1
      <4> QED
        BY <4>2
    <3> QED
      BY <2>1, <3>3, <3>4
  <2>4. CASE RunSc
    <3>1. PICK start \in Starts, d \in Data :
             send_transaction(create_sc_transaction(lr.addr, d, allocate_id(start)))
      BY <2>4 DEF RunSc
    <3>2. allocate_id(start) \in Tids \ ids
      BY <2>1, AllocateId
    <3> DEFINE t == create_sc_transaction(lr.addr, d, allocate_id(start))
    <3>3. t \in Drawn /\ t.tid = allocate_id(start)
      BY <2>4, <3>2 DEF RunSc, create_sc_transaction, Drawn, Request, ReqOps
    <3>4. Sends(t)
      BY <3>1, <3>2, <3>3 DEF Sends, send_transaction
    <3>5. LrOK'
      BY <2>4 DEF RunSc
    <3> QED
      BY <2>1, <3>3, <3>4, <3>5
  <2> QED
    BY <1>6, <2>2, <2>3, <2>4 DEF RunLrsc
<1>7. CASE RunRandom \/ RunUniqueSet
  BY <1>1, <1>6, <1>7 DEF RunRandom, RunUniqueSet
<1> QED
  BY <1>3, <1>4, <1>5, <1>7 DEF SeqStep


-----------------------------------------------------------------------------
(* What the device does to the scoreboard.                                   *)

\* The answer the device should give.
Right(t, data, err) ==
    IF t.needRsp THEN core_resp_process([tid |-> t.tid, data |-> data, error |-> err])
    ELSE UNCHANGED <<sbVars, ids>>

\* An answer takes identifiers only out of the table, and only once the device
\* has not given a wrong answer is it known to be the right one.
LEMMA AnswerEffect ==
    ASSUME NEW t, NEW data, NEW err, Answer(t, data, err)
    PROVE  /\ UNCHANGED <<inflightRd, inflightWr, lrsc, lrscRaw, phantom, amoFifo,
                          scIsAtomic, nbNeedRsp, noInflight>>
           /\ DOMAIN ram' = DOMAIN ram
           /\ \E S \in SUBSET DOMAIN inflight :
                 /\ ids' = ids \ S /\ DOMAIN inflight' = DOMAIN inflight \ S
                 /\ \A x \in DOMAIN inflight' : inflight'[x] = inflight[x]
           /\ bug' = None => bug = None /\ Right(t, data, err)
<1>1. ASSUME NEW r, core_resp_process(r)
      PROVE  /\ UNCHANGED <<inflightRd, inflightWr, lrsc, lrscRaw, phantom, amoFifo,
                            scIsAtomic, nbNeedRsp, noInflight>>
             /\ DOMAIN ram' = DOMAIN ram
             /\ \E S \in SUBSET DOMAIN inflight :
                   /\ ids' = ids \ S /\ DOMAIN inflight' = DOMAIN inflight \ S
                   /\ \A x \in DOMAIN inflight' : inflight'[x] = inflight[x]
  <2> DEFINE done == r.tid \in DOMAIN inflight /\ ~WrongFlag(inflight[r.tid], r)
  <2>1. /\ inflight' = IF done THEN [x \in DOMAIN inflight \ {r.tid} |-> inflight[x]]
                       ELSE inflight
        /\ ids' = ids \ (IF done THEN {r.tid} ELSE {})
    BY <1>1 DEF core_resp_process, deallocate_id
  <2>2. \E S \in SUBSET DOMAIN inflight :
            /\ ids' = ids \ S /\ DOMAIN inflight' = DOMAIN inflight \ S
            /\ \A x \in DOMAIN inflight' : inflight'[x] = inflight[x]
    <3>1. CASE done
      <4>1. {r.tid} \in SUBSET DOMAIN inflight
        BY <3>1
      <4>2. /\ ids' = ids \ {r.tid} /\ DOMAIN inflight' = DOMAIN inflight \ {r.tid}
            /\ \A x \in DOMAIN inflight' : inflight'[x] = inflight[x]
        BY <2>1, <3>1
      <4> QED
        BY <4>1, <4>2
    <3>2. CASE ~done
      <4> WITNESS {} \in SUBSET DOMAIN inflight
      <4> QED
        BY <2>1, <3>2
    <3> QED
      BY <3>1, <3>2
  <2>3. DOMAIN ram' = DOMAIN ram
    BY <1>1 DEF core_resp_process
  <2> QED
    BY <1>1, <2>2, <2>3 DEF core_resp_process
<1>2. CASE ~t.needRsp
  <2>1. UNCHANGED <<sbVars, ids, bug>>
    BY <1>2 DEF Answer
  <2>2. {} \in SUBSET DOMAIN inflight
    OBVIOUS
  <2> QED
    BY <1>2, <2>1, <2>2 DEF Right, sbVars
<1>3. CASE t.needRsp
  <2> USE DEF monitor_response, core_resp_to_struct
  <2>1. \E r : core_resp_process(r)
    BY <1>3 DEF Answer
  <2>2. bug' = None => bug = None /\ Right(t, data, err)
    <3>1. \A k \in {"data", "error", "tid"}, b \in BOOLEAN :
              [kind |-> k, seen |-> b] # None
      BY TbNoneAssumption DEF WrongAnswer
    <3>2. \/ core_resp_process([tid |-> t.tid, data |-> data, error |-> err])
             /\ UNCHANGED bug
          \/ \E k \in {"data", "error", "tid"}, b \in BOOLEAN :
                bug' = [kind |-> k, seen |-> b]
      BY <1>3, Zenon DEF Answer
    <3> QED
      BY <1>3, <3>1, <3>2 DEF Right
  <2> QED
    BY <1>1, <2>1, <2>2
<1> QED
  BY <1>2, <1>3


\* A step of the device leaves the sequence and the driver alone, and the
\* scoreboard as well unless it answers.
LEMMA DeviceSteps ==
    ASSUME DutStep
    PROVE  /\ UNCHANGED <<kind, lr, pc, chan, drv, fresh>>
           /\ \/ UNCHANGED <<sbVars, ids>>
              \/ \E t, data, err : Answer(t, data, err)
<1>1. UNCHANGED <<kind, lr, pc, chan, drv, fresh>>
  BY DEF DutStep
<1>2. CASE DutHit \/ DutRefill \/ DutStore \/ DutScFail \/ DutUcDone \/ DutCmo
  <2>1. \E t, data, err : Answer(t, data, err)
    BY <1>2, Zenon DEF DutHit, DutRefill, DutStore, DutScFail, DutUcDone, DutCmo
  <2> QED
    BY <1>1, <2>1
<1>3. CASE DutMiss \/ DutDrain \/ DutWriteAck \/ DutUcRead \/ DutUcSend
  <2>1. UNCHANGED <<sbVars, ids>>
    BY <1>3 DEF DutMiss, DutDrain, DutWrite, DutWriteAck, DutUcRead, DutUcSend
  <2> QED
    BY <1>1, <2>1
<1> QED
  BY <1>2, <1>3 DEF DutStep

\* The scoreboard receives a request with a new identifier: it is tracked, or
\* the identifier is given back, unless it finds no room in the AMO FIFO.
LEMMA RequestEffect ==
    ASSUME NEW t, core_req_process(t), t.tid \notin DOMAIN inflight
    PROVE  LET e == EntryOf(t)
               mute == t.op \in CmoOps /\ ~t.needRsp
               full == ~mute /\ ForwardedToMem(t, e) /\ Len(amoFifo) >= AmoFifo
           IN  /\ UNCHANGED <<inflightRd, inflightWr, scIsAtomic, nbResp, noInflight>>
               /\ DOMAIN ram' = DOMAIN ram
               /\ t.needRsp /\ ~full =>
                     /\ ids' = ids
                     /\ DOMAIN inflight' = DOMAIN inflight \cup {t.tid}
                     /\ inflight'[t.tid] = e
               /\ ~t.needRsp /\ ~full => ids' = ids \ {t.tid}
               /\ full => ids' = ids
               /\ ~t.needRsp \/ full => inflight' = inflight
               /\ \A x \in DOMAIN inflight : x \in DOMAIN inflight' /\ inflight'[x] = inflight[x]
BY DEF core_req_process, TrackRequest, deallocate_id

\* The memory and its monitors leave the requests alone.
LEMMA MemorySteps ==
    ASSUME MemStep
    PROVE  UNCHANGED <<kind, lr, pc, chan, drv, fresh, ids, inflight, lrsc, lrscRaw, phantom,
                       dutVars>>
<1>1. UNCHANGED <<kind, lr, pc, chan, drv, fresh, dutVars>>
  BY DEF MemStep
<1>2. CASE read_process \/ readOperation \/ read_response_process \/ write_address_process
  BY <1>1, <1>2
     DEF read_process, readOperation, read_response_process, write_address_process,
         mem_read_req_process, mem_read_resp_process, sbVars
<1>3. CASE write_data_process \/ write_process \/ WritePush \/ write_response_process
  BY <1>1, <1>3
     DEF write_data_process, write_process, WritePush, write_response_process,
         mem_write_req_process, mem_write_resp_process, sbVars
<1> QED
  BY <1>2, <1>3 DEF MemStep

-----------------------------------------------------------------------------
(* Identifiers, whatever the device answers.                                 *)

LEMMA ChanStep ==
    ASSUME SequenceType, ChanOK, Next
    PROVE  ChanOK'
<1> USE DEF ChanOK
<1>1. CASE Simulate \/ CheckInflight
  BY <1>1 DEF Simulate, CheckInflight, seqVars
<1>2. CASE SeqStep
  BY <1>2, SequenceSteps DEF Sends
<1>3. CASE MemStep \/ DutStep
  BY <1>3, MemorySteps, DeviceSteps
<1>4. CASE DriverTake
  BY <1>4, NullptrAssumption DEF DriverTake, Drawn
<1>5. CASE drive_request
  BY <1>5 DEF drive_request
<1>6. CASE DriverFinish
  BY <1>6 DEF DriverFinish, seqVars
<1> QED
  BY <1>1, <1>2, <1>3, <1>4, <1>5, <1>6 DEF Next

LEMMA IdsStep ==
    ASSUME SequenceType, BoardType, ChanOK, IdsOK, Next
    PROVE  /\ IdsOK' /\ SequenceType' /\ DOMAIN inflight' \subseteq Tids
           /\ IdsExact /\ (drive_request => amoFifo = <<>>) => IdsExact'
<1> USE DEF IdsOK, IdsExact
<1>0. ids' \subseteq Tids /\ UNCHANGED <<kind, lr>> => SequenceType'
  BY DEF SequenceType
<1>1. CASE Simulate \/ CheckInflight \/ DriverFinish
  <2>1. UNCHANGED <<kind, lr, ids, inflight, chan>> /\ drv'.t = drv.t
        /\ (drv'.st = "drive" <=> drv.st = "drive")
    BY <1>1 DEF Simulate, CheckInflight, DriverFinish, check_inflight_requests, sbVars,
                seqVars, ChanOK
  <2> QED
    BY <1>0, <2>1 DEF Waiting, BoardType, SequenceType
<1>2. CASE SeqStep
  <2>1. UNCHANGED <<kind, inflight, drv>> /\ chan = <<>> /\ drv.st = "idle"
        /\ pc \in {"start", "next"}
    BY <1>2, SequenceSteps DEF sbVars, ChanOK
  <2>2. CASE UNCHANGED <<ids, chan>>
    BY <1>2, <2>1, <2>2, SequenceSteps DEF Waiting, BoardType, SequenceType
  <2>3. ASSUME NEW t \in Drawn, Sends(t)
        PROVE  /\ IdsOK' /\ SequenceType' /\ DOMAIN inflight' \subseteq Tids
               /\ IdsExact => IdsExact'
    <3>1. Waiting' = {t.tid} /\ t.tid \in Tids
      BY <2>1, <2>3, NullptrAssumption DEF Waiting, Sends, Drawn, Request
    <3>2. Waiting = {}
      BY <2>1 DEF Waiting
    <3>3. IdsExact => IdsExact'
      BY <2>1, <2>3, <3>1, <3>2 DEF Sends
    <3>4. IdsOK' /\ SequenceType' /\ DOMAIN inflight' \subseteq Tids
      BY <1>2, <2>1, <2>3, <3>1, SequenceSteps DEF BoardType, SequenceType, Sends
    <3> QED
      BY <3>3, <3>4
  <2>4. CASE chan' = <<Nullptr>> /\ UNCHANGED ids
    BY <1>2, <2>1, <2>4, SequenceSteps DEF Waiting, BoardType, SequenceType
  <2> QED
    BY <1>2, <2>2, <2>3, <2>4, SequenceSteps
<1>3. CASE MemStep
  BY <1>0, <1>3, MemorySteps DEF Waiting, BoardType, SequenceType
<1>4. CASE DutStep
  <2>1. UNCHANGED <<kind, lr, chan, drv>> /\ Waiting' = Waiting
    BY <1>4, DeviceSteps DEF Waiting
  <2>2. \E S \in SUBSET DOMAIN inflight :
            ids' = ids \ S /\ DOMAIN inflight' = DOMAIN inflight \ S
    <3>1. CASE UNCHANGED <<sbVars, ids>>
      <4>1. {} \in SUBSET DOMAIN inflight
        OBVIOUS
      <4> QED
        BY <3>1, <4>1 DEF sbVars
    <3>2. CASE \E t, data, err : Answer(t, data, err)
      BY <3>2, AnswerEffect
    <3> QED
      BY <1>4, <3>1, <3>2, DeviceSteps
  <2> QED
    BY <1>0, <2>1, <2>2 DEF BoardType, SequenceType
<1>5. CASE DriverTake
  <2>1. UNCHANGED <<kind, lr, ids, inflight>> /\ Waiting' = Waiting
    <3>1. /\ UNCHANGED <<kind, lr, ids, inflight>>
          /\ drv.st = "idle" /\ chan # <<>> /\ chan' = <<>>
          /\ drv' = IF Head(chan) = Nullptr THEN [st |-> "drain", t |-> None]
                    ELSE [st |-> "drive", t |-> Head(chan)]
      BY <1>5 DEF DriverTake, sbVars
    <3>2. chan = <<Nullptr>> \/ \E t \in Drawn : chan = <<t>>
      BY <3>1 DEF ChanOK
    <3>3. CASE chan = <<Nullptr>>
      BY <3>1, <3>3 DEF Waiting
    <3>4. ASSUME NEW t \in Drawn, chan = <<t>>
          PROVE  Waiting' = Waiting
      <4>1. t # Nullptr /\ Head(chan) = t /\ chan[1] = t
        BY <3>4, NullptrAssumption DEF Drawn
      <4> QED
        BY <3>1, <4>1 DEF Waiting
    <3> QED
      BY <3>1, <3>2, <3>3, <3>4
  <2> QED
    BY <1>0, <2>1 DEF BoardType, SequenceType
<1>6. CASE drive_request
  <2>1. /\ core_req_process(drv.t) /\ UNCHANGED <<kind, lr>>
        /\ Waiting = {drv.t.tid} /\ Waiting' = {} /\ drv.t.tid \in Tids
    BY <1>6 DEF drive_request, Waiting, ChanOK, Drawn, Request
  <2>2. /\ drv.t.tid \notin DOMAIN inflight /\ drv.t.tid \in ids
    BY <2>1
  <2>3. \/ DOMAIN inflight' = DOMAIN inflight \cup {drv.t.tid} /\ ids' = ids
        \/ inflight' = inflight /\ ids' = ids \ {drv.t.tid}
        \/ inflight' = inflight /\ ids' = ids /\ Len(amoFifo) >= AmoFifo
    BY <2>1, <2>2, RequestEffect
  <2>4. amoFifo = <<>> => ~(Len(amoFifo) >= AmoFifo)
    BY SbAssumption
  <2> QED
    BY <1>0, <1>6, <2>1, <2>2, <2>3, <2>4 DEF BoardType, SequenceType
<1> QED
  BY <1>1, <1>2, <1>3, <1>4, <1>5, <1>6 DEF Next


-----------------------------------------------------------------------------
(* Types, whatever the device answers.                                       *)

LEMMA WordFacts ==
    /\ 2 ^ W \in Int
    /\ Data \cup {0} \subseteq Int
    /\ \A op, x : x \in Int => MemDataOf(op, x) \in Int
<1>1. 2 ^ W \in Int
  BY WAssumption
<1>2. Data \cup {0} \subseteq Int
  BY <1>1, SeqAssumption DEF Val
<1>3. ASSUME NEW op, NEW x \in Int
      PROVE  MemDataOf(op, x) \in Int
  BY <1>1 DEF MemDataOf, NotBits
<1> QED
  BY <1>1, <1>2, <1>3

LEMMA AtomicCommands ==
    \A op \in AmoOps : MemAtomicOf[op] \in MemAtomics /\ MemIsAmo(MemAtomicOf[op])
BY Zenon DEF MemAtomicOf, AmoOps, MemAtomics, MemIsAmo

\* Request i leaves the queue.
LEMMA WithoutFacts ==
    ASSUME dutQ \in Seq(Drawn), NEW i \in 1 .. Len(dutQ)
    PROVE  /\ Without(i) \in Seq(Drawn)
           /\ Len(Without(i)) = Len(dutQ) - 1
           /\ \A j \in 1 .. Len(dutQ) - 1 :
                 Without(i)[j] = IF j < i THEN dutQ[j] ELSE dutQ[j + 1]
<1> DEFINE n == Len(dutQ) - 1
<1>1. n \in Nat /\ \A j \in 1 .. n : (IF j < i THEN dutQ[j] ELSE dutQ[j + 1]) \in Drawn
  OBVIOUS
<1>2. Without(i) = [j \in 1 .. n |-> IF j < i THEN dutQ[j] ELSE dutQ[j + 1]]
  BY DEF Without
<1> HIDE DEF n
<1>3. Without(i) \in [1 .. n -> Drawn]
  BY <1>1, <1>2
<1>4. Without(i) \in Seq(Drawn) /\ Len(Without(i)) = n
  BY <1>1, <1>3
<1> QED
  BY <1>2, <1>4 DEF n

LEMMA DeviceTypeStep ==
    ASSUME DeviceType, ChanOK, Next
    PROVE  DeviceType'
<1> USE DEF DeviceType
<1>1. CASE Simulate \/ SeqStep \/ MemStep \/ DriverTake \/ CheckInflight \/ DriverFinish
  <2>1. UNCHANGED dutVars
    BY <1>1 DEF Simulate, SeqStep, MemStep, DriverTake, CheckInflight, DriverFinish
  <2> QED
    BY <2>1 DEF dutVars
<1>2. CASE drive_request
  <2>1. drv.t \in Drawn /\ dutQ' = Append(dutQ, drv.t)
    BY <1>2 DEF drive_request, ChanOK
  <2> QED
    BY <1>2, <2>1 DEF drive_request
<1>3. CASE DutHit
  BY <1>3, WithoutFacts DEF DutHit
<1>4. CASE DutMiss
  BY <1>4 DEF DutMiss, Drawn, Request
<1>5. CASE DutRefill
  BY <1>5, WithoutFacts DEF DutRefill
<1>6. CASE DutStore
  <2>1. PICK i \in DOMAIN dutQ :
           /\ wbuf' = [wbuf EXCEPT ![dutQ[i].addr] = [data |-> dutQ[i].data, sent |-> FALSE]]
           /\ cache' = IF cache[dutQ[i].addr] = None THEN cache
                       ELSE [cache EXCEPT ![dutQ[i].addr] = dutQ[i].data]
           /\ dutQ' = Without(i)
           /\ UNCHANGED <<miss, uc>>
    BY <1>6 DEF DutStore
  <2>2. dutQ[i] \in Drawn /\ i \in 1 .. Len(dutQ)
    BY <2>1
  <2>3. [data |-> dutQ[i].data, sent |-> FALSE] \in WbufEntry
    BY <2>2 DEF Drawn, Request, WbufEntry
  <2> QED
    BY <2>1, <2>2, <2>3, WithoutFacts
<1>7. CASE DutDrain
  <2>1. PICK a \in Addr : wbuf[a] # None /\ wbuf' = [wbuf EXCEPT ![a].sent = TRUE]
    BY <1>7 DEF DutDrain
  <2>2. [wbuf[a] EXCEPT !.sent = TRUE] \in WbufEntry
    BY <2>1 DEF WbufEntry
  <2> QED
    BY <1>7, <2>1, <2>2 DEF DutDrain
<1>8. CASE DutWriteAck \/ DutUcRead
  BY <1>8 DEF DutWriteAck, DutUcRead
<1>9. CASE DutUcSend
  BY <1>9 DEF DutUcSend, UcIdle
<1>10. CASE DutScFail \/ DutUcDone \/ DutCmo
  <2>1. dutQ' = <<>> /\ UNCHANGED <<miss, wbuf>> /\ uc' \in {uc, UcIdle}
    BY <1>10 DEF DutScFail, DutUcDone, DutCmo
  <2>2. DOMAIN cache' = DOMAIN cache
    <3>1. CASE DutScFail
      BY <3>1 DEF DutScFail
    <3>2. CASE DutUcDone
      <4>1. \E c, v : cache' = IF c THEN cache ELSE [cache EXCEPT ![dutQ[1].addr] = v]
        BY <3>2, Zenon DEF DutUcDone
      <4> QED
        BY <4>1
    <3>3. CASE DutCmo
      BY <3>3 DEF DutCmo
    <3> QED
      BY <1>10, <3>1, <3>2, <3>3
  <2>3. uc' = [busy |-> uc'.busy, rd |-> uc'.rd, wr |-> uc'.wr] /\ uc'.busy \in BOOLEAN
    <3>1. CASE uc' = uc
      BY <3>1
    <3>2. CASE uc' = UcIdle
      <4> HIDE DEF DeviceType
      <4> QED
        BY <3>2 DEF UcIdle
    <3> QED
      BY <2>1, <3>1, <3>2
  <2>4. dutQ' \in Seq(Drawn)
    BY <2>1
  <2> QED
    BY <2>1, <2>2, <2>3, <2>4
<1> QED
  BY <1>1, <1>2, <1>3, <1>4, <1>5, <1>6, <1>7, <1>8, <1>9, <1>10 DEF Next, DutStep

LEMMA BoardTypeStep ==
    ASSUME SequenceType, BoardType, ChanOK, IdsOK, Next
    PROVE  BoardType'
<1> USE DEF BoardType
<1>0. DOMAIN inflight' \subseteq Tids
  BY IdsStep
<1>1. CASE Simulate \/ SeqStep \/ DriverTake \/ CheckInflight \/ DriverFinish
  <2>1. UNCHANGED <<inflight, ram, inflightRd, inflightWr, lrsc, lrscRaw, amoFifo>>
    BY <1>1 DEF Simulate, SeqStep, DriverTake, CheckInflight, DriverFinish, sbVars,
                check_inflight_requests
  <2> QED
    BY <2>1
<1>2. CASE drive_request
  <2>1. core_req_process(drv.t) /\ drv.t \in Drawn
    BY <1>2 DEF drive_request, ChanOK
  <2>2. amoFifo' = amoFifo \/ \E e : amoFifo' = Append(amoFifo, e)
    BY <2>1 DEF core_req_process
  <2>3. lrsc' \in Addr \cup {None}
    BY <2>1 DEF core_req_process, ReservationAfter, Drawn, Request
  <2>6. lrscRaw' # None => lrsc' = None
    BY <2>1, Zenon DEF core_req_process, ReservationAfter, WritesReservation
  <2>4. UNCHANGED <<inflightRd, inflightWr>> /\ DOMAIN ram' = DOMAIN ram
    BY <2>1 DEF core_req_process, TrackRequest
  <2>5. IsSeq(amoFifo')
    <3>1. CASE amoFifo' = amoFifo
      BY <3>1
    <3>2. ASSUME NEW e, amoFifo' = Append(amoFifo, e)
          PROVE  IsSeq(amoFifo')
      BY <3>2, Pushed
    <3> QED
      BY <2>2, <3>1, <3>2
  <2> QED
    BY <1>0, <2>3, <2>4, <2>5, <2>6
<1>3. CASE DutStep
  <2>1. CASE UNCHANGED <<sbVars, ids>>
    BY <2>1 DEF sbVars
  <2>2. CASE \E t, data, err : Answer(t, data, err)
    BY <1>0, <2>2, AnswerEffect
  <2> QED
    BY <1>3, <2>1, <2>2, DeviceSteps
<1>4. CASE MemStep
  <2>1. /\ UNCHANGED <<lrsc, lrscRaw>> /\ DOMAIN ram' = DOMAIN ram
        /\ DOMAIN inflightRd' = DOMAIN inflightRd
        /\ DOMAIN inflightWr' = DOMAIN inflightWr
        /\ amoFifo' = amoFifo \/ (amoFifo # <<>> /\ amoFifo' = Tail(amoFifo))
    <3>1. CASE read_process \/ read_response_process
      BY <3>1 DEF read_process, read_response_process, mem_read_req_process,
                  mem_read_resp_process, Learnt
    <3>2. CASE write_process \/ write_response_process
      BY <3>2 DEF write_process, write_response_process, mem_write_req_process,
                  mem_write_resp_process
    <3>3. CASE readOperation \/ write_address_process \/ write_data_process \/ WritePush
      BY <3>3 DEF readOperation, write_address_process, write_data_process, WritePush,
                  sbVars
    <3> QED
      BY <1>4, <3>1, <3>2, <3>3 DEF MemStep
  <2> QED
    BY <1>0, <2>1, Popped
<1> QED
  BY <1>1, <1>2, <1>3, <1>4 DEF Next

\* The device touches only the request and the response channels; it drives
\* an address and its data at once, when both channels are free.
LEMMA DeviceChannels ==
    ASSUME DeviceType, DutStep
    PROVE  /\ UNCHANGED <<mem, rdOp, rdFifo, waFifo, wdFifo, overrun, wrOp, wrFifo, excl>>
           /\ \/ UNCHANGED <<waReq, wdReq>>
              \/ /\ waReq = None /\ wdReq = None
                 /\ waReq' \in WriteRequest /\ wdReq' \in WriteBeat
                 /\ waReq'.id = wdReq'.of
<1>1. CASE DutHit \/ DutStore \/ DutScFail \/ DutUcDone \/ DutCmo
  BY <1>1 DEF DutHit, DutStore, DutScFail, DutUcDone, DutCmo, memVars
<1>2. CASE DutMiss \/ DutRefill \/ DutWriteAck \/ DutUcRead
  BY <1>2 DEF DutMiss, DutRefill, DutWriteAck, DutUcRead
<1>3. ASSUME NEW req, NEW data, DutWrite(req, data), req \in WriteRequest, data \in Int
      PROVE  /\ UNCHANGED <<mem, rdOp, rdFifo, waFifo, wdFifo, overrun, wrOp, wrFifo, excl>>
             /\ waReq = None /\ wdReq = None
             /\ waReq' \in WriteRequest /\ wdReq' \in WriteBeat
             /\ waReq'.id = wdReq'.of
  BY <1>3 DEF DutWrite, WriteRequest, WriteBeat
<1>4. CASE DutDrain
  <2>1. PICK a \in Addr :
           wbuf[a] # None /\ DutWrite([id |-> a, addr |-> a, cmd |-> "WRITE"], wbuf[a].data)
    BY <1>4 DEF DutDrain
  <2>2. [id |-> a, addr |-> a, cmd |-> "WRITE"] \in WriteRequest
    BY DEF WriteRequest, MemIds
  <2>3. wbuf[a].data \in Int
    BY <2>1, WordFacts DEF DeviceType, WbufEntry
  <2> QED
    BY <1>3, <2>1, <2>2, <2>3
<1>5. CASE DutUcSend
  <2> DEFINE t == dutQ[1]
  <2>1. t \in Drawn
    BY <1>5 DEF DutUcSend, Ready, DeviceType
  <2>2. t.addr \in Addr /\ UcId \in MemIds /\ t.addr \in MemIds
    BY <2>1 DEF Drawn, Request, MemIds
  <2>3. t.data \in Int
    BY <2>1, WordFacts DEF Drawn, Request
  <2>4. CASE t.op = "LR"
    BY <1>5, <2>4 DEF DutUcSend, AmoOps
  <2>5. CASE t.op = "SC"
    <3>1. DutWrite([id |-> UcId, addr |-> t.addr, cmd |-> "STEX"], t.data)
      BY <1>5, <2>5 DEF DutUcSend, AmoOps
    <3>2. [id |-> UcId, addr |-> t.addr, cmd |-> "STEX"] \in WriteRequest
      BY <2>2 DEF WriteRequest, MemAtomics
    <3> QED
      BY <1>3, <2>3, <3>1, <3>2
  <2>6. CASE t.op \in AmoOps
    <3>1. DutWrite([id |-> UcId, addr |-> t.addr, cmd |-> MemAtomicOf[t.op]],
                   MemDataOf(t.op, t.data))
      BY <1>5, <2>6 DEF DutUcSend, AmoOps
    <3>2. [id |-> UcId, addr |-> t.addr, cmd |-> MemAtomicOf[t.op]] \in WriteRequest
      BY <2>2, <2>6, AtomicCommands DEF WriteRequest
    <3> QED
      BY <1>3, <2>3, <3>1, <3>2, WordFacts
  <2> QED
    BY <1>5, <2>4, <2>5, <2>6 DEF DutUcSend
<1> QED
  BY <1>1, <1>2, <1>4, <1>5 DEF DutStep

\* A lost handshake is never forgotten.
LEMMA OverrunStays ==
    ASSUME DeviceType, Next, ~overrun'
    PROVE  ~overrun
<1>1. CASE Simulate \/ SeqStep \/ DriverTake \/ drive_request \/ CheckInflight \/ DriverFinish
  BY <1>1 DEF Simulate, SeqStep, DriverTake, drive_request, CheckInflight, DriverFinish, memVars
<1>2. CASE DutStep
  BY <1>2, DeviceChannels
<1>3. CASE read_process \/ readOperation \/ read_response_process \/ write_address_process
  BY <1>3 DEF read_process, readOperation, read_response_process, write_address_process
<1>4. CASE write_data_process \/ write_process \/ WritePush \/ write_response_process
  BY <1>4 DEF write_data_process, write_process, MakeRoom, WritePush, write_response_process
<1> QED
  BY <1>1, <1>2, <1>3, <1>4 DEF Next, MemStep

\* When none is lost, a request enters its FIFO and write_process leaves the
\* channels alone.
LEMMA AddressTaken ==
    ASSUME write_address_process, ~overrun'
    PROVE  waFifo' = Append(waFifo, waReq)
BY DEF write_address_process, Taken

LEMMA BeatTaken ==
    ASSUME write_data_process, ~overrun'
    PROVE  wdFifo' = Append(wdFifo, wdReq)
BY DEF write_data_process, Taken

LEMMA ChannelsKept ==
    ASSUME write_process, ~overrun'
    PROVE  UNCHANGED <<waReq, wdReq>>
BY DEF write_process, MakeRoom

LEMMA MemoryTypeStep ==
    ASSUME DeviceType, MemoryType, Next
    PROVE  MemoryType'
<1> USE DEF MemoryType
<1>1. CASE Simulate \/ SeqStep \/ DriverTake \/ drive_request \/ CheckInflight \/ DriverFinish
  <2>1. UNCHANGED memVars
    BY <1>1 DEF Simulate, SeqStep, DriverTake, drive_request, CheckInflight, DriverFinish
  <2> QED
    BY <2>1 DEF memVars
<1>2. CASE DutStep
  BY <1>2, DeviceChannels
<1>3. CASE read_process
  BY <1>3 DEF read_process
<1>4. CASE readOperation
  BY <1>4, Pushed DEF readOperation
<1>5. CASE read_response_process
  BY <1>5, Popped DEF read_response_process
<1>6. CASE write_address_process
  <2>1. waReq \in WriteRequest /\ waFifo' \in {waFifo, Append(waFifo, waReq)}
    BY <1>6 DEF write_address_process, Taken
  <2> QED
    BY <1>6, <2>1 DEF write_address_process
<1>7. CASE write_data_process
  <2>1. wdReq \in WriteBeat /\ wdFifo' \in {wdFifo, Append(wdFifo, wdReq)}
    BY <1>7 DEF write_data_process, Taken
  <2> QED
    BY <1>7, <2>1 DEF write_data_process
<1>8. CASE write_process
  <2>1. waFifo' \in Seq(WriteRequest) /\ wdFifo' \in Seq(WriteBeat)
    BY <1>8 DEF write_process
  <2>2. DOMAIN mem' = DOMAIN mem /\ DOMAIN excl' = DOMAIN excl
    BY <1>8 DEF write_process, WriteOperation, writeMemory
  <2>3. IsSeq(wrOp')
    <3>1. \E old, ack, amo : wrOp' = WriteResponses(old, ack, amo)
      BY <1>8, Zenon DEF write_process, WriteOperation
    <3>2. PICK old, ack : wrOp' = <<old, ack>> \/ wrOp' = <<ack>>
      BY <3>1 DEF WriteResponses
    <3> DEFINE S == {old, ack}
    <3>3. wrOp' \in Seq(S)
      <4>1. old \in S /\ ack \in S
        OBVIOUS
      <4> HIDE DEF S
      <4>2. <<old, ack>> \in Seq(S) /\ <<ack>> \in Seq(S)
        BY <4>1
      <4> QED
        BY <3>2, <4>2
    <3> QED
      BY <3>3, SeqIsSeq
  <2>4. waReq' \in {waReq, None} /\ wdReq' \in {wdReq, None}
    BY <1>8 DEF write_process, MakeRoom, Released
  <2> QED
    BY <1>8, <2>1, <2>2, <2>3, <2>4 DEF write_process
<1>9. CASE WritePush
  <2>1. IsSeq(wrOp')
    BY <1>9, Popped DEF WritePush
  <2>2. /\ \E r : rdFifo' = Append(rdFifo, r) \/ rdFifo' = rdFifo
        /\ \E r : wrFifo' = Append(wrFifo, r) \/ wrFifo' = wrFifo
    BY <1>9 DEF WritePush
  <2>3. IsSeq(rdFifo') /\ IsSeq(wrFifo')
    <3>1. PICK r, w : /\ rdFifo' = Append(rdFifo, r) \/ rdFifo' = rdFifo
                      /\ wrFifo' = Append(wrFifo, w) \/ wrFifo' = wrFifo
      BY <2>2
    <3>2. IsSeq(Append(rdFifo, r)) /\ IsSeq(Append(wrFifo, w))
      BY Pushed
    <3> QED
      BY <3>1, <3>2
  <2> QED
    BY <1>9, <2>1, <2>3 DEF WritePush
<1>10. CASE write_response_process
  BY <1>10, Popped DEF write_response_process
<1> QED
  BY <1>1, <1>2, <1>3, <1>4, <1>5, <1>6, <1>7, <1>8, <1>9, <1>10 DEF Next, MemStep

LEMMA PairedStep ==
    ASSUME DeviceType, MemoryType, Paired, Next, ~overrun'
    PROVE  Paired'
<1> USE DEF Paired, MemoryType
<1>1. CASE UNCHANGED <<waReq, wdReq, waFifo, wdFifo>>
  BY <1>1
<1>2. CASE Simulate \/ SeqStep \/ DriverTake \/ drive_request \/ CheckInflight \/ DriverFinish
  BY <1>1, <1>2 DEF Simulate, SeqStep, DriverTake, drive_request, CheckInflight,
                    DriverFinish, memVars
<1>3. CASE DutStep
  <2>1. CASE UNCHANGED <<waReq, wdReq>>
    BY <1>1, <1>3, <2>1, DeviceChannels
  <2>2. CASE /\ waReq = None /\ wdReq = None
             /\ waReq' \in WriteRequest /\ wdReq' \in WriteBeat
             /\ waReq'.id = wdReq'.of
    <3>1. waReq' # None /\ wdReq' # None /\ UNCHANGED <<waFifo, wdFifo>>
      BY <1>3, <2>2, DeviceChannels, ChannelAssumption
    <3> QED
      BY <2>2, <3>1
  <2> QED
    BY <1>3, <2>1, <2>2, DeviceChannels
<1>4. CASE write_address_process
  <2>1. /\ waReq # None /\ waReq' = None /\ waFifo' = Append(waFifo, waReq)
        /\ UNCHANGED <<wdReq, wdFifo>> /\ waReq \in WriteRequest
    BY <1>4, AddressTaken DEF write_address_process
  <2>2. /\ Len(waFifo') = Len(waFifo) + 1 /\ waFifo'[Len(waFifo) + 1] = waReq
        /\ \A i \in 1 .. Len(waFifo) : waFifo'[i] = waFifo[i]
    BY <2>1
  <2> QED
    BY <2>1, <2>2
<1>5. CASE write_data_process
  <2>1. /\ wdReq # None /\ wdReq' = None /\ wdFifo' = Append(wdFifo, wdReq)
        /\ UNCHANGED <<waReq, waFifo>> /\ wdReq \in WriteBeat
    BY <1>5, BeatTaken DEF write_data_process
  <2>2. /\ Len(wdFifo') = Len(wdFifo) + 1 /\ wdFifo'[Len(wdFifo) + 1] = wdReq
        /\ \A i \in 1 .. Len(wdFifo) : wdFifo'[i] = wdFifo[i]
    BY <2>1
  <2> QED
    BY <2>1, <2>2
<1>6. CASE write_process
  <2>1. /\ waFifo # <<>> /\ wdFifo # <<>> /\ UNCHANGED <<waReq, wdReq>>
        /\ waFifo' = Tail(waFifo) /\ wdFifo' = Tail(wdFifo)
    BY <1>6, ChannelsKept DEF write_process
  <2>2. /\ Len(waFifo) > 0 /\ Len(waFifo') = Len(waFifo) - 1
        /\ \A i \in 1 .. Len(waFifo) - 1 : waFifo'[i] = waFifo[i + 1]
        /\ Len(wdFifo) > 0 /\ Len(wdFifo') = Len(wdFifo) - 1
        /\ \A i \in 1 .. Len(wdFifo) - 1 : wdFifo'[i] = wdFifo[i + 1]
    BY <2>1
  <2> QED
    BY <2>1, <2>2
<1>7. CASE read_process \/ readOperation \/ read_response_process \/ WritePush
           \/ write_response_process
  BY <1>1, <1>7 DEF read_process, readOperation, read_response_process, WritePush,
                    write_response_process
<1> QED
  BY <1>2, <1>3, <1>4, <1>5, <1>6, <1>7 DEF Next, MemStep

-----------------------------------------------------------------------------
(* What holds whatever the device answers.                                   *)

TbAlways == TbTypeOK /\ ChanOK /\ IdsOK /\ (~overrun => Paired)

LEMMA BaseInit == Init => TbAlways
<1> SUFFICES ASSUME Init
             PROVE  TbAlways
  OBVIOUS
<1> USE DEF Init
<1>1. SequenceType /\ ChanOK
  BY DEF SequenceInit, SequenceType, ChanOK
<1>2. IsSeq(<<>>)
  <2>1. <<>> \in Seq({})
    OBVIOUS
  <2> QED
    BY <2>1, SeqIsSeq
<1>3. DeviceType
  BY DEF DeviceType, UcIdle
<1>4. BoardType
  BY <1>2, SbAssumption DEF ScoreboardInit, BoardType
<1>5. MemoryType /\ Paired
  BY <1>2, MemAssumption DEF MemInit, MemoryType, Paired
<1>6. IdsOK
  BY DEF SequenceInit, ScoreboardInit, IdsOK, Waiting
<1> QED
  BY <1>1, <1>3, <1>4, <1>5, <1>6 DEF TbAlways, TbTypeOK

LEMMA BaseStep == TbAlways /\ [Next]_vars => TbAlways'
<1> SUFFICES ASSUME TbAlways, [Next]_vars
             PROVE  TbAlways'
  OBVIOUS
<1> USE DEF TbAlways, TbTypeOK
<1>1. CASE Next
  <2>1. ~overrun' => Paired'
    BY <1>1, OverrunStays, PairedStep
  <2> QED
    BY <1>1, <2>1, ChanStep, IdsStep, DeviceTypeStep, BoardTypeStep, MemoryTypeStep
<1>2. CASE UNCHANGED vars
  <2>1. SequenceType' /\ DeviceType' /\ ChanOK'
    BY <1>2 DEF vars, seqVars, dutVars, SequenceType, DeviceType, ChanOK
  <2>2. BoardType' /\ MemoryType' /\ (~overrun' => Paired')
    BY <1>2 DEF vars, sbVars, memVars, BoardType, MemoryType, Paired
  <2>3. IdsOK'
    BY <1>2 DEF vars, seqVars, sbVars, IdsOK, Waiting
  <2> QED
    BY <2>1, <2>2, <2>3
<1> QED
  BY <1>1, <1>2

\* As long as no handshake was lost on a full FIFO, each data beat that
\* write_process takes out of its FIFO with an address was sent for that
\* address, whatever the order in which the two threads take from the
\* channels and the answers of the cache.
THEOREM BeatsArePaired == Spec => []BeatsPaired
<1>1. TbAlways => BeatsPaired
  BY DEF TbAlways, TbTypeOK, MemoryType, Paired, BeatsPaired
<1> QED
  BY <1>1, BaseInit, BaseStep, PTL DEF Spec

-----------------------------------------------------------------------------
(* A request leaves the device.                                              *)

LEMMA BugStays ==
    ASSUME Next, bug' = None
    PROVE  bug = None
<1>1. CASE Simulate \/ SeqStep \/ MemStep \/ DriverTake \/ drive_request \/ CheckInflight
           \/ DriverFinish
  BY <1>1 DEF Simulate, SeqStep, MemStep, DriverTake, drive_request, CheckInflight,
              DriverFinish, dutVars
<1>2. CASE DutHit \/ DutRefill \/ DutStore \/ DutScFail \/ DutUcDone \/ DutCmo
  <2>1. \E t, data, err : Answer(t, data, err)
    BY <1>2, Zenon DEF DutHit, DutRefill, DutStore, DutScFail, DutUcDone, DutCmo
  <2> QED
    BY <2>1, AnswerEffect
<1>3. CASE DutMiss \/ DutDrain \/ DutWriteAck \/ DutUcRead \/ DutUcSend
  BY <1>3 DEF DutMiss, DutDrain, DutWriteAck, DutUcRead, DutUcSend
<1> QED
  BY <1>1, <1>2, <1>3 DEF Next, DutStep

\* While no handshake was lost.
TbBase == TbTypeOK /\ ChanOK /\ IdsOK /\ Paired

\* A right answer to t takes at most t out of the table.
Answered(t) ==
    /\ UNCHANGED <<inflightRd, inflightWr, lrsc, amoFifo>>
    /\ \A x \in DOMAIN inflight : x # t.tid \/ ~t.needRsp =>
          x \in DOMAIN inflight' /\ inflight'[x] = inflight[x]

LEMMA RightEffect ==
    ASSUME NEW t, NEW data, NEW err, Answer(t, data, err), bug' = None
    PROVE  Answered(t)
<1>1. Right(t, data, err) /\ UNCHANGED <<inflightRd, inflightWr, lrsc, amoFifo>>
  BY AnswerEffect
<1>2. CASE t.needRsp
  <2>1. core_resp_process([tid |-> t.tid, data |-> data, error |-> err])
    BY <1>1, <1>2 DEF Right
  <2>2. inflight' \in {inflight, [x \in DOMAIN inflight \ {t.tid} |-> inflight[x]]}
    BY <2>1 DEF core_resp_process
  <2>3. CASE inflight' = inflight
    BY <1>1, <2>3 DEF Answered
  <2>4. CASE inflight' = [x \in DOMAIN inflight \ {t.tid} |-> inflight[x]]
    BY <1>1, <1>2, <2>4 DEF Answered
  <2> QED
    BY <2>2, <2>3, <2>4
<1>3. CASE ~t.needRsp
  BY <1>1, <1>3 DEF Right, Answered, sbVars
<1> QED
  BY <1>2, <1>3

\* Where the requests are when request i has left the queue.
LEMMA RemovedFacts ==
    ASSUME DeviceType, NEW i \in 1 .. Len(dutQ), dutQ' = Without(i)
    PROVE  /\ Len(dutQ) \in Nat \ {0} /\ Len(dutQ') = Len(dutQ) - 1
           /\ \A j \in 1 .. Len(dutQ') :
                 /\ j < i => dutQ'[j] = dutQ[j]
                 /\ ~(j < i) => dutQ'[j] = dutQ[j + 1] /\ j + 1 \in 1 .. Len(dutQ)
           /\ \A k \in 1 .. Len(dutQ) :
                 /\ k < i => k \in 1 .. Len(dutQ') /\ dutQ'[k] = dutQ[k]
                 /\ k > i => k - 1 \in 1 .. Len(dutQ') /\ dutQ'[k - 1] = dutQ[k]
           /\ \A k \in 1 .. Len(dutQ) : k # i =>
                 \E j \in 1 .. Len(dutQ') : dutQ'[j] = dutQ[k]
           /\ \A j \in 1 .. Len(dutQ') :
                 \E k \in 1 .. Len(dutQ) : k # i /\ dutQ'[j] = dutQ[k]
<1>1. /\ Len(dutQ) \in Nat \ {0} /\ Len(dutQ') = Len(dutQ) - 1
      /\ \A j \in 1 .. Len(dutQ) - 1 : dutQ'[j] = IF j < i THEN dutQ[j] ELSE dutQ[j + 1]
  BY WithoutFacts DEF DeviceType
<1>2. \A j \in 1 .. Len(dutQ') :
         /\ j < i => dutQ'[j] = dutQ[j]
         /\ ~(j < i) => dutQ'[j] = dutQ[j + 1] /\ j + 1 \in 1 .. Len(dutQ)
  BY <1>1
<1>3. \A k \in 1 .. Len(dutQ) :
         /\ k < i => k \in 1 .. Len(dutQ') /\ dutQ'[k] = dutQ[k]
         /\ k > i => k - 1 \in 1 .. Len(dutQ') /\ dutQ'[k - 1] = dutQ[k]
  <2>1. ASSUME NEW k \in 1 .. Len(dutQ), k > i
        PROVE  k - 1 \in 1 .. Len(dutQ') /\ dutQ'[k - 1] = dutQ[k]
    <3>1. k - 1 \in 1 .. Len(dutQ') /\ ~(k - 1 < i) /\ (k - 1) + 1 = k
      BY <1>1, <2>1
    <3> QED
      BY <1>2, <3>1
  <2> QED
    BY <1>1, <2>1
<1>4. ASSUME NEW k \in 1 .. Len(dutQ), k # i
      PROVE  \E j \in 1 .. Len(dutQ') : dutQ'[j] = dutQ[k]
  <2>1. k < i \/ k > i
    BY <1>4
  <2> QED
    BY <1>3, <2>1
<1>5. ASSUME NEW j \in 1 .. Len(dutQ')
      PROVE  \E k \in 1 .. Len(dutQ) : k # i /\ dutQ'[j] = dutQ[k]
  <2>1. CASE j < i
    <3>1. j \in 1 .. Len(dutQ) /\ j # i /\ dutQ'[j] = dutQ[j]
      BY <1>1, <1>2, <2>1
    <3> QED
      BY <3>1
  <2>2. CASE ~(j < i)
    <3>1. j + 1 \in 1 .. Len(dutQ) /\ j + 1 # i /\ dutQ'[j] = dutQ[j + 1]
      BY <1>1, <1>2, <2>2
    <3> QED
      BY <3>1
  <2> QED
    BY <2>1, <2>2
<1> QED
  BY <1>1, <1>2, <1>3, <1>4, <1>5

\* A load, a prefetch or a store leaves the queue.
LEMMA PlainRemoved ==
    ASSUME DeviceType, QueueOK, AtomicsOK, ReservationsOK, ~uc.busy,
           NEW i \in 1 .. Len(dutQ), ~IsFence(dutQ[i].op), Answered(dutQ[i]),
           dutQ' = Without(i),
           rsv' = IF dutQ[i].op = "STORE" /\ rsv = dutQ[i].addr THEN None ELSE rsv,
           UNCHANGED <<uc, kind, excl>>
    PROVE  QueueOK' /\ AtomicsOK' /\ ReservationsOK'
<1> DEFINE n == Len(dutQ)
           q == dutQ
           r == dutQ'
<1>0. n \in Nat \ {0} /\ i \in 1 .. n /\ Len(r) = n - 1
  BY RemovedFacts
<1>a. \A j \in 1 .. n - 1 :
         /\ j < i => r[j] = q[j]
         /\ ~(j < i) => r[j] = q[j + 1] /\ j + 1 \in 1 .. n
  BY <1>0, RemovedFacts
<1>b. \A k \in 1 .. n : k # i => \E j \in 1 .. n - 1 : r[j] = q[k]
  BY <1>0, RemovedFacts
<1>c. \A j \in 1 .. n - 1 : \E k \in 1 .. n : k # i /\ r[j] = q[k]
  BY <1>0, RemovedFacts
<1>1. \A k \in 1 .. n : q[k].needRsp /\ k # i =>
         q[k].tid \in DOMAIN inflight' /\ inflight'[q[k].tid] = inflight[q[k].tid]
  <2> SUFFICES ASSUME NEW k \in 1 .. n, q[k].needRsp, k # i
               PROVE  q[k].tid \in DOMAIN inflight' /\ inflight'[q[k].tid] = inflight[q[k].tid]
    OBVIOUS
  <2>1. q[k].tid \in DOMAIN inflight /\ (q[k].tid # q[i].tid \/ ~q[i].needRsp)
    BY DEF QueueOK
  <2> QED
    BY <2>1 DEF Answered
<1>2. QueueOK'
  <2>1. \A j \in 1 .. (n - 1) - 1 : ~IsFence(r[j].op)
    <3> SUFFICES ASSUME NEW j \in 1 .. (n - 1) - 1
                 PROVE  ~IsFence(r[j].op)
      OBVIOUS
    <3>1. j \in 1 .. n - 1 /\ j + 1 \in 1 .. n - 1
      BY <1>0
    <3> QED
      BY <1>a, <3>1 DEF QueueOK
  <2>2. \A j \in 1 .. n - 1 : r[j].needRsp =>
           /\ r[j].tid \in DOMAIN inflight'
           /\ inflight'[r[j].tid].op = r[j].op
           /\ inflight'[r[j].tid].addr = r[j].addr
           /\ inflight'[r[j].tid].data = r[j].data
    <3> HIDE DEF n, q, r
    <3>1. \A k \in 1 .. n : q[k].needRsp /\ k # i =>
             /\ inflight[q[k].tid].op = q[k].op
             /\ inflight[q[k].tid].addr = q[k].addr
             /\ inflight[q[k].tid].data = q[k].data
      BY DEF QueueOK, n, q
    <3> QED
      BY <1>c, <1>1, <3>1
  <2>3. \A j, k \in 1 .. n - 1 :
           r[j].needRsp /\ r[k].needRsp /\ r[j].tid = r[k].tid => j = k
    <3>1. ASSUME NEW j \in 1 .. n - 1
          PROVE  LET s == IF j < i THEN j ELSE j + 1
                 IN  s \in 1 .. n /\ r[j] = q[s]
      BY <1>0, <1>a
    <3> SUFFICES ASSUME NEW j \in 1 .. n - 1, NEW k \in 1 .. n - 1, r[j].needRsp,
                        r[k].needRsp, r[j].tid = r[k].tid
                 PROVE  j = k
      OBVIOUS
    <3>2. (IF j < i THEN j ELSE j + 1) = (IF k < i THEN k ELSE k + 1)
      BY <3>1 DEF QueueOK
    <3> QED
      BY <1>0, <3>2
  <2> QED
    BY <1>0, <2>1, <2>2, <2>3 DEF QueueOK
\* The last request, when it is a fence, stays the last.
<1>3. n - 1 > 0 /\ IsFence(r[n - 1].op) => i # n
  <2> SUFFICES ASSUME i = n, n - 1 > 0
               PROVE  ~IsFence(r[n - 1].op)
    OBVIOUS
  <2>1. n - 1 \in 1 .. n - 1 /\ n - 1 < i
    BY <1>0
  <2> QED
    BY <1>a, <2>1 DEF QueueOK
<1>4. i # n => n - 1 > 0 /\ r[n - 1] = q[n] /\ n \in 1 .. n
  <2> SUFFICES ASSUME i # n
               PROVE  n - 1 > 0 /\ r[n - 1] = q[n] /\ n \in 1 .. n
    OBVIOUS
  <2>1. n - 1 \in 1 .. n - 1 /\ ~(n - 1 < i) /\ (n - 1) + 1 = n /\ n \in 1 .. n
    BY <1>0
  <2> QED
    BY <1>0, <1>a, <2>1
<1>5. \A op : IsRmw(op) => IsFence(op)
  BY DEF IsFence
<1>6. IsRmw("LR") /\ IsRmw("SC")
  BY DEF IsRmw
<1>7. n > 0 /\ IsRmw(q[n].op) => q[n].needRsp
  BY <1>0 DEF DeviceType, Drawn
<1>8. AtomicsOK'
  <2>1. UNCHANGED amoFifo
    BY DEF Answered
  <2>2. amoFifo # <<>> =>
           /\ Len(amoFifo) = 1 /\ n - 1 > 0 /\ IsRmw(r[n - 1].op)
           /\ amoFifo[1] = inflight'[r[n - 1].tid]
           /\ r[n - 1].op = "SC" => amoFifo[1].atomic
    <3> SUFFICES ASSUME amoFifo # <<>>
                 PROVE  /\ Len(amoFifo) = 1 /\ n - 1 > 0 /\ IsRmw(r[n - 1].op)
                        /\ amoFifo[1] = inflight'[r[n - 1].tid]
                        /\ r[n - 1].op = "SC" => amoFifo[1].atomic
      OBVIOUS
    <3>1. /\ Len(amoFifo) = 1 /\ IsRmw(q[n].op) /\ amoFifo[1] = inflight[q[n].tid]
          /\ q[n].op = "SC" => amoFifo[1].atomic
      BY DEF AtomicsOK
    <3>2. i # n
      BY <1>5, <3>1
    <3> HIDE DEF n, q, r
    <3> QED
      BY <1>1, <1>4, <1>7, <1>0, <3>1, <3>2
  <2>3. n - 1 > 0 /\ IsRmw(r[n - 1].op)
        /\ (r[n - 1].op = "SC" => inflight'[r[n - 1].tid].atomic) => amoFifo # <<>>
    <3> SUFFICES ASSUME n - 1 > 0, IsRmw(r[n - 1].op),
                        r[n - 1].op = "SC" => inflight'[r[n - 1].tid].atomic
                 PROVE  amoFifo # <<>>
      OBVIOUS
    <3>1. i # n
      BY <1>3, <1>5
    <3>2. r[n - 1] = q[n] /\ inflight'[q[n].tid] = inflight[q[n].tid]
      <4> HIDE DEF n, q, r
      <4> QED
        BY <1>0, <1>1, <1>4, <1>7, <3>1
    <3> QED
      BY <1>0, <3>2 DEF AtomicsOK
  <2> QED
    BY <1>0, <2>1, <2>2, <2>3 DEF AtomicsOK
<1>9. ReservationsOK'
  <2> DEFINE last(op) == n > 0 /\ q[n].op = op
             left == IF rsv # None /\ ~Killed(rsv) THEN rsv ELSE None
  <2>1. UNCHANGED lrsc
    BY DEF Answered
  <2>2. \A a : Killed(a)' => Killed(a)
    BY <1>0, <1>c DEF Killed
  <2>3. \A a : Killed(a) => Killed(a)' \/ (dutQ[i].op = "STORE" /\ dutQ[i].addr = a)
    <3> SUFFICES ASSUME NEW a, NEW k \in 1 .. n, q[k].op \in AmoOps \cup {"STORE"},
                        q[k].addr = a
                 PROVE  Killed(a)' \/ (q[i].op = "STORE" /\ q[i].addr = a)
      BY DEF Killed
    <3>1. CASE k = i
      BY <3>1 DEF IsFence, IsRmw
    <3>2. CASE k # i
      <4>1. PICK j \in 1 .. n - 1 : r[j] = q[k]
        BY <1>b, <3>2
      <4> QED
        BY <1>0, <4>1 DEF Killed
    <3> QED
      BY <3>1, <3>2
  <2>4. left' = left
    <3>1. CASE rsv' = rsv
      <4>0. ~(dutQ[i].op = "STORE" /\ dutQ[i].addr = rsv)
        BY <3>1, SbAssumption DEF DeviceType, Drawn, Request
      <4>1. Killed(rsv)' <=> Killed(rsv)
        BY <2>2, <2>3, <3>1, <4>0
      <4> QED
        BY <3>1, <4>1
    <3>2. CASE rsv' # rsv
      <4>1. rsv' = None /\ dutQ[i].op = "STORE" /\ rsv = dutQ[i].addr
        BY <3>2
      <4>2. Killed(rsv)
        BY <4>1 DEF Killed
      <4> QED
        BY <4>1, <4>2
    <3> QED
      BY <3>1, <3>2
  <2>5. ASSUME NEW op \in {"LR", "SC"}
        PROVE  /\ last(op)' <=> last(op)
               /\ last(op) => i # n
    <3>1. IsFence(op)
      BY <1>5, <1>6
    <3>2. last(op) => i # n
      BY <3>1
    <3>3. last(op) => last(op)'
      BY <1>0, <1>4, <3>2
    <3>4. last(op)' => last(op)
      BY <1>0, <1>3, <1>4, <3>1
    <3> QED
      BY <3>2, <3>3, <3>4
  <2>6. /\ rsv \in Addr \cup {None} /\ (rsv # None => ~within_error_region(rsv))
        /\ last("LR") => lrsc = IF within_error_region(q[n].addr) THEN None ELSE q[n].addr
        /\ last("SC") => lrsc = None /\ (inflight[q[n].tid].atomic <=> left = q[n].addr)
        /\ ~last("LR") /\ ~last("SC") => lrsc = left
        /\ rsv # None => excl[UcId] = rsv
    BY DEF ReservationsOK
  <2>7. \A a \in Addr : within_error_region(a)' <=> within_error_region(a)
    BY DEF within_error_region
  <2>8. last("SC") => inflight'[q[n].tid] = inflight[q[n].tid] /\ r[n - 1] = q[n]
    <3>1. last("SC") => i # n /\ q[n].needRsp
      BY <1>6, <1>7, <2>5
    <3> QED
      BY <1>0, <1>1, <1>4, <3>1
  <2>9. last("LR") => r[n - 1] = q[n]
    BY <1>4, <2>5
  <2> QED
    BY <1>0, <2>1, <2>4, <2>5, <2>6, <2>8, <2>9 DEF ReservationsOK, within_error_region
<1> QED
  BY <1>2, <1>8, <1>9

-----------------------------------------------------------------------------
(* The steps of the device.                                                  *)

InOrder ==
    QueueOK /\ DeviceOK /\ ReadsOK /\ WritesOK /\ AcksOK /\ AtomicsOK /\ ReservationsOK

\* No address is None or the identifier of the atomic requests.
LEMMA Identifiers ==
    /\ UcId \in MemIds /\ \A a \in Addr : a \in MemIds /\ a # UcId /\ a # None
    /\ \A i \in MemIds : i # UcId => i \in Addr
BY SbAssumption DEF MemIds

LEMMA WriteIds ==
    ASSUME MemoryType
    PROVE  /\ waReq # None => waReq.id \in MemIds
           /\ IsSeq(waFifo) /\ \A r \in Elems(waFifo) : r.id \in MemIds
<1>1. IsSeq(waFifo) /\ Elems(waFifo) \subseteq WriteRequest
  BY SeqIsSeq DEF MemoryType
<1>2. waReq # None => waReq \in WriteRequest
  BY DEF MemoryType
<1> QED
  BY <1>1, <1>2 DEF WriteRequest

\* While no atomic request is sent, none is in the memory, and the requests
\* of the device matter to the memory only through its misses and its writes.
LEMMA QuietWrites ==
    ASSUME MemoryType, DeviceOK, WritesOK, AcksOK, ~uc.busy,
           UNCHANGED <<uc, kind, inflightWr, waReq, waFifo, wrOp, wrFifo, wrResp>>,
           \A a \in Addr : wbuf[a] # None /\ wbuf[a].sent =>
                              wbuf'[a] # None /\ wbuf'[a].sent
    PROVE  WritesOK' /\ AcksOK'
<1>1. \A a : within_error_region(a)' <=> within_error_region(a)
  BY DEF within_error_region
<1>2. ASSUME NEW r, r.id \in MemIds, WriteRequestOK(r)
      PROVE  WriteRequestOK(r)'
  BY <1>2, Identifiers DEF WriteRequestOK
<1>3. ASSUME NEW r, WriteResponseOK(r)
      PROVE  WriteResponseOK(r)' /\ r.id # UcId
  BY <1>3, Identifiers DEF WriteResponseOK
<1>4. \A i : i # UcId => AddrOf(i)' = AddrOf(i)
  BY DEF AddrOf
<1>5. WritesOK'
  <2>1. /\ waReq # None => waReq.id \in MemIds
        /\ \A r \in Elems(waFifo) : r.id \in MemIds
    BY WriteIds
  <2>2. UNCHANGED <<Elems(waFifo), Distinct(waFifo), Elems(wrFifo), Distinct(wrFifo)>>
    BY DEF Elems, Distinct
  <2>3. waReq' # None =>
           /\ WriteRequestOK(waReq)' /\ inflightWr'[waReq'.id] = None
           /\ ~Has(waFifo, waReq.id)' /\ ~Holds(wrResp, waReq.id)'
    BY <1>2, <2>1 DEF WritesOK, Has, Holds, Elems
  <2>4. \A r \in Elems(waFifo)' :
           /\ WriteRequestOK(r)' /\ inflightWr'[r.id] = None
           /\ ~Holds(wrResp, r.id)'
    BY <1>2, <2>1, <2>2 DEF WritesOK, Holds
  <2>5. \A r \in Elems(wrFifo)' : WriteResponseOK(r)' /\ inflightWr'[r.id] = AddrOf(r.id)'
    BY <1>3, <1>4, <2>2 DEF WritesOK
  <2>6. wrResp' # None => WriteResponseOK(wrResp)' /\ inflightWr'[wrResp'.id] = None
    BY <1>3 DEF WritesOK
  <2>7. \A i \in MemIds : inflightWr'[i] # None =>
           i # UcId /\ wbuf'[i] # None /\ wbuf'[i].sent
    BY Identifiers DEF WritesOK
  <2>8. uc'.wr = None
    BY DEF DeviceOK
  <2> QED
    BY <2>2, <2>3, <2>4, <2>5, <2>6, <2>7, <2>8 DEF WritesOK
<1>6. AcksOK'
  <2>1. Len(wrOp) # 2
    BY DEF AcksOK, ReadResponseOK
  <2> QED
    BY <1>3, <1>4, <2>1 DEF AcksOK, Has, Elems
<1> QED
  BY <1>5, <1>6

LEMMA QuietReads ==
    ASSUME DeviceOK, ReadsOK, ~uc.busy,
           UNCHANGED <<uc, kind, miss, inflightRd, rdReq, rdOp, rdFifo, rdResp>>
    PROVE  ReadsOK'
<1>1. \A a : within_error_region(a)' <=> within_error_region(a)
  BY DEF within_error_region
<1>2. ASSUME NEW r, ReadRequestOK(r)
      PROVE  ReadRequestOK(r)'
  BY <1>2 DEF ReadRequestOK
<1>3. ASSUME NEW r, ReadResponseOK(r)
      PROVE  ReadResponseOK(r)' /\ r.id # UcId
  BY <1>1, <1>3 DEF ReadResponseOK
<1>4. \A i : i # UcId => AddrOf(i)' = AddrOf(i)
  BY DEF AddrOf
<1>5. UNCHANGED <<Elems(rdFifo), Distinct(rdFifo)>>
  BY DEF Elems, Distinct
<1>6. /\ rdReq' # None => ReadRequestOK(rdReq)' /\ inflightRd'[rdReq'.id] = None
      /\ rdOp' # None =>
            /\ ReadRequestOK(rdOp)' /\ inflightRd'[rdOp'.id] = rdOp'.addr
            /\ ~Has(rdFifo, rdOp.id)'
  BY <1>2 DEF ReadsOK, Has, Elems
<1>7. \A r \in Elems(rdFifo)' : ReadResponseOK(r)' /\ inflightRd'[r.id] = AddrOf(r.id)'
  BY <1>3, <1>4, <1>5 DEF ReadsOK
<1>8. rdResp' # None =>
         /\ ReadResponseOK(rdResp)' /\ inflightRd'[rdResp'.id] = None
         /\ ~Holds(rdReq, rdResp.id)'
  BY <1>3 DEF ReadsOK, Holds
<1>9. \A i \in MemIds : inflightRd'[i] # None => i # UcId /\ i \in miss'
  BY DEF ReadsOK
<1>10. uc'.rd = None
  BY DEF DeviceOK
<1> QED
  BY <1>5, <1>6, <1>7, <1>8, <1>9, <1>10 DEF ReadsOK

LEMMA QuietMemory ==
    ASSUME MemoryType, DeviceOK, ReadsOK, WritesOK, AcksOK, ~uc.busy,
           UNCHANGED <<uc, kind, miss, inflightRd, inflightWr, memVars>>,
           \A a \in Addr : wbuf[a] # None /\ wbuf[a].sent =>
                              wbuf'[a] # None /\ wbuf'[a].sent
    PROVE  ReadsOK' /\ WritesOK' /\ AcksOK'
BY QuietReads, QuietWrites DEF memVars

\* A request that is no atomic operation is performed when none is sent.
LEMMA NotBusy ==
    ASSUME DeviceType, DeviceOK, NEW i \in 1 .. Len(dutQ), ~IsRmw(dutQ[i].op)
    PROVE  ~uc.busy
BY DEF DeviceType, DeviceOK

\* A request of another line leaves the queue: the oldest one of a line stays.
LEMMA OldestStays ==
    ASSUME DeviceType, NEW i \in 1 .. Len(dutQ), dutQ' = Without(i),
           NEW k \in 1 .. Len(dutQ), k # i, Oldest(k)
    PROVE  \E j \in 1 .. Len(dutQ') : dutQ'[j] = dutQ[k] /\ Oldest(j)'
<1>0. Len(dutQ) \in Nat
  BY DEF DeviceType
<1>1. CASE k < i
  <2>1. k \in 1 .. Len(dutQ') /\ dutQ'[k] = dutQ[k]
    BY <1>1, RemovedFacts
  <2>2. \A j \in 1 .. k - 1 : j \in 1 .. Len(dutQ) /\ j < i
    BY <1>0, <1>1
  <2>3. \A j \in 1 .. k - 1 : dutQ'[j] = dutQ[j]
    BY <2>2, RemovedFacts
  <2>4. Oldest(k)'
    BY <2>1, <2>3 DEF Oldest
  <2> QED
    BY <2>1, <2>4
<1>2. CASE k > i
  <2>1. k - 1 \in 1 .. Len(dutQ') /\ dutQ'[k - 1] = dutQ[k]
    BY <1>2, RemovedFacts
  <2>2. ASSUME NEW j \in 1 .. (k - 1) - 1
        PROVE  dutQ'[j].addr # dutQ[k].addr
    <3>1. j \in 1 .. Len(dutQ') /\ j \in 1 .. k - 1 /\ j + 1 \in 1 .. k - 1
      BY <1>0, <1>2, <2>1
    <3>2. dutQ'[j] = dutQ[j] \/ dutQ'[j] = dutQ[j + 1]
      BY <3>1, RemovedFacts
    <3> QED
      BY <3>1, <3>2 DEF Oldest
  <2>3. Oldest(k - 1)'
    BY <2>1, <2>2 DEF Oldest
  <2> QED
    BY <2>1, <2>3
<1> QED
  BY <1>0, <1>1, <1>2

LEMMA HitStep ==
    ASSUME TbBase, InOrder, DutHit, UNCHANGED kind, bug' = None
    PROVE  InOrder'
<1> USE DEF TbBase, TbTypeOK, InOrder
<1>1. PICK i \in 1 .. Len(dutQ) :
         /\ dutQ[i].op \in {"LOAD", "CMO_PREFETCH"} /\ cache[dutQ[i].addr] # None
         /\ Answer(dutQ[i], cache[dutQ[i].addr], FALSE)
         /\ dutQ' = Without(i)
         /\ UNCHANGED <<cache, miss, wbuf, rsv, uc, memVars>>
  <2>1. DOMAIN dutQ = 1 .. Len(dutQ)
    BY DEF DeviceType
  <2> QED
    BY <2>1, Zenon DEF DutHit
<1>2. ~IsFence(dutQ[i].op) /\ ~IsRmw(dutQ[i].op) /\ dutQ[i].op # "STORE"
  BY <1>1 DEF IsFence, IsRmw, AmoOps, CmoOps
<1>3. ~uc.busy
  BY <1>2, NotBusy
<1>4. Answered(dutQ[i])
  BY <1>1, RightEffect
<1>5. QueueOK' /\ AtomicsOK' /\ ReservationsOK'
  BY <1>1, <1>2, <1>3, <1>4, PlainRemoved DEF memVars
<1>6. ReadsOK' /\ WritesOK' /\ AcksOK'
  BY <1>1, <1>3, <1>4, QuietMemory DEF Answered
<1>7. DeviceOK'
  <2>1. ASSUME NEW a \in miss
        PROVE  \E j \in 1 .. Len(dutQ') :
                  /\ dutQ'[j].addr = a /\ dutQ'[j].op \in {"LOAD", "CMO_PREFETCH"}
                  /\ Oldest(j)'
    <3>1. PICK k \in 1 .. Len(dutQ) :
             /\ dutQ[k].addr = a /\ dutQ[k].op \in {"LOAD", "CMO_PREFETCH"}
             /\ Oldest(k)
      BY DEF DeviceOK
    <3>2. k # i
      BY <1>1, <3>1 DEF DeviceOK
    <3> QED
      BY <1>1, <3>1, <3>2, OldestStays
  <2> QED
    BY <1>1, <1>3, <2>1 DEF DeviceOK
<1> QED
  BY <1>5, <1>6, <1>7

LEMMA StoreStep ==
    ASSUME TbBase, InOrder, DutStore, UNCHANGED kind, bug' = None
    PROVE  InOrder'
<1> USE DEF TbBase, TbTypeOK, InOrder
<1>1. PICK i \in 1 .. Len(dutQ) :
         /\ dutQ[i].op = "STORE" /\ Oldest(i)
         /\ wbuf[dutQ[i].addr] # None => ~wbuf[dutQ[i].addr].sent
         /\ wbuf' = [wbuf EXCEPT ![dutQ[i].addr] = [data |-> dutQ[i].data, sent |-> FALSE]]
         /\ cache' = IF cache[dutQ[i].addr] = None THEN cache
                     ELSE [cache EXCEPT ![dutQ[i].addr] = dutQ[i].data]
         /\ rsv' = IF rsv = dutQ[i].addr THEN None ELSE rsv
         /\ Answer(dutQ[i], 0, FALSE)
         /\ dutQ' = Without(i)
         /\ UNCHANGED <<miss, uc, memVars>>
  <2>1. DOMAIN dutQ = 1 .. Len(dutQ)
    BY DEF DeviceType
  <2> QED
    BY <2>1, Zenon DEF DutStore
<1>2. ~IsFence(dutQ[i].op) /\ ~IsRmw(dutQ[i].op)
  BY <1>1 DEF IsFence, IsRmw, AmoOps, CmoOps
<1>3. ~uc.busy
  BY <1>2, NotBusy
<1>4. Answered(dutQ[i])
  BY <1>1, RightEffect
<1>5. QueueOK' /\ AtomicsOK' /\ ReservationsOK'
  BY <1>1, <1>2, <1>3, <1>4, PlainRemoved DEF memVars
<1>6. ReadsOK' /\ WritesOK' /\ AcksOK'
  <2>1. \A a \in Addr : wbuf[a] # None /\ wbuf[a].sent => wbuf'[a] = wbuf[a]
    BY <1>1 DEF DeviceType
  <2> QED
    BY <1>1, <1>3, <1>4, <2>1, QuietMemory DEF Answered
<1>7. DeviceOK'
  <2>1. ASSUME NEW a \in miss
        PROVE  /\ a # dutQ[i].addr
               /\ \E j \in 1 .. Len(dutQ') :
                     /\ dutQ'[j].addr = a /\ dutQ'[j].op \in {"LOAD", "CMO_PREFETCH"}
                     /\ Oldest(j)'
    <3>1. PICK k \in 1 .. Len(dutQ) :
             /\ dutQ[k].addr = a /\ dutQ[k].op \in {"LOAD", "CMO_PREFETCH"}
             /\ Oldest(k)
      BY DEF DeviceOK
    <3>2. k # i /\ Len(dutQ) \in Nat
      BY <1>1, <3>1 DEF DeviceType
    <3>3. a # dutQ[i].addr
      BY <1>1, <3>1, <3>2 DEF Oldest
    <3> QED
      BY <1>1, <3>1, <3>2, <3>3, OldestStays
  <2>2. \A a \in miss : wbuf'[a] = wbuf[a] /\ cache'[a] = cache[a]
    BY <1>1, <2>1 DEF DeviceType
  <2> QED
    BY <1>1, <1>3, <2>1, <2>2 DEF DeviceOK
<1> QED
  BY <1>5, <1>6, <1>7

LEMMA RefillStep ==
    ASSUME TbBase, InOrder, DutRefill, UNCHANGED kind, bug' = None
    PROVE  InOrder'
<1> USE DEF TbBase, TbTypeOK, InOrder
<1>1. PICK i \in 1 .. Len(dutQ) :
         /\ rdResp # None /\ rdResp.id = dutQ[i].addr /\ Oldest(i)
         /\ cache' = IF rdResp.error THEN cache
                     ELSE [cache EXCEPT ![dutQ[i].addr] = rdResp.data]
         /\ miss' = miss \ {dutQ[i].addr}
         /\ Answer(dutQ[i], rdResp.data, rdResp.error)
         /\ dutQ' = Without(i)
         /\ rdResp' = None
         /\ UNCHANGED <<wbuf, rsv, uc, mem, rdReq, rdOp, rdFifo, waReq, wdReq,
                        waFifo, wdFifo, wrOp, wrFifo, wrResp, excl>>
  <2>1. DOMAIN dutQ = 1 .. Len(dutQ)
    BY DEF DeviceType
  <2> QED
    BY <2>1, Zenon DEF DutRefill
<1> DEFINE a == dutQ[i].addr
<1>2. a \in Addr /\ a \in miss /\ a # UcId /\ a # None
  <2>1. dutQ[i] \in Drawn
    BY DEF DeviceType
  <2>2. a \in Addr
    BY <2>1 DEF Drawn, Request
  <2> QED
    BY <1>1, <2>2, Identifiers DEF ReadsOK, ReadResponseOK
<1>3. dutQ[i].op \in {"LOAD", "CMO_PREFETCH"}
  <2>1. PICK k \in 1 .. Len(dutQ) :
           dutQ[k].addr = a /\ dutQ[k].op \in {"LOAD", "CMO_PREFETCH"} /\ Oldest(k)
    BY <1>2 DEF DeviceOK
  <2>2. Len(dutQ) \in Nat
    BY DEF DeviceType
  <2>3. ~(k < i) /\ ~(i < k)
    BY <1>1, <2>1, <2>2 DEF Oldest
  <2> QED
    BY <2>1, <2>2, <2>3
<1>4. ~IsFence(dutQ[i].op) /\ ~IsRmw(dutQ[i].op) /\ dutQ[i].op # "STORE"
  BY <1>3 DEF IsFence, IsRmw, AmoOps, CmoOps
<1>5. ~uc.busy
  BY <1>4, NotBusy
<1>6. Answered(dutQ[i])
  BY <1>1, RightEffect
<1>7. QueueOK' /\ AtomicsOK' /\ ReservationsOK'
  BY <1>1, <1>4, <1>5, <1>6, PlainRemoved
<1>8. WritesOK' /\ AcksOK'
  BY <1>1, <1>5, <1>6, QuietWrites DEF Answered
\* No other read of this line is on its way.
<1>9. ReadsOK'
  <2>0. inflightRd[a] = None /\ inflightRd' = inflightRd
    BY <1>1, <1>6 DEF ReadsOK, Answered
  <2>1. \A x : within_error_region(x)' <=> within_error_region(x)
    BY DEF within_error_region
  <2>2. ASSUME NEW r, ReadRequestOK(r), r.id # a
        PROVE  ReadRequestOK(r)'
    BY <1>1, <1>5, <2>2 DEF ReadRequestOK
  <2>3. ASSUME NEW r, ReadResponseOK(r), r.id # a
        PROVE  ReadResponseOK(r)' /\ r.id # UcId
    BY <1>1, <1>5, <2>1, <2>3 DEF ReadResponseOK
  <2>4. UNCHANGED <<Elems(rdFifo), Distinct(rdFifo)>>
    BY <1>1 DEF Elems, Distinct
  <2>5. rdReq' # None => ReadRequestOK(rdReq)' /\ inflightRd'[rdReq'.id] = None
    BY <1>1, <2>0, <2>2 DEF ReadsOK, Holds
  <2>6. rdOp' # None =>
           /\ ReadRequestOK(rdOp)' /\ inflightRd'[rdOp'.id] = rdOp'.addr
           /\ ~Has(rdFifo, rdOp.id)'
    <3> SUFFICES ASSUME rdOp' # None
                 PROVE  /\ ReadRequestOK(rdOp)' /\ inflightRd'[rdOp'.id] = rdOp'.addr
                        /\ ~Has(rdFifo, rdOp.id)'
      OBVIOUS
    <3>1. rdOp # None /\ ReadRequestOK(rdOp) /\ inflightRd[rdOp.id] = rdOp.addr
          /\ ~Has(rdFifo, rdOp.id)
      BY <1>1 DEF ReadsOK
    <3>2. rdOp.id # a
      BY <1>2, <2>0, <3>1 DEF ReadRequestOK
    <3> QED
      BY <1>1, <2>0, <2>2, <3>1, <3>2 DEF Has, Elems
  <2>7. \A r \in Elems(rdFifo)' : ReadResponseOK(r)' /\ inflightRd'[r.id] = AddrOf(r.id)'
    <3> SUFFICES ASSUME NEW r \in Elems(rdFifo)
                 PROVE  ReadResponseOK(r)' /\ inflightRd'[r.id] = AddrOf(r.id)'
      BY <2>4
    <3>1. ReadResponseOK(r) /\ inflightRd[r.id] = AddrOf(r.id)
      BY DEF ReadsOK
    <3>2. r.id # a
      BY <1>2, <2>0, <3>1 DEF AddrOf
    <3> QED
      BY <2>0, <2>3, <3>1, <3>2 DEF AddrOf
  <2>8. \A x \in MemIds : inflightRd'[x] # None => x # UcId /\ x \in miss'
    BY <1>1, <1>5, <2>0 DEF ReadsOK
  <2>9. uc'.rd = None
    BY <1>1, <1>5 DEF DeviceOK
  <2> QED
    BY <1>1, <2>4, <2>5, <2>6, <2>7, <2>8, <2>9 DEF ReadsOK
<1>10. DeviceOK'
  <2>1. ASSUME NEW b \in miss'
        PROVE  /\ b \in miss /\ b # a
               /\ \E j \in 1 .. Len(dutQ') :
                     /\ dutQ'[j].addr = b /\ dutQ'[j].op \in {"LOAD", "CMO_PREFETCH"}
                     /\ Oldest(j)'
    <3>1. b \in miss /\ b # a
      BY <1>1
    <3>2. PICK k \in 1 .. Len(dutQ) :
             /\ dutQ[k].addr = b /\ dutQ[k].op \in {"LOAD", "CMO_PREFETCH"}
             /\ Oldest(k)
      BY <3>1 DEF DeviceOK
    <3>3. k # i
      BY <3>1, <3>2
    <3> QED
      BY <1>1, <3>1, <3>2, <3>3, OldestStays
  <2>2. \A b \in miss' : wbuf'[b] = wbuf[b] /\ cache'[b] = cache[b]
    BY <1>1, <2>1 DEF DeviceType
  <2> QED
    BY <1>1, <1>5, <2>1, <2>2 DEF DeviceOK
<1> QED
  BY <1>7, <1>8, <1>9, <1>10

LEMMA MissStep ==
    ASSUME TbBase, InOrder, DutMiss, UNCHANGED kind
    PROVE  InOrder'
<1> USE DEF TbBase, TbTypeOK, InOrder
<1>1. PICK i \in 1 .. Len(dutQ) :
         /\ dutQ[i].op \in {"LOAD", "CMO_PREFETCH"} /\ Oldest(i)
         /\ cache[dutQ[i].addr] = None /\ dutQ[i].addr \notin miss
         /\ wbuf[dutQ[i].addr] = None /\ rdReq = None
         /\ rdReq' = [id |-> dutQ[i].addr, addr |-> dutQ[i].addr, cmd |-> "READ"]
         /\ miss' = miss \cup {dutQ[i].addr}
         /\ UNCHANGED <<dutQ, cache, wbuf, rsv, uc, bug, sbVars, ids, mem, rdOp,
                        rdFifo, rdResp, waReq, wdReq, waFifo, wdFifo, wrOp, wrFifo,
                        wrResp, excl>>
  <2>1. DOMAIN dutQ = 1 .. Len(dutQ)
    BY DEF DeviceType
  <2> QED
    BY <2>1, Zenon DEF DutMiss
<1> DEFINE a == dutQ[i].addr
<1>2. a \in Addr /\ a \in MemIds /\ a # UcId
  <2>1. dutQ[i] \in Drawn
    BY DEF DeviceType
  <2> QED
    BY <2>1, Identifiers DEF Drawn, Request
<1>3. ~uc.busy
  <2>1. ~IsRmw(dutQ[i].op)
    BY <1>1 DEF IsRmw, AmoOps
  <2> QED
    BY <2>1, NotBusy
<1>4. QueueOK' /\ AtomicsOK' /\ ReservationsOK'
  <2>1. QueueOK'
    BY <1>1 DEF QueueOK, sbVars
  <2>2. AtomicsOK'
    BY <1>1, <1>3 DEF AtomicsOK, sbVars
  <2>3. ReservationsOK'
    BY <1>1, <1>3 DEF ReservationsOK, sbVars, Killed, within_error_region
  <2> QED
    BY <2>1, <2>2, <2>3
<1>5. WritesOK' /\ AcksOK'
  BY <1>1, <1>3, QuietWrites DEF sbVars
<1>6. ReadsOK'
  <2>0. inflightRd[a] = None /\ inflightRd' = inflightRd /\ ~Holds(rdResp, a)
    BY <1>1, <1>2 DEF ReadsOK, ReadResponseOK, Holds, sbVars
  <2>1. \A x : within_error_region(x)' <=> within_error_region(x)
    BY DEF within_error_region
  <2>2. ASSUME NEW r, ReadRequestOK(r)
        PROVE  ReadRequestOK(r)'
    BY <1>1, <1>3, <2>2 DEF ReadRequestOK
  <2>3. ASSUME NEW r, ReadResponseOK(r)
        PROVE  ReadResponseOK(r)' /\ r.id # UcId
    BY <1>1, <1>3, <2>1, <2>3 DEF ReadResponseOK
  <2>4. UNCHANGED <<Elems(rdFifo), Distinct(rdFifo)>>
    BY <1>1 DEF Elems, Distinct
  <2>5. ReadRequestOK(rdReq)' /\ inflightRd'[rdReq'.id] = None
    BY <1>1, <1>2, <2>0 DEF ReadRequestOK
  <2>6. rdOp' # None =>
           /\ ReadRequestOK(rdOp)' /\ inflightRd'[rdOp'.id] = rdOp'.addr
           /\ ~Has(rdFifo, rdOp.id)'
    BY <1>1, <2>0, <2>2 DEF ReadsOK, Has, Elems
  <2>7. \A r \in Elems(rdFifo)' : ReadResponseOK(r)' /\ inflightRd'[r.id] = AddrOf(r.id)'
    BY <2>0, <2>3, <2>4 DEF ReadsOK, AddrOf
  <2>8. rdResp' # None =>
           /\ ReadResponseOK(rdResp)' /\ inflightRd'[rdResp'.id] = None
           /\ ~Holds(rdReq, rdResp.id)'
    BY <1>1, <2>0, <2>3 DEF ReadsOK, Holds
  <2>9. \A x \in MemIds : inflightRd'[x] # None => x # UcId /\ x \in miss'
    BY <1>1, <1>3, <2>0 DEF ReadsOK
  <2>10. uc'.rd = None
    BY <1>1, <1>3 DEF DeviceOK
  <2> QED
    BY <2>4, <2>5, <2>6, <2>7, <2>8, <2>9, <2>10 DEF ReadsOK
<1>7. DeviceOK'
  <2>1. \A k : Oldest(k)' <=> Oldest(k)
    BY <1>1 DEF Oldest
  <2>2. \A b \in miss' :
           /\ wbuf'[b] = None /\ cache'[b] = None
           /\ \E j \in 1 .. Len(dutQ') :
                 /\ dutQ'[j].addr = b /\ dutQ'[j].op \in {"LOAD", "CMO_PREFETCH"}
                 /\ Oldest(j)'
    BY <1>1, <2>1 DEF DeviceOK
  <2> QED
    BY <1>1, <1>3, <2>2 DEF DeviceOK
<1> QED
  BY <1>4, <1>5, <1>6, <1>7

LEMMA DrainStep ==
    ASSUME TbBase, InOrder, DutDrain, UNCHANGED kind
    PROVE  InOrder'
<1> USE DEF TbBase, TbTypeOK, InOrder
<1>1. PICK a \in Addr :
         /\ wbuf[a] # None /\ ~wbuf[a].sent
         /\ waReq = None /\ wdReq = None
         /\ waReq' = [id |-> a, addr |-> a, cmd |-> "WRITE"]
         /\ wbuf' = [wbuf EXCEPT ![a].sent = TRUE]
         /\ UNCHANGED <<mem, rdReq, rdOp, rdFifo, rdResp, waFifo, wdFifo, wrOp,
                        wrFifo, wrResp, excl, sbVars, ids, dutQ, cache, miss, rsv, uc, bug>>
  BY DEF DutDrain, DutWrite
<1>2. a \in MemIds /\ a # UcId /\ a # None
  BY Identifiers
<1>3. ~uc.busy /\ uc.rd = None /\ uc.wr = None
  BY <1>1 DEF DeviceOK
<1>4. /\ wbuf'[a] # None /\ wbuf'[a].sent
      /\ \A b \in Addr : b # a => wbuf'[b] = wbuf[b]
  <2>1. [wbuf[a] EXCEPT !.sent = TRUE] \in WbufEntry /\ wbuf'[a] = [wbuf[a] EXCEPT !.sent = TRUE]
    BY <1>1 DEF DeviceType, WbufEntry
  <2>2. [wbuf[a] EXCEPT !.sent = TRUE].sent
    BY <1>1 DEF DeviceType, WbufEntry
  <2> QED
    BY <1>1, <2>1, <2>2, TbNoneAssumption DEF DeviceType
<1>5. QueueOK'
  BY <1>1 DEF QueueOK, sbVars
<1>6. AtomicsOK'
  BY <1>1, <1>3 DEF AtomicsOK, sbVars
<1>7. ReservationsOK'
  BY <1>1, <1>3 DEF ReservationsOK, sbVars, Killed, within_error_region
<1>8. DeviceOK'
  <2>1. \A k : Oldest(k)' <=> Oldest(k)
    BY <1>1 DEF Oldest
  <2>2. \A b \in miss : b \in Addr /\ b # a
    BY <1>1 DEF DeviceOK, DeviceType
  <2> QED
    BY <1>1, <1>3, <1>4, <2>1, <2>2 DEF DeviceOK
<1>9. ReadsOK'
  BY <1>1, <1>3, QuietReads DEF sbVars
\* The write is new to the memory: it was not sent before.
<1>10. WritesOK' /\ AcksOK'
  <2>0. UNCHANGED inflightWr
    BY <1>1 DEF sbVars
  <2>2. ASSUME NEW r, r.id \in MemIds, WriteRequestOK(r)
        PROVE  WriteRequestOK(r)' /\ r.id # a
    BY <1>1, <1>3, <1>4, <2>2, Identifiers DEF WriteRequestOK
  <2>3. ASSUME NEW r, WriteResponseOK(r)
        PROVE  WriteResponseOK(r)' /\ r.id # UcId /\ r.id # a
    BY <1>1, <1>3, <1>4, <2>3, Identifiers DEF WriteResponseOK
  <2>4. \A i : i # UcId => AddrOf(i)' = AddrOf(i)
    BY DEF AddrOf
  <2>5. \A r \in Elems(waFifo) : r.id \in MemIds
    BY WriteIds
  <2>6. UNCHANGED <<Elems(waFifo), Distinct(waFifo), Elems(wrFifo), Distinct(wrFifo)>>
    BY <1>1 DEF Elems, Distinct
  <2>7. inflightWr[a] = None
    BY <1>1, <1>2 DEF WritesOK
  <2>8. /\ WriteRequestOK(waReq)' /\ inflightWr'[waReq'.id] = None
        /\ ~Has(waFifo, waReq.id)' /\ ~Holds(wrResp, waReq.id)'
    <3>1. WriteRequestOK(waReq)'
      BY <1>1, <1>2, <1>4 DEF WriteRequestOK
    <3>2. ~Has(waFifo, a)' /\ ~Holds(wrResp, a)'
      BY <1>1, <2>2, <2>3, <2>5, <2>6 DEF WritesOK, Has, Holds
    <3> QED
      BY <1>1, <2>0, <2>7, <3>1, <3>2 DEF Has, Holds
  <2>9. \A r \in Elems(waFifo)' :
           /\ WriteRequestOK(r)' /\ inflightWr'[r.id] = None
           /\ ~Holds(wrResp, r.id)'
    BY <1>1, <2>0, <2>2, <2>5, <2>6 DEF WritesOK, Holds
  <2>10. \A r \in Elems(wrFifo)' : WriteResponseOK(r)' /\ inflightWr'[r.id] = AddrOf(r.id)'
    BY <2>0, <2>3, <2>4, <2>6 DEF WritesOK
  <2>11. wrResp' # None => WriteResponseOK(wrResp)' /\ inflightWr'[wrResp'.id] = None
    BY <1>1, <2>0, <2>3 DEF WritesOK
  <2>12. \A i \in MemIds : inflightWr'[i] # None =>
            i # UcId /\ wbuf'[i] # None /\ wbuf'[i].sent
    BY <1>1, <1>3, <1>4, <2>0, <2>7, Identifiers DEF WritesOK
  <2>13. WritesOK'
    BY <1>1, <1>3, <2>6, <2>8, <2>9, <2>10, <2>11, <2>12 DEF WritesOK
  <2>14. AcksOK'
    <3>1. Len(wrOp) # 2
      BY <1>3 DEF AcksOK, ReadResponseOK
    <3> QED
      BY <1>1, <2>0, <2>3, <2>4, <3>1 DEF AcksOK, Has, Elems
  <2> QED
    BY <2>13, <2>14
<1> QED
  BY <1>5, <1>6, <1>7, <1>8, <1>9, <1>10

\* The device does not hear of two writes of a line at a time.
LEMMA WriteAckStep ==
    ASSUME TbBase, InOrder, DutWriteAck, UNCHANGED kind
    PROVE  InOrder'
<1> USE DEF TbBase, TbTypeOK, InOrder
<1>1. /\ wrResp # None /\ wrResp' = None
      /\ IF wrResp.id = UcId
         THEN uc' = [uc EXCEPT !.wr = wrResp] /\ UNCHANGED wbuf
         ELSE wbuf' = [wbuf EXCEPT ![wrResp.id] = None] /\ UNCHANGED uc
      /\ UNCHANGED <<dutQ, cache, miss, rsv, bug, sbVars, ids, mem, rdReq, rdOp,
                     rdFifo, rdResp, waReq, wdReq, waFifo, wdFifo, wrOp, wrFifo, excl>>
  BY DEF DutWriteAck
<1> DEFINE w == wrResp.id
<1>2. w \in MemIds /\ WriteResponseOK(wrResp) /\ inflightWr[w] = None
  BY <1>1 DEF WritesOK, WriteResponseOK
<1>3. /\ uc'.busy = uc.busy /\ uc'.rd = uc.rd
      /\ uc'.wr = (IF w = UcId THEN wrResp ELSE uc.wr)
      /\ \A a \in Addr : wbuf'[a] = IF w = a THEN None ELSE wbuf[a]
  BY <1>1, Identifiers DEF DeviceType
<1>4. (UcWrites' <=> UcWrites) /\ UNCHANGED <<inflightRd, inflightWr>>
  BY <1>1 DEF UcWrites, Holds, Has, Elems, sbVars
<1>5. \A x : within_error_region(x)' <=> within_error_region(x)
  BY DEF within_error_region
<1>6. QueueOK'
  BY <1>1 DEF QueueOK, sbVars
<1>7. AtomicsOK'
  BY <1>1, <1>3, <1>4 DEF AtomicsOK, sbVars, Holds
<1>8. ReservationsOK'
  BY <1>1, <1>3, <1>4, <1>5 DEF ReservationsOK, sbVars, Killed, Holds
<1>9. DeviceOK'
  <2>1. \A k : Oldest(k)' <=> Oldest(k)
    BY <1>1 DEF Oldest
  <2>2. \A b \in miss : wbuf'[b] = None
    BY <1>3 DEF DeviceOK, DeviceType
  <2>3. ASSUME uc.busy
        PROVE  /\ \A a \in Addr : wbuf'[a] = None
               /\ dutQ[1].op = "LR" => uc'.wr = None
    BY <1>2, <1>3, <2>3 DEF DeviceOK, WriteResponseOK
  <2>4. ~uc.busy => w # UcId
    BY <1>2 DEF WriteResponseOK
  <2> QED
    BY <1>1, <1>3, <2>1, <2>2, <2>3, <2>4 DEF DeviceOK
<1>10. ReadsOK'
  <2>1. ASSUME NEW r
        PROVE  /\ ReadRequestOK(r)' <=> ReadRequestOK(r)
               /\ ReadResponseOK(r)' <=> ReadResponseOK(r)
    BY <1>1, <1>3, <1>4, <1>5 DEF ReadRequestOK, ReadResponseOK
  <2>2. \A i : AddrOf(i)' = AddrOf(i)
    BY <1>1 DEF AddrOf
  <2>3. UNCHANGED <<Elems(rdFifo), Distinct(rdFifo)>>
    BY <1>1 DEF Elems, Distinct
  <2> QED
    BY <1>1, <1>3, <1>4, <1>5, <2>1, <2>2, <2>3 DEF ReadsOK, Holds, Has
<1>11. \A i : AddrOf(i)' = AddrOf(i)
  BY <1>1 DEF AddrOf
\* Every other transaction has another identifier.
<1>12. ASSUME NEW r, r.id \in MemIds, WriteRequestOK(r), r.id # w
       PROVE  WriteRequestOK(r)'
  BY <1>1, <1>3, <1>12, Identifiers DEF WriteRequestOK
<1>13. ASSUME NEW r, WriteResponseOK(r), r.id # w
       PROVE  WriteResponseOK(r)'
  BY <1>1, <1>3, <1>4, <1>5, <1>13, Identifiers DEF WriteResponseOK
<1>14. ASSUME NEW r, WriteResponseOK(r), inflightWr[r.id] = AddrOf(r.id)
       PROVE  r.id # w
  <2>1. AddrOf(r.id) # None
    <3>1. CASE r.id = UcId
      <4>1. 1 \in 1 .. Len(dutQ)
        BY <1>14, <3>1 DEF WriteResponseOK, DeviceOK
      <4>2. dutQ[1].addr \in Addr
        BY <4>1 DEF DeviceType, Drawn, Request
      <4> QED
        BY <3>1, <4>2, Identifiers DEF AddrOf
    <3>2. CASE r.id # UcId
      BY <1>14, <3>2, Identifiers DEF AddrOf, WriteResponseOK
    <3> QED
      BY <3>1, <3>2
  <2> QED
    BY <1>2, <1>14, <2>1
<1>15. WritesOK'
  <2>1. UNCHANGED <<Elems(waFifo), Distinct(waFifo), Elems(wrFifo), Distinct(wrFifo)>>
    BY <1>1 DEF Elems, Distinct
  <2>2. /\ waReq # None => waReq.id \in MemIds /\ waReq.id # w
        /\ \A r \in Elems(waFifo) : r.id \in MemIds /\ r.id # w
    BY <1>1, WriteIds DEF WritesOK, Holds
  <2>3. waReq' # None =>
           /\ WriteRequestOK(waReq)' /\ inflightWr'[waReq'.id] = None
           /\ ~Has(waFifo, waReq.id)' /\ ~Holds(wrResp, waReq.id)'
    BY <1>1, <1>4, <1>12, <2>1, <2>2 DEF WritesOK, Has, Holds
  <2>4. \A r \in Elems(waFifo)' :
           /\ WriteRequestOK(r)' /\ inflightWr'[r.id] = None
           /\ ~Holds(wrResp, r.id)'
    BY <1>1, <1>4, <1>12, <2>1, <2>2 DEF WritesOK, Holds
  <2>5. \A r \in Elems(wrFifo)' : WriteResponseOK(r)' /\ inflightWr'[r.id] = AddrOf(r.id)'
    BY <1>4, <1>11, <1>13, <1>14, <2>1 DEF WritesOK
  <2>6. \A i \in MemIds : inflightWr'[i] # None =>
           IF i = UcId THEN uc'.busy /\ uc'.wr = None /\ dutQ'[1].op # "LR"
           ELSE wbuf'[i] # None /\ wbuf'[i].sent
    BY <1>1, <1>2, <1>3, <1>4, Identifiers DEF WritesOK
  <2>7. uc'.wr # None =>
           /\ uc'.wr.error = within_error_region(dutQ[1].addr)'
           /\ dutQ'[1].op = "SC" => uc'.wr.atomic
           /\ ~UcWrites'
    BY <1>1, <1>2, <1>3, <1>4, <1>5 DEF WritesOK, WriteResponseOK, within_error_region
  <2> QED
    BY <1>1, <2>1, <2>3, <2>4, <2>5, <2>6, <2>7 DEF WritesOK
<1>16. AcksOK'
  <2>1. Len(wrOp) = 2 => ReadResponseOK(wrOp[1])'
    BY <1>1, <1>3, <1>4, <1>5 DEF AcksOK, ReadResponseOK
  <2>2. wrOp # <<>> =>
           WriteResponseOK(wrOp[Len(wrOp)])' /\ ~Has(wrFifo, wrOp[Len(wrOp)].id)'
    BY <1>1, <1>13, <1>14 DEF AcksOK, Has, Elems
  <2> QED
    BY <1>1, <1>4, <1>11, <2>1, <2>2 DEF AcksOK, Has, Holds, Elems
<1> QED
  BY <1>6, <1>7, <1>8, <1>9, <1>10, <1>15, <1>16

LEMMA OnlyRequest ==
    ASSUME DeviceType, Len(dutQ) = 1
    PROVE  dutQ[1] \in Drawn /\ dutQ[1].addr \in Addr /\ dutQ[1].addr # None
<1>1. dutQ[1] \in Drawn
  BY DEF DeviceType
<1> QED
  BY <1>1, Identifiers DEF Drawn, Request

\* While an atomic request is sent, it is the only one in the device.
LEMMA BusyFacts ==
    ASSUME DeviceType, DeviceOK, uc.busy
    PROVE  /\ Len(dutQ) = 1 /\ dutQ[1] \in Drawn /\ dutQ[1].addr \in Addr
           /\ dutQ[1].addr # None /\ IsRmw(dutQ[1].op) /\ dutQ[1].needRsp
BY Identifiers DEF DeviceType, DeviceOK, Drawn, Request

LEMMA UcReadStep ==
    ASSUME TbBase, InOrder, DutUcRead, UNCHANGED kind
    PROVE  InOrder'
<1> USE DEF TbBase, TbTypeOK, InOrder
<1>1. /\ rdResp # None /\ rdResp.id = UcId /\ rdResp' = None
      /\ uc' = [uc EXCEPT !.rd = rdResp]
      /\ UNCHANGED <<dutQ, cache, miss, wbuf, rsv, bug, sbVars, ids, mem, rdReq,
                     rdOp, rdFifo, waReq, wdReq, waFifo, wdFifo, wrOp, wrFifo,
                     wrResp, excl>>
  BY DEF DutUcRead
<1>2. /\ uc.busy /\ uc.rd = None /\ dutQ[1].op # "SC" /\ ~UcWrites
      /\ rdResp.error = (dutQ[1].op = "LR" /\ within_error_region(dutQ[1].addr))
      /\ inflightRd[UcId] = None /\ ~Holds(rdReq, UcId)
  BY <1>1 DEF ReadsOK, ReadResponseOK
<1>3. uc'.busy = uc.busy /\ uc'.rd = rdResp /\ uc'.wr = uc.wr
  BY <1>1 DEF DeviceType
<1>4. (UcWrites' <=> UcWrites) /\ UNCHANGED <<inflightRd, inflightWr>>
  BY <1>1 DEF UcWrites, Holds, Has, Elems, sbVars
<1>5. \A x : within_error_region(x)' <=> within_error_region(x)
  BY DEF within_error_region
<1>6. \A i : AddrOf(i)' = AddrOf(i)
  BY <1>1 DEF AddrOf
<1>7. AddrOf(UcId) # None
  BY <1>2, BusyFacts DEF AddrOf
<1>8. QueueOK'
  BY <1>1 DEF QueueOK, sbVars
<1>9. AtomicsOK'
  BY <1>1, <1>3, <1>4 DEF AtomicsOK, sbVars, Holds
<1>10. ReservationsOK'
  BY <1>1, <1>3, <1>4, <1>5 DEF ReservationsOK, sbVars, Killed, Holds
<1>11. DeviceOK'
  <2>1. \A k : Oldest(k)' <=> Oldest(k)
    BY <1>1 DEF Oldest
  <2> QED
    BY <1>1, <1>2, <1>3, <2>1 DEF DeviceOK
<1>12. ReadsOK'
  <2>1. ASSUME NEW r, r.id # UcId
        PROVE  /\ ReadRequestOK(r) => ReadRequestOK(r)'
               /\ ReadResponseOK(r) => ReadResponseOK(r)'
    BY <1>1, <1>5, <2>1 DEF ReadRequestOK, ReadResponseOK
  <2>2. UNCHANGED <<Elems(rdFifo), Distinct(rdFifo)>>
    BY <1>1 DEF Elems, Distinct
  <2>3. /\ rdReq # None => rdReq.id # UcId
        /\ rdOp # None => rdOp.id # UcId
        /\ \A r \in Elems(rdFifo) : r.id # UcId
    <3>1. rdOp # None => rdOp.id # UcId
      BY <1>2, <1>7 DEF ReadsOK, ReadRequestOK, AddrOf
    <3>2. \A r \in Elems(rdFifo) : r.id # UcId
      BY <1>2, <1>7 DEF ReadsOK
    <3> QED
      BY <1>2, <3>1, <3>2 DEF Holds
  <2>4. rdReq' # None => ReadRequestOK(rdReq)' /\ inflightRd'[rdReq'.id] = None
    BY <1>1, <1>4, <2>1, <2>3 DEF ReadsOK
  <2>5. rdOp' # None =>
           /\ ReadRequestOK(rdOp)' /\ inflightRd'[rdOp'.id] = rdOp'.addr
           /\ ~Has(rdFifo, rdOp.id)'
    BY <1>1, <1>4, <2>1, <2>2, <2>3 DEF ReadsOK, Has
  <2>6. \A r \in Elems(rdFifo)' : ReadResponseOK(r)' /\ inflightRd'[r.id] = AddrOf(r.id)'
    BY <1>4, <1>6, <2>1, <2>2, <2>3 DEF ReadsOK
  <2>7. \A i \in MemIds : inflightRd'[i] # None => i # UcId /\ i \in miss'
    BY <1>1, <1>2, <1>4 DEF ReadsOK
  <2>8. uc'.rd.error = (dutQ'[1].op = "LR" /\ within_error_region(dutQ[1].addr)')
    BY <1>1, <1>2, <1>3, <1>5
  <2> QED
    BY <1>1, <2>2, <2>4, <2>5, <2>6, <2>7, <2>8 DEF ReadsOK
<1>13. ASSUME NEW r
       PROVE  /\ WriteRequestOK(r) /\ r.id # UcId => WriteRequestOK(r)'
              /\ WriteResponseOK(r) => WriteResponseOK(r)'
  BY <1>1, <1>3, <1>4, <1>5 DEF WriteRequestOK, WriteResponseOK
<1>14. WritesOK'
  <2>1. UNCHANGED <<Elems(waFifo), Distinct(waFifo), Elems(wrFifo), Distinct(wrFifo)>>
    BY <1>1 DEF Elems, Distinct
  <2>2. /\ waReq # None => waReq.id # UcId
        /\ \A r \in Elems(waFifo) : r.id # UcId
    BY <1>2 DEF UcWrites, Holds, Has
  <2>3. waReq' # None =>
           /\ WriteRequestOK(waReq)' /\ inflightWr'[waReq'.id] = None
           /\ ~Has(waFifo, waReq.id)' /\ ~Holds(wrResp, waReq.id)'
    BY <1>1, <1>4, <1>13, <2>1, <2>2 DEF WritesOK, Has, Holds
  <2>4. \A r \in Elems(waFifo)' :
           /\ WriteRequestOK(r)' /\ inflightWr'[r.id] = None
           /\ ~Holds(wrResp, r.id)'
    BY <1>1, <1>4, <1>13, <2>1, <2>2 DEF WritesOK, Holds
  <2>5. \A r \in Elems(wrFifo)' : WriteResponseOK(r)' /\ inflightWr'[r.id] = AddrOf(r.id)'
    BY <1>4, <1>6, <1>13, <2>1 DEF WritesOK
  <2>6. wrResp' # None => WriteResponseOK(wrResp)' /\ inflightWr'[wrResp'.id] = None
    BY <1>1, <1>4, <1>13 DEF WritesOK
  <2>7. \A i \in MemIds : inflightWr'[i] # None =>
           IF i = UcId THEN uc'.busy /\ uc'.wr = None /\ dutQ'[1].op # "LR"
           ELSE wbuf'[i] # None /\ wbuf'[i].sent
    BY <1>1, <1>3, <1>4 DEF WritesOK
  <2>8. uc'.wr # None =>
           /\ uc'.wr.error = within_error_region(dutQ[1].addr)'
           /\ dutQ'[1].op = "SC" => uc'.wr.atomic
           /\ ~UcWrites'
    BY <1>1, <1>3, <1>4, <1>5 DEF WritesOK, within_error_region
  <2> QED
    BY <2>1, <2>3, <2>4, <2>5, <2>6, <2>7, <2>8 DEF WritesOK
<1>15. AcksOK'
  <2>1. Len(wrOp) # 2
    BY <1>2, <1>7 DEF AcksOK
  <2> QED
    BY <1>1, <1>4, <1>6, <1>13, <2>1 DEF AcksOK, Has, Elems
<1> QED
  BY <1>8, <1>9, <1>10, <1>11, <1>12, <1>14, <1>15

\* An atomic request is sent when nothing else is in the memory.
LEMMA QuietIsEmpty ==
    ASSUME TbBase, InOrder, Quiet, ~uc.busy
    PROVE  /\ rdReq = None /\ rdOp = None /\ rdResp = None /\ Elems(rdFifo) = {}
           /\ waReq = None /\ wrResp = None /\ wrOp = <<>>
           /\ Elems(waFifo) = {} /\ Elems(wrFifo) = {}
           /\ \A i \in MemIds : inflightRd[i] = None /\ inflightWr[i] = None
<1> USE DEF TbBase, TbTypeOK, InOrder
<1>1. miss = {} /\ \A a \in Addr : wbuf[a] = None
  BY DEF Quiet
<1>2. \A r : ~ReadRequestOK(r) /\ ~ReadResponseOK(r)
  BY <1>1 DEF ReadRequestOK, ReadResponseOK
<1>3. \A r : r.id \in MemIds => ~WriteRequestOK(r)
  BY <1>1, Identifiers DEF WriteRequestOK
<1>4. \A r : ~WriteResponseOK(r)
  BY <1>1, Identifiers DEF WriteResponseOK
<1>5. rdReq = None /\ rdOp = None /\ rdResp = None /\ Elems(rdFifo) = {}
  BY <1>2 DEF ReadsOK
<1>6. waReq = None /\ wrResp = None /\ Elems(waFifo) = {} /\ Elems(wrFifo) = {}
  BY <1>3, <1>4, WriteIds DEF WritesOK
<1>7. wrOp = <<>>
  BY <1>4 DEF AcksOK
<1>8. \A i \in MemIds : inflightRd[i] = None /\ inflightWr[i] = None
  BY <1>1, Identifiers DEF ReadsOK, WritesOK
<1> QED
  BY <1>5, <1>6, <1>7, <1>8

LEMMA UcSendStep ==
    ASSUME TbBase, InOrder, DutUcSend, UNCHANGED kind
    PROVE  InOrder'
<1> USE DEF TbBase, TbTypeOK, InOrder
<1> DEFINE t == dutQ[1]
<1>1. /\ Len(dutQ) = 1 /\ IsRmw(t.op) /\ Quiet /\ ~uc.busy
      /\ uc' = [UcIdle EXCEPT !.busy = TRUE]
      /\ UNCHANGED <<dutQ, cache, miss, wbuf, rsv, bug, sbVars, mem, rdOp, rdFifo,
                     rdResp, waFifo, wdFifo, wrOp, wrFifo, wrResp, excl>>
  BY DEF DutUcSend, Ready, DutWrite
<1>2. \/ /\ t.op = "LR" /\ UNCHANGED waReq
         /\ rdReq' = [id |-> UcId, addr |-> t.addr, cmd |-> "LDEX"]
      \/ /\ t.op = "SC" /\ rsv = t.addr /\ UNCHANGED rdReq
         /\ waReq' = [id |-> UcId, addr |-> t.addr, cmd |-> "STEX"]
      \/ /\ t.op \in AmoOps /\ UNCHANGED rdReq
         /\ waReq' = [id |-> UcId, addr |-> t.addr, cmd |-> MemAtomicOf[t.op]]
  BY DEF DutUcSend, DutWrite
<1>3. uc'.busy /\ uc'.rd = None /\ uc'.wr = None
  BY <1>1 DEF UcIdle
<1>4. /\ rdReq = None /\ rdOp = None /\ rdResp = None /\ Elems(rdFifo) = {}
      /\ waReq = None /\ wrResp = None /\ wrOp = <<>>
      /\ Elems(waFifo) = {} /\ Elems(wrFifo) = {}
      /\ \A i \in MemIds : inflightRd[i] = None /\ inflightWr[i] = None
  BY <1>1, QuietIsEmpty
<1>5. /\ UNCHANGED <<Elems(rdFifo), Elems(waFifo), Elems(wrFifo)>>
      /\ UNCHANGED <<Distinct(rdFifo), Distinct(waFifo), Distinct(wrFifo)>>
      /\ UNCHANGED <<inflight, inflightRd, inflightWr, lrsc, amoFifo>>
  BY <1>1 DEF Elems, Distinct, sbVars
<1>6. t.addr \in Addr
  <2>1. t \in Drawn
    BY <1>1 DEF DeviceType
  <2> QED
    BY <2>1 DEF Drawn, Request
<1>7. IF t.op = "LR" THEN Holds(rdReq, UcId)' /\ waReq' = None
      ELSE Holds(waReq, UcId)' /\ rdReq' = None
  <2>1. CASE t.op = "LR"
    <3>1. [id |-> UcId, addr |-> t.addr, cmd |-> "LDEX"] \in ReadRequest
      BY <1>6, Identifiers DEF ReadRequest
    <3>2. rdReq' = [id |-> UcId, addr |-> t.addr, cmd |-> "LDEX"] /\ waReq' = waReq
      BY <1>2, <2>1 DEF AmoOps
    <3> QED
      BY <1>4, <2>1, <3>1, <3>2, ChannelAssumption DEF Holds
  <2>2. CASE t.op # "LR"
    <3>1. PICK c \in MemAtomics :
             waReq' = [id |-> UcId, addr |-> t.addr, cmd |-> c] /\ rdReq' = rdReq
      <4>1. "STEX" \in MemAtomics
        BY DEF MemAtomics
      <4> QED
        BY <1>2, <2>2, <4>1, AtomicCommands
    <3>2. waReq' \in WriteRequest
      BY <1>6, <3>1, Identifiers DEF WriteRequest
    <3> QED
      BY <1>4, <2>2, <3>1, <3>2, ChannelAssumption DEF Holds
  <2> QED
    BY <2>1, <2>2
<1>8. QueueOK'
  BY <1>1, <1>5 DEF QueueOK
<1>9. DeviceOK'
  BY <1>1, <1>3 DEF DeviceOK, Quiet
<1>10. ReadsOK'
  <2>1. rdReq' # None => ReadRequestOK(rdReq)' /\ inflightRd'[rdReq'.id] = None
    BY <1>1, <1>2, <1>3, <1>4, <1>5, <1>7, Identifiers DEF ReadRequestOK
  <2>2. rdOp' = None /\ rdResp' = None
    BY <1>1, <1>4
  <2>3. Elems(rdFifo)' = {} /\ Distinct(rdFifo)' /\ \A i \in MemIds : inflightRd'[i] = None
    BY <1>4, <1>5 DEF ReadsOK
  <2> QED
    BY <1>3, <2>1, <2>2, <2>3 DEF ReadsOK
<1>11. WritesOK' /\ AcksOK'
  <2>1. waReq' # None => WriteRequestOK(waReq)' /\ inflightWr'[waReq'.id] = None
    BY <1>1, <1>2, <1>3, <1>4, <1>5, <1>7, Identifiers DEF WriteRequestOK
  <2>2. wrOp' = <<>> /\ wrResp' = None
    BY <1>1, <1>4
  <2>3. /\ Elems(waFifo)' = {} /\ Distinct(waFifo)'
        /\ Elems(wrFifo)' = {} /\ Distinct(wrFifo)'
        /\ \A i \in MemIds : inflightWr'[i] = None
    BY <1>4, <1>5 DEF WritesOK
  <2>4. WritesOK'
    BY <1>3, <2>1, <2>2, <2>3 DEF WritesOK, Has, Holds
  <2>5. AcksOK'
    BY <2>2 DEF AcksOK
  <2> QED
    BY <2>4, <2>5
<1>12. AtomicsOK'
  <2>1. UcWrites' \/ Holds(rdReq, UcId)'
    BY <1>7 DEF UcWrites
  <2> QED
    BY <1>1, <1>5, <2>1 DEF AtomicsOK
<1>13. ReservationsOK'
  <2>1. \A a : (Killed(a)' <=> Killed(a)) /\ (within_error_region(a)' <=> within_error_region(a))
    BY <1>1 DEF Killed, within_error_region
  <2>2. t.op = "SC" => rsv = t.addr
    BY <1>2 DEF AmoOps
  <2> QED
    BY <1>1, <1>5, <1>7, <2>1, <2>2 DEF ReservationsOK
<1> QED
  BY <1>8, <1>9, <1>10, <1>11, <1>12, <1>13

\* The last request leaves the device while nothing is in the memory.
LEMMA Emptied ==
    ASSUME TbBase, InOrder, dutQ' = <<>>, miss = {}, amoFifo = <<>>,
           ~uc'.busy, uc'.rd = None, uc'.wr = None,
           rdReq = None, rdOp = None, rdResp = None, Elems(rdFifo) = {},
           waReq = None, wrResp = None, wrOp = <<>>,
           Elems(waFifo) = {}, Elems(wrFifo) = {},
           \A i \in MemIds : inflightRd[i] = None /\ inflightWr[i] = None,
           UNCHANGED <<miss, amoFifo, inflightRd, inflightWr, lrsc, memVars>>,
           rsv' \in Addr \cup {None},
           lrsc = rsv', rsv' # None => ~within_error_region(rsv)' /\ excl[UcId] = rsv'
    PROVE  InOrder'
<1>1. QueueOK' /\ AtomicsOK' /\ DeviceOK'
  BY DEF QueueOK, AtomicsOK, DeviceOK
<1>2. /\ UNCHANGED <<Elems(rdFifo), Elems(waFifo), Elems(wrFifo)>>
      /\ UNCHANGED <<Distinct(rdFifo), Distinct(waFifo), Distinct(wrFifo)>>
  BY DEF Elems, Distinct, memVars
<1>3. ReadsOK'
  BY <1>2 DEF memVars, InOrder, ReadsOK
<1>4. WritesOK'
  BY <1>2 DEF memVars, InOrder, WritesOK
<1>5. AcksOK'
  BY DEF memVars, AcksOK
<1>6. ReservationsOK'
  <2>1. \A a : ~Killed(a)'
    BY DEF Killed
  <2> QED
    BY <2>1 DEF ReservationsOK, memVars
<1> QED
  BY <1>1, <1>3, <1>4, <1>5, <1>6 DEF InOrder

LEMMA ScFailStep ==
    ASSUME TbBase, InOrder, DutScFail, UNCHANGED kind, bug' = None
    PROVE  InOrder'
<1> USE DEF TbBase, TbTypeOK
<1>1. /\ Len(dutQ) = 1 /\ dutQ[1].op = "SC" /\ Quiet /\ ~uc.busy /\ rsv # dutQ[1].addr
      /\ Answer(dutQ[1], 1, FALSE) /\ rsv' = None /\ dutQ' = <<>>
      /\ UNCHANGED <<cache, miss, wbuf, uc, memVars>>
  BY DEF DutScFail, Ready
<1>2. Answered(dutQ[1])
  BY <1>1, RightEffect
<1>3. lrsc = None
  BY <1>1 DEF InOrder, ReservationsOK
<1>4. amoFifo = <<>>
  <2>1. dutQ[1].addr # None
    BY <1>1, OnlyRequest
  <2>2. ~inflight[dutQ[1].tid].atomic
    BY <1>1, <2>1 DEF InOrder, ReservationsOK
  <2> QED
    BY <1>1, <2>2 DEF InOrder, AtomicsOK
<1>5. miss = {} /\ uc.rd = None /\ uc.wr = None
  BY <1>1 DEF Quiet, InOrder, DeviceOK
<1> QED
  BY <1>1, <1>2, <1>3, <1>4, <1>5, QuietIsEmpty, Emptied DEF Answered

LEMMA CmoStep ==
    ASSUME TbBase, InOrder, DutCmo, UNCHANGED kind, bug' = None
    PROVE  InOrder'
<1> USE DEF TbBase, TbTypeOK
<1>1. /\ Len(dutQ) = 1 /\ dutQ[1].op \in CmoOps /\ Quiet
      /\ Answer(dutQ[1], 0, FALSE) /\ dutQ' = <<>>
      /\ UNCHANGED <<miss, wbuf, rsv, uc, memVars>>
  BY DEF DutCmo, Ready
<1>2. /\ ~IsRmw(dutQ[1].op) /\ dutQ[1].op \notin AmoOps \cup {"STORE", "LR", "SC"}
  BY <1>1 DEF IsRmw, AmoOps, CmoOps
<1>3. ~uc.busy
  BY <1>1, <1>2 DEF InOrder, DeviceOK
<1>4. Answered(dutQ[1])
  BY <1>1, RightEffect
<1>5. amoFifo = <<>>
  BY <1>1, <1>2 DEF InOrder, AtomicsOK
<1>6. /\ rsv \in Addr \cup {None} /\ lrsc = rsv
      /\ rsv # None => ~within_error_region(rsv) /\ excl[UcId] = rsv
  <2>1. \A a : ~Killed(a)
    BY <1>1, <1>2 DEF Killed
  <2> QED
    BY <1>1, <1>2, <1>3, <2>1 DEF InOrder, ReservationsOK
<1>7. miss = {} /\ uc.rd = None /\ uc.wr = None
  BY <1>1, <1>3 DEF Quiet, InOrder, DeviceOK
<1>8. rsv' # None => ~within_error_region(rsv)'
  BY <1>1, <1>6 DEF within_error_region
<1> QED
  BY <1>1, <1>3, <1>4, <1>5, <1>6, <1>7, <1>8, QuietIsEmpty, Emptied DEF Answered

\* The atomic request is answered when all its responses have come.
LEMMA DoneIsEmpty ==
    ASSUME TbBase, InOrder, DutUcDone
    PROVE  /\ rdReq = None /\ rdOp = None /\ rdResp = None /\ Elems(rdFifo) = {}
           /\ waReq = None /\ wrResp = None /\ wrOp = <<>>
           /\ Elems(waFifo) = {} /\ Elems(wrFifo) = {}
           /\ \A i \in MemIds : inflightRd[i] = None /\ inflightWr[i] = None
<1> USE DEF TbBase, TbTypeOK, InOrder
<1>1. /\ uc.busy /\ (dutQ[1].op = "SC" \/ uc.rd # None) /\ (dutQ[1].op = "LR" \/ uc.wr # None)
  BY DEF DutUcDone
<1>2. miss = {} /\ \A a \in Addr : wbuf[a] = None
  BY <1>1 DEF DeviceOK
<1>3. \A r : ~ReadRequestOK(r) /\ ~ReadResponseOK(r)
  BY <1>1, <1>2 DEF ReadRequestOK, ReadResponseOK
<1>4. \A r : r.id \in MemIds => ~WriteRequestOK(r)
  BY <1>1, <1>2, Identifiers DEF WriteRequestOK, AmoOps
<1>5. \A r : ~WriteResponseOK(r)
  BY <1>1, <1>2, Identifiers DEF WriteResponseOK
<1>6. rdReq = None /\ rdOp = None /\ rdResp = None /\ Elems(rdFifo) = {}
  BY <1>3 DEF ReadsOK
<1>7. waReq = None /\ wrResp = None /\ Elems(waFifo) = {} /\ Elems(wrFifo) = {}
  BY <1>4, <1>5, WriteIds DEF WritesOK
<1>8. wrOp = <<>>
  BY <1>5 DEF AcksOK
<1>9. \A i \in MemIds : inflightRd[i] = None /\ inflightWr[i] = None
  BY <1>1, <1>2, Identifiers DEF ReadsOK, WritesOK
<1> QED
  BY <1>6, <1>7, <1>8, <1>9

LEMMA UcDoneStep ==
    ASSUME TbBase, InOrder, DutUcDone, UNCHANGED kind, bug' = None
    PROVE  InOrder'
<1> USE DEF TbBase, TbTypeOK
<1> DEFINE t == dutQ[1]
           err == (uc.rd # None /\ uc.rd.error) \/ (uc.wr # None /\ uc.wr.error)
<1>1. /\ uc.busy /\ (t.op = "SC" \/ uc.rd # None)
      /\ rsv' = IF t.op = "LR" THEN (IF err THEN None ELSE t.addr)
                ELSE IF t.op = "SC" \/ rsv = t.addr THEN None ELSE rsv
      /\ uc' = UcIdle /\ dutQ' = <<>>
      /\ UNCHANGED <<miss, wbuf, memVars>>
  BY DEF DutUcDone
<1>2. \E d, e : Answer(t, d, e)
  BY Zenon DEF DutUcDone
<1>3. Answered(t)
  BY <1>2, RightEffect
<1>4. /\ rdReq = None /\ rdOp = None /\ rdResp = None /\ Elems(rdFifo) = {}
      /\ waReq = None /\ wrResp = None /\ wrOp = <<>>
      /\ Elems(waFifo) = {} /\ Elems(wrFifo) = {}
      /\ \A i \in MemIds : inflightRd[i] = None /\ inflightWr[i] = None
  BY DoneIsEmpty
<1>5. ~UcWrites /\ ~Holds(rdReq, UcId) /\ ~Holds(rdOp, UcId)
  BY <1>4 DEF UcWrites, Holds, Has
<1>6. Len(dutQ) = 1 /\ t.addr \in Addr /\ t.addr # None /\ IsRmw(t.op)
  BY <1>1, BusyFacts DEF InOrder
<1>7. amoFifo = <<>> /\ miss = {}
  BY <1>1, <1>5 DEF InOrder, AtomicsOK, DeviceOK
<1>8. /\ rsv' \in Addr \cup {None} /\ lrsc = rsv'
      /\ rsv' # None => ~within_error_region(rsv') /\ excl[UcId] = rsv'
  <2>1. CASE t.op = "LR"
    <3>1. err <=> within_error_region(t.addr)
      BY <1>1, <2>1 DEF InOrder, DeviceOK, ReadsOK
    <3>2. lrsc = IF within_error_region(t.addr) THEN None ELSE t.addr
      BY <1>6, <2>1 DEF InOrder, ReservationsOK
    <3>3. ~within_error_region(t.addr) => excl[UcId] = t.addr
      BY <1>1, <1>5, <1>6, <2>1 DEF InOrder, ReservationsOK
    <3> QED
      BY <1>1, <1>6, <2>1, <3>1, <3>2, <3>3
  <2>2. CASE t.op = "SC"
    BY <1>1, <1>6, <2>2 DEF InOrder, ReservationsOK
  <2>3. CASE t.op \in AmoOps
    <3>1. t.op # "LR" /\ t.op # "SC"
      BY <2>3 DEF AmoOps
    <3>2. \A a : Killed(a) <=> a = t.addr
      BY <1>6, <2>3 DEF Killed
    <3> QED
      BY <1>1, <1>6, <3>1, <3>2 DEF InOrder, ReservationsOK
  <2> QED
    BY <1>6, <2>1, <2>2, <2>3 DEF IsRmw
<1>9. rsv' # None => ~within_error_region(rsv)'
  BY <1>8 DEF within_error_region
<1>10. ~uc'.busy /\ uc'.rd = None /\ uc'.wr = None
  BY <1>1 DEF UcIdle
<1> QED
  BY <1>1, <1>3, <1>4, <1>7, <1>8, <1>9, <1>10, Emptied DEF Answered

-----------------------------------------------------------------------------
(* The steps of the memory.                                                  *)

LEMMA MemFrame ==
    ASSUME UNCHANGED <<kind, dutVars>>, UcWrites' => UcWrites
    PROVE  /\ \A r : ReadRequestOK(r)' <=> ReadRequestOK(r)
           /\ \A r : ReadResponseOK(r) => ReadResponseOK(r)'
           /\ \A r : WriteRequestOK(r)' <=> WriteRequestOK(r)
           /\ \A r : WriteResponseOK(r) => WriteResponseOK(r)'
           /\ \A i : AddrOf(i)' = AddrOf(i)
           /\ \A a : within_error_region(a)' <=> within_error_region(a)
           /\ \A a : Killed(a)' <=> Killed(a)
<1>1. /\ \A i : AddrOf(i)' = AddrOf(i)
      /\ \A a : within_error_region(a)' <=> within_error_region(a)
      /\ \A a : Killed(a)' <=> Killed(a)
  BY DEF AddrOf, within_error_region, Killed, dutVars
<1>2. /\ \A r : ReadRequestOK(r)' <=> ReadRequestOK(r)
      /\ \A r : WriteRequestOK(r)' <=> WriteRequestOK(r)
  BY DEF ReadRequestOK, WriteRequestOK, dutVars
<1>3. ASSUME NEW r, ReadResponseOK(r)
      PROVE  ReadResponseOK(r)'
  BY <1>3 DEF ReadResponseOK, dutVars, within_error_region
<1>4. ASSUME NEW r, WriteResponseOK(r)
      PROVE  WriteResponseOK(r)'
  BY <1>4 DEF WriteResponseOK, dutVars, within_error_region
<1> QED
  BY <1>1, <1>2, <1>3, <1>4

\* The address of a memory transaction is known as long as it is pending.
LEMMA AddrIsKnown ==
    ASSUME DeviceType, DeviceOK
    PROVE  /\ \A r : ReadRequestOK(r) =>
                 r.id \in MemIds /\ r.addr = AddrOf(r.id) /\ AddrOf(r.id) # None
           /\ \A r : ReadResponseOK(r) => r.id \in MemIds /\ AddrOf(r.id) # None
           /\ \A r : r.id \in MemIds /\ WriteRequestOK(r) =>
                 r.addr = AddrOf(r.id) /\ AddrOf(r.id) # None
           /\ \A r : WriteResponseOK(r) => r.id \in MemIds /\ AddrOf(r.id) # None
<1>1. uc.busy => dutQ[1].addr # None
  BY BusyFacts
<1> USE Identifiers DEF AddrOf
<1>2. \A r : ReadRequestOK(r) =>
         r.id \in MemIds /\ r.addr = AddrOf(r.id) /\ AddrOf(r.id) # None
  BY <1>1 DEF ReadRequestOK
<1>3. \A r : ReadResponseOK(r) => r.id \in MemIds /\ AddrOf(r.id) # None
  BY <1>1 DEF ReadResponseOK
<1>4. \A r : r.id \in MemIds /\ WriteRequestOK(r) =>
         r.addr = AddrOf(r.id) /\ AddrOf(r.id) # None
  BY <1>1 DEF WriteRequestOK
<1>5. \A r : WriteResponseOK(r) => r.id \in MemIds /\ AddrOf(r.id) # None
  BY <1>1 DEF WriteResponseOK
<1> QED
  BY <1>2, <1>3, <1>4, <1>5

\* What the memory and its monitors leave alone.
LEMMA MemUnchanged ==
    ASSUME InOrder, UNCHANGED <<inflight, dutVars>>
    PROVE  QueueOK' /\ DeviceOK'
<1>1. QueueOK'
  BY DEF InOrder, QueueOK, dutVars
<1>2. \A k : Oldest(k)' <=> Oldest(k)
  BY DEF Oldest, dutVars
<1>3. DeviceOK'
  BY <1>2 DEF InOrder, DeviceOK, dutVars
<1> QED
  BY <1>1, <1>3

LastIs(op) == Len(dutQ) > 0 /\ dutQ[Len(dutQ)].op = op

\* What ReservationsOK says of the memory.
MemoryReserves ==
    /\ rsv # None =>
          \/ excl[UcId] = rsv
          \/ uc.busy /\ LastIs("LR")
          \/ uc.busy /\ LastIs("SC") /\ ~UcWrites
    /\ uc.busy /\ LastIs("LR") /\ ~within_error_region(dutQ[Len(dutQ)].addr) =>
          \/ excl[UcId] = dutQ[Len(dutQ)].addr
          \/ Holds(rdReq, UcId) \/ Holds(rdOp, UcId)

LEMMA MemReservations ==
    /\ ReservationsOK => MemoryReserves
    /\ ReservationsOK /\ UNCHANGED <<kind, inflight, lrsc, dutVars>> /\ MemoryReserves'
          => ReservationsOK'
<1>1. ASSUME ReservationsOK
      PROVE  MemoryReserves
  BY <1>1 DEF ReservationsOK, MemoryReserves, LastIs
<1>2. ASSUME ReservationsOK, UNCHANGED <<kind, inflight, lrsc, dutVars>>, MemoryReserves'
      PROVE  ReservationsOK'
  <2>1. dutQ' = dutQ /\ rsv' = rsv /\ uc' = uc /\ kind' = kind /\ inflight' = inflight
        /\ lrsc' = lrsc
    BY <1>2 DEF dutVars
  <2>2. \A a : (Killed(a)' <=> Killed(a)) /\ (within_error_region(a)' <=> within_error_region(a))
    BY <2>1 DEF Killed, within_error_region
  <2>3. /\ rsv' # None =>
              \/ excl'[UcId] = rsv'
              \/ uc'.busy /\ LastIs("LR")
              \/ uc'.busy /\ LastIs("SC") /\ ~UcWrites'
        /\ uc'.busy /\ LastIs("LR") /\ ~within_error_region(dutQ[Len(dutQ)].addr) =>
              \/ excl'[UcId] = dutQ[Len(dutQ)].addr
              \/ Holds(rdReq, UcId)' \/ Holds(rdOp, UcId)'
    BY <1>2, <2>1, <2>2 DEF MemoryReserves, LastIs, within_error_region
  <2> QED
    BY <1>2, <2>1, <2>2, <2>3 DEF ReservationsOK, LastIs
<1> QED
  BY <1>1, <1>2

\* A step that leaves the reads, or the writes, alone.
LEMMA ReadsFrame ==
    ASSUME ReadsOK, UNCHANGED <<kind, dutVars, inflightRd, rdReq, rdOp, rdFifo, rdResp>>,
           UcWrites' => UcWrites
    PROVE  ReadsOK'
<1>1. UNCHANGED <<Elems(rdFifo), Distinct(rdFifo)>>
  BY DEF Elems, Distinct
<1>2. /\ rdReq' # None => ReadRequestOK(rdReq)' /\ inflightRd'[rdReq'.id] = None
      /\ rdOp' # None =>
            /\ ReadRequestOK(rdOp)' /\ inflightRd'[rdOp'.id] = rdOp'.addr
            /\ ~Has(rdFifo, rdOp.id)'
  BY <1>1, MemFrame DEF ReadsOK, Has
<1>3. \A r \in Elems(rdFifo)' : ReadResponseOK(r)' /\ inflightRd'[r.id] = AddrOf(r.id)'
  BY <1>1, MemFrame DEF ReadsOK
<1>4. rdResp' # None =>
         /\ ReadResponseOK(rdResp)' /\ inflightRd'[rdResp'.id] = None
         /\ ~Holds(rdReq, rdResp.id)'
  BY MemFrame DEF ReadsOK, Holds
<1>5. /\ \A i \in MemIds : inflightRd'[i] # None =>
            IF i = UcId
            THEN uc'.busy /\ uc'.rd = None /\ dutQ'[1].op # "SC" /\ ~UcWrites'
            ELSE i \in miss'
      /\ uc'.rd # None =>
            uc'.rd.error = (dutQ'[1].op = "LR" /\ within_error_region(dutQ[1].addr)')
  BY DEF ReadsOK, dutVars, within_error_region
<1> QED
  BY <1>1, <1>2, <1>3, <1>4, <1>5 DEF ReadsOK

LEMMA WritesFrame ==
    ASSUME WritesOK, UNCHANGED <<kind, dutVars, inflightWr, waReq, waFifo, wrFifo, wrResp>>
    PROVE  WritesOK'
<1>1. UNCHANGED <<Elems(waFifo), Distinct(waFifo), Elems(wrFifo), Distinct(wrFifo)>>
  BY DEF Elems, Distinct
<1>2. UcWrites' <=> UcWrites
  BY <1>1 DEF UcWrites, Holds, Has
<1>3. waReq' # None =>
         /\ WriteRequestOK(waReq)' /\ inflightWr'[waReq'.id] = None
         /\ ~Has(waFifo, waReq.id)' /\ ~Holds(wrResp, waReq.id)'
  BY <1>1, <1>2, MemFrame DEF WritesOK, Has, Holds
<1>4. /\ \A r \in Elems(waFifo)' :
            /\ WriteRequestOK(r)' /\ inflightWr'[r.id] = None
            /\ ~Holds(wrResp, r.id)'
      /\ \A r \in Elems(wrFifo)' :
            WriteResponseOK(r)' /\ inflightWr'[r.id] = AddrOf(r.id)'
  BY <1>1, <1>2, MemFrame DEF WritesOK, Holds
<1>5. wrResp' # None => WriteResponseOK(wrResp)' /\ inflightWr'[wrResp'.id] = None
  BY <1>2, MemFrame DEF WritesOK
<1>6. /\ \A x \in MemIds : inflightWr'[x] # None =>
            IF x = UcId THEN uc'.busy /\ uc'.wr = None /\ dutQ'[1].op # "LR"
            ELSE wbuf'[x] # None /\ wbuf'[x].sent
      /\ uc'.wr # None =>
            /\ uc'.wr.error = within_error_region(dutQ[1].addr)'
            /\ dutQ'[1].op = "SC" => uc'.wr.atomic
            /\ ~UcWrites'
  BY <1>2 DEF WritesOK, dutVars, within_error_region
<1> QED
  BY <1>1, <1>3, <1>4, <1>5, <1>6 DEF WritesOK

LEMMA ReadProcessStep ==
    ASSUME TbBase, InOrder, read_process, UNCHANGED <<kind, dutVars>>
    PROVE  InOrder'
<1> USE DEF TbBase, TbTypeOK, InOrder
<1>1. /\ rdReq # None /\ rdOp = None /\ rdOp' = rdReq /\ rdReq' = None
      /\ mem_read_req_process(rdReq)
      /\ UNCHANGED <<rdFifo, rdResp, waReq, waFifo, wrOp, wrFifo, wrResp, excl>>
  BY DEF read_process
<1> DEFINE i == rdReq.id
<1>2. /\ ReadRequestOK(rdReq) /\ inflightRd[i] = None
      /\ i \in MemIds /\ rdReq.addr = AddrOf(i) /\ AddrOf(i) # None
  BY <1>1, AddrIsKnown DEF ReadsOK
<1>3. /\ inflightRd' = [inflightRd EXCEPT ![i] = rdReq.addr]
      /\ amoFifo' = IF rdReq.cmd = "LDEX" /\ amoFifo # <<>> THEN Tail(amoFifo) ELSE amoFifo
      /\ UNCHANGED <<inflight, inflightWr, lrsc>>
  BY <1>1, <1>2 DEF mem_read_req_process
<1>4. \A x \in MemIds : inflightRd'[x] = IF x = i THEN AddrOf(i) ELSE inflightRd[x]
  BY <1>2, <1>3 DEF BoardType
<1>5. UcWrites' <=> UcWrites
  BY <1>1 DEF UcWrites, Holds, Has, Elems
<1>6. QueueOK' /\ DeviceOK'
  BY <1>3, MemUnchanged
<1>7. UNCHANGED <<Elems(rdFifo), Distinct(rdFifo), Elems(waFifo), Distinct(waFifo),
                  Elems(wrFifo), Distinct(wrFifo)>>
  BY <1>1 DEF Elems, Distinct
<1>8. /\ \A r \in Elems(rdFifo) : r.id # i /\ r.id \in MemIds
      /\ rdResp # None => rdResp.id # i /\ rdResp.id \in MemIds
  BY <1>1, <1>2, AddrIsKnown DEF ReadsOK, Holds
<1>9. i = UcId => uc.busy /\ uc.rd = None /\ dutQ[1].op = "LR" /\ ~UcWrites
  <2> SUFFICES ASSUME i = UcId
               PROVE  uc.busy /\ uc.rd = None /\ dutQ[1].op = "LR" /\ ~UcWrites
    OBVIOUS
  <2>1. uc.busy /\ uc.rd = None /\ dutQ[1].op = "LR"
    BY <1>2 DEF ReadRequestOK
  <2>2. \A r : r.id = UcId => ~WriteRequestOK(r)
    BY <2>1 DEF WriteRequestOK, AmoOps
  <2>3. ~UcWrites
    BY <2>2 DEF UcWrites, Holds, Has, WritesOK
  <2> QED
    BY <2>1, <2>3
<1>10. ReadsOK'
  <2>1. /\ ReadRequestOK(rdOp)' /\ inflightRd'[rdOp'.id] = rdOp'.addr
        /\ ~Has(rdFifo, rdOp.id)'
    BY <1>1, <1>2, <1>4, <1>5, <1>7, <1>8, MemFrame DEF Has
  <2>2. \A r \in Elems(rdFifo)' : ReadResponseOK(r)' /\ inflightRd'[r.id] = AddrOf(r.id)'
    BY <1>4, <1>5, <1>7, <1>8, MemFrame DEF ReadsOK
  <2>3. rdResp' # None =>
           /\ ReadResponseOK(rdResp)' /\ inflightRd'[rdResp'.id] = None
           /\ ~Holds(rdReq, rdResp.id)'
    BY <1>1, <1>4, <1>5, <1>8, MemFrame DEF ReadsOK, Holds
  <2>4. \A x \in MemIds : inflightRd'[x] # None =>
           IF x = UcId
           THEN uc'.busy /\ uc'.rd = None /\ dutQ'[1].op # "SC" /\ ~UcWrites'
           ELSE x \in miss'
    BY <1>2, <1>4, <1>5, <1>9 DEF ReadsOK, ReadRequestOK, dutVars
  <2>5. uc'.rd # None =>
           uc'.rd.error = (dutQ'[1].op = "LR" /\ within_error_region(dutQ[1].addr)')
    BY <1>5, MemFrame DEF ReadsOK, dutVars
  <2> QED
    BY <1>1, <1>7, <2>1, <2>2, <2>3, <2>4, <2>5 DEF ReadsOK
<1>11. WritesOK'
  BY <1>1, <1>3, WritesFrame
<1>12. AcksOK'
  <2>1. Len(wrOp) = 2 => i # UcId
    BY <1>2 DEF AcksOK
  <2>2. Len(wrOp) = 2 => ~Holds(rdOp, UcId)' /\ inflightRd'[UcId] = AddrOf(UcId)
    BY <1>1, <1>4, <2>1, Identifiers DEF AcksOK, Holds
  <2> QED
    BY <1>1, <1>3, <1>5, <1>7, <2>2, MemFrame DEF AcksOK, Has
<1>13. AtomicsOK'
  <2>1. CASE i = UcId
    <3>1. Len(dutQ) = 1 /\ rdReq.cmd = "LDEX" /\ dutQ[1].op = "LR" /\ uc.busy
      BY <1>2, <1>9, <2>1, BusyFacts DEF ReadRequestOK
    <3>2. amoFifo # <<>> => amoFifo' = Tail(amoFifo) /\ Len(amoFifo) = 1
      BY <1>3, <3>1 DEF AtomicsOK
    <3>3. amoFifo' = <<>>
      BY <1>3, <3>2, Popped DEF BoardType, IsSeq
    <3>4. uc'.busy /\ ~UcWrites' /\ ~Holds(rdReq, UcId)'
      BY <1>1, <1>5, <1>9, <2>1 DEF Holds, dutVars
    <3> QED
      BY <3>3, <3>4 DEF AtomicsOK
  <2>2. CASE i # UcId
    <3>1. amoFifo' = amoFifo /\ ~uc.busy
      BY <1>2, <1>3, <2>2 DEF ReadRequestOK, DeviceOK
    <3> QED
      BY <1>3, <3>1 DEF AtomicsOK, dutVars
  <2> QED
    BY <2>1, <2>2
<1>14. ReservationsOK'
  <2>1. Holds(rdReq, UcId) \/ Holds(rdOp, UcId) => Holds(rdReq, UcId)' \/ Holds(rdOp, UcId)'
    BY <1>1 DEF Holds
  <2>2. MemoryReserves'
    <3>1. dutQ' = dutQ /\ rsv' = rsv /\ uc' = uc /\ kind' = kind /\ MemoryReserves
      BY MemReservations DEF dutVars
    <3> QED
      BY <1>1, <1>5, <2>1, <3>1 DEF MemoryReserves, LastIs, within_error_region
  <2> QED
    BY <1>3, <2>2, MemReservations
<1> QED
  BY <1>6, <1>10, <1>11, <1>12, <1>13, <1>14

LEMMA ReadOperationStep ==
    ASSUME TbBase, InOrder, readOperation, UNCHANGED <<kind, dutVars>>
    PROVE  InOrder'
<1> USE DEF TbBase, TbTypeOK, InOrder
<1> DEFINE i == rdOp.id
           a == rdOp.addr
           err == within_error_region(a)
           e == [id |-> i, error |-> err, data |-> IF err THEN 0 ELSE readMemory(a)]
<1>1. /\ rdOp # None /\ rdOp' = None /\ rdFifo' = Append(rdFifo, e)
      /\ excl' = IF ~err /\ rdOp.cmd = "LDEX" THEN [excl EXCEPT ![i] = a] ELSE excl
      /\ UNCHANGED <<rdReq, rdResp, waReq, waFifo, wrOp, wrFifo, wrResp, sbVars>>
  BY DEF readOperation
<1>2. /\ ReadRequestOK(rdOp) /\ inflightRd[i] = AddrOf(i) /\ ~Has(rdFifo, i)
      /\ i \in MemIds /\ a = AddrOf(i) /\ AddrOf(i) # None
  BY <1>1, AddrIsKnown DEF ReadsOK
<1>3. UNCHANGED <<inflight, inflightRd, inflightWr, lrsc, amoFifo>>
  BY <1>1 DEF sbVars
<1>4. UcWrites' <=> UcWrites
  BY <1>1 DEF UcWrites, Holds, Has, Elems
<1>5. QueueOK' /\ DeviceOK'
  BY <1>3, MemUnchanged
<1>6. i = UcId => ~UcWrites
  <2> SUFFICES ASSUME i = UcId
               PROVE  ~UcWrites
    OBVIOUS
  <2>1. \A r : r.id = UcId => ~WriteRequestOK(r)
    BY <1>2 DEF ReadRequestOK, WriteRequestOK, AmoOps
  <2> QED
    BY <2>1 DEF UcWrites, Holds, Has, WritesOK
<1>7. ReadResponseOK(e) /\ e.id = i
  <2>1. e.id = i /\ e.error = err
    OBVIOUS
  <2>2. CASE i = UcId
    <3>1. uc.busy /\ uc.rd = None /\ dutQ[1].op = "LR" /\ a = dutQ[1].addr
      BY <1>2, <2>2 DEF ReadRequestOK
    <3> QED
      BY <1>2, <1>6, <2>1, <2>2, <3>1 DEF ReadResponseOK, within_error_region
  <2>3. CASE i # UcId
    BY <1>2, <2>1, <2>3 DEF ReadResponseOK, ReadRequestOK
  <2> QED
    BY <2>2, <2>3
<1> HIDE DEF e
<1>8. /\ Elems(rdFifo') = Elems(rdFifo) \cup {e} /\ Distinct(rdFifo')
  BY <1>1, <1>2, <1>7, Pushed, PushedDistinct DEF MemoryType, ReadsOK
<1>9. ReadsOK'
  <2>1. rdReq' # None => ReadRequestOK(rdReq)' /\ inflightRd'[rdReq'.id] = None
    BY <1>1, <1>3, <1>4, MemFrame DEF ReadsOK
  <2>2. \A r \in Elems(rdFifo') : ReadResponseOK(r)' /\ inflightRd'[r.id] = AddrOf(r.id)'
    BY <1>2, <1>3, <1>4, <1>7, <1>8, MemFrame DEF ReadsOK
  <2>3. rdResp' # None =>
           /\ ReadResponseOK(rdResp)' /\ inflightRd'[rdResp'.id] = None
           /\ ~Holds(rdReq, rdResp.id)'
    BY <1>1, <1>3, <1>4, MemFrame DEF ReadsOK, Holds
  <2>4. /\ \A x \in MemIds : inflightRd'[x] # None =>
              IF x = UcId
              THEN uc'.busy /\ uc'.rd = None /\ dutQ'[1].op # "SC" /\ ~UcWrites'
              ELSE x \in miss'
        /\ uc'.rd # None =>
              uc'.rd.error = (dutQ'[1].op = "LR" /\ within_error_region(dutQ[1].addr)')
    BY <1>3, <1>4 DEF ReadsOK, dutVars, within_error_region
  <2> QED
    BY <1>1, <1>8, <2>1, <2>2, <2>3, <2>4 DEF ReadsOK
<1>10. WritesOK'
  BY <1>1, <1>3, WritesFrame
<1>11. AcksOK'
  <2>1. Len(wrOp) = 2 => ~Has(rdFifo, UcId)' /\ ~Holds(rdOp, UcId)'
    BY <1>1, <1>7, <1>8 DEF AcksOK, Has, Holds
  <2>2. UNCHANGED Elems(wrFifo)
    BY <1>1 DEF Elems
  <2> QED
    BY <1>1, <1>3, <1>4, <2>1, <2>2, MemFrame DEF AcksOK, Has
<1>12. AtomicsOK'
  BY <1>1, <1>3, <1>4 DEF AtomicsOK, dutVars, Holds
<1>13. ReservationsOK'
  <2>1. dutQ' = dutQ /\ rsv' = rsv /\ uc' = uc /\ kind' = kind /\ MemoryReserves
    BY MemReservations DEF dutVars
  <2>2. CASE i = UcId
    <3>1. uc.busy /\ LastIs("LR") /\ a = dutQ[Len(dutQ)].addr /\ rdOp.cmd = "LDEX"
      BY <1>2, <2>2, BusyFacts DEF ReadRequestOK, LastIs
    <3>2. ~err => excl'[UcId] = a
      BY <1>1, <1>2, <2>2, <3>1 DEF MemoryType
    <3>3. MemoryReserves'
      BY <2>1, <3>1, <3>2 DEF MemoryReserves, LastIs, within_error_region
    <3> QED
      BY <1>3, <3>3, MemReservations
  <2>3. CASE i # UcId
    <3>1. excl' = excl /\ ~uc.busy
      BY <1>1, <1>2, <2>3 DEF ReadRequestOK, DeviceOK
    <3>2. MemoryReserves'
      BY <2>1, <3>1 DEF MemoryReserves, LastIs
    <3> QED
      BY <1>3, <3>2, MemReservations
  <2> QED
    BY <2>2, <2>3
<1> QED
  BY <1>5, <1>9, <1>10, <1>11, <1>12, <1>13

LEMMA ReadResponseStep ==
    ASSUME TbBase, InOrder, read_response_process, UNCHANGED <<kind, dutVars>>
    PROVE  InOrder'
<1> USE DEF TbBase, TbTypeOK, InOrder
<1> DEFINE h == Head(rdFifo)
<1>1. /\ rdFifo # <<>> /\ rdResp = None /\ rdResp' = h /\ rdFifo' = Tail(rdFifo)
      /\ mem_read_resp_process(h)
      /\ UNCHANGED <<rdReq, rdOp, waReq, waFifo, wrOp, wrFifo, wrResp, excl>>
  BY DEF read_response_process
<1>2. /\ h \in Elems(rdFifo) /\ Elems(rdFifo) = Elems(rdFifo') \cup {h}
      /\ Distinct(rdFifo') /\ ~Has(rdFifo', h.id)
  BY <1>1, Popped, PoppedDistinct DEF MemoryType, ReadsOK
<1> HIDE DEF h
<1>3. /\ ReadResponseOK(h) /\ inflightRd[h.id] = AddrOf(h.id) /\ AddrOf(h.id) # None
      /\ h.id \in MemIds
  BY <1>2, AddrIsKnown DEF ReadsOK
<1>4. /\ inflightRd' = [inflightRd EXCEPT ![h.id] = None]
      /\ UNCHANGED <<inflight, inflightWr, lrsc, amoFifo>>
  BY <1>1, <1>3 DEF mem_read_resp_process
<1>5. \A x \in MemIds : inflightRd'[x] = IF x = h.id THEN None ELSE inflightRd[x]
  BY <1>3, <1>4 DEF BoardType
<1>6. UcWrites' <=> UcWrites
  BY <1>1 DEF UcWrites, Holds, Has, Elems
<1>7. QueueOK' /\ DeviceOK'
  BY <1>4, MemUnchanged
<1>8. ReadsOK'
  <2>1. rdReq' # None =>
           ReadRequestOK(rdReq)' /\ inflightRd'[rdReq'.id] = None /\ rdReq'.id # h.id
    BY <1>1, <1>3, <1>5, <1>6, MemFrame, AddrIsKnown DEF ReadsOK
  <2>2. rdOp' # None =>
           /\ ReadRequestOK(rdOp)' /\ inflightRd'[rdOp'.id] = rdOp'.addr
           /\ ~Has(rdFifo', rdOp'.id)
    <3>1. rdOp # None => rdOp.id # h.id /\ rdOp.id \in MemIds /\ ~Has(rdFifo', rdOp.id)
      BY <1>2, AddrIsKnown DEF ReadsOK, Has
    <3> QED
      BY <1>1, <1>5, <1>6, <3>1, MemFrame DEF ReadsOK
  <2>3. \A r \in Elems(rdFifo') : ReadResponseOK(r)' /\ inflightRd'[r.id] = AddrOf(r.id)'
    <3>1. \A r \in Elems(rdFifo') : r.id # h.id /\ r.id \in MemIds
      BY <1>2, AddrIsKnown DEF ReadsOK, Has
    <3> QED
      BY <1>2, <1>5, <1>6, <3>1, MemFrame DEF ReadsOK
  <2>4. ReadResponseOK(rdResp)' /\ inflightRd'[rdResp'.id] = None /\ ~Holds(rdReq, rdResp.id)'
    BY <1>1, <1>3, <1>5, <1>6, <2>1, MemFrame DEF Holds
  <2>5. /\ \A x \in MemIds : inflightRd'[x] # None =>
              IF x = UcId
              THEN uc'.busy /\ uc'.rd = None /\ dutQ'[1].op # "SC" /\ ~UcWrites'
              ELSE x \in miss'
        /\ uc'.rd # None =>
              uc'.rd.error = (dutQ'[1].op = "LR" /\ within_error_region(dutQ[1].addr)')
    BY <1>5, <1>6 DEF ReadsOK, dutVars, within_error_region
  <2> QED
    BY <1>2, <2>1, <2>2, <2>3, <2>4, <2>5 DEF ReadsOK
<1>9. WritesOK'
  BY <1>1, <1>4, WritesFrame
<1>10. AcksOK'
  <2>1. Len(wrOp) = 2 => ~Has(rdFifo', UcId) /\ h.id # UcId
    BY <1>2 DEF AcksOK, Has
  <2>2. Len(wrOp) = 2 => inflightRd'[UcId] = AddrOf(UcId) /\ ~Holds(rdOp, UcId)'
    BY <1>1, <1>5, <2>1, Identifiers DEF AcksOK, Holds
  <2>3. UNCHANGED Elems(wrFifo)
    BY <1>1 DEF Elems
  <2> QED
    BY <1>1, <1>4, <1>6, <2>1, <2>2, <2>3, MemFrame DEF AcksOK, Has
<1>11. AtomicsOK'
  BY <1>1, <1>4, <1>6 DEF AtomicsOK, dutVars, Holds
<1>12. ReservationsOK'
  <2>1. dutQ' = dutQ /\ rsv' = rsv /\ uc' = uc /\ kind' = kind /\ MemoryReserves
    BY MemReservations DEF dutVars
  <2>2. MemoryReserves'
    BY <1>1, <1>6, <2>1 DEF MemoryReserves, LastIs, within_error_region, Holds
  <2> QED
    BY <1>4, <2>2, MemReservations
<1> QED
  BY <1>7, <1>8, <1>9, <1>10, <1>11, <1>12

LEMMA WriteAddressStep ==
    ASSUME TbBase, InOrder, write_address_process, UNCHANGED <<kind, dutVars>>, ~overrun'
    PROVE  InOrder'
<1> USE DEF TbBase, TbTypeOK, InOrder
<1>1. /\ waReq # None /\ waFifo' = Append(waFifo, waReq) /\ waReq' = None
      /\ UNCHANGED <<rdReq, rdOp, rdFifo, rdResp, wrOp, wrFifo, wrResp, excl, sbVars>>
  BY AddressTaken DEF write_address_process
<1>2. UNCHANGED <<inflight, inflightRd, inflightWr, lrsc, amoFifo>>
  BY <1>1 DEF sbVars
<1>3. WriteRequestOK(waReq) /\ inflightWr[waReq.id] = None
      /\ ~Has(waFifo, waReq.id) /\ ~Holds(wrResp, waReq.id)
  BY <1>1 DEF WritesOK
<1>4. Elems(waFifo') = Elems(waFifo) \cup {waReq} /\ Distinct(waFifo')
  BY <1>1, <1>3, Pushed, PushedDistinct, SeqIsSeq DEF MemoryType, WritesOK
<1>5. UcWrites' <=> UcWrites
  BY <1>1, <1>4 DEF UcWrites, Holds, Has
<1>6. QueueOK' /\ DeviceOK'
  BY <1>2, MemUnchanged
<1>7. ReadsOK'
  BY <1>1, <1>2, <1>5, ReadsFrame
<1>8. UNCHANGED <<Elems(wrFifo), Distinct(wrFifo), Elems(rdFifo)>>
  BY <1>1 DEF Elems, Distinct
<1>9. WritesOK'
  <2>1. /\ \A r \in Elems(waFifo)' :
              WriteRequestOK(r)' /\ inflightWr'[r.id] = None /\ ~Holds(wrResp, r.id)'
    BY <1>1, <1>2, <1>3, <1>4, <1>5, MemFrame DEF WritesOK, Holds
  <2>2. /\ \A r \in Elems(wrFifo)' :
              WriteResponseOK(r)' /\ inflightWr'[r.id] = AddrOf(r.id)'
        /\ wrResp' # None => WriteResponseOK(wrResp)' /\ inflightWr'[wrResp'.id] = None
    BY <1>1, <1>2, <1>5, <1>8, MemFrame DEF WritesOK
  <2>3. /\ \A x \in MemIds : inflightWr'[x] # None =>
              IF x = UcId THEN uc'.busy /\ uc'.wr = None /\ dutQ'[1].op # "LR"
              ELSE wbuf'[x] # None /\ wbuf'[x].sent
        /\ uc'.wr # None =>
              /\ uc'.wr.error = within_error_region(dutQ[1].addr)'
              /\ dutQ'[1].op = "SC" => uc'.wr.atomic
              /\ ~UcWrites'
    BY <1>2, <1>5 DEF WritesOK, dutVars, within_error_region
  <2> QED
    BY <1>1, <1>4, <1>8, <2>1, <2>2, <2>3 DEF WritesOK
<1>10. AcksOK'
  BY <1>1, <1>2, <1>5, <1>8, MemFrame DEF AcksOK, Has, Holds
<1>11. AtomicsOK'
  BY <1>1, <1>2, <1>5 DEF AtomicsOK, dutVars, Holds
<1>12. ReservationsOK'
  <2>1. dutQ' = dutQ /\ rsv' = rsv /\ uc' = uc /\ kind' = kind /\ MemoryReserves
    BY MemReservations DEF dutVars
  <2>2. MemoryReserves'
    BY <1>1, <1>5, <2>1 DEF MemoryReserves, LastIs, within_error_region, Holds
  <2> QED
    BY <1>2, <2>2, MemReservations
<1> QED
  BY <1>6, <1>7, <1>9, <1>10, <1>11, <1>12

\* A step that leaves alone all that is pending.
LEMMA OrderFrame ==
    ASSUME InOrder, UNCHANGED <<kind, dutVars, inflight, inflightRd, inflightWr, lrsc,
                                amoFifo, rdReq, rdOp, rdFifo, rdResp, waReq, waFifo,
                                wrOp, wrFifo, wrResp, excl>>
    PROVE  InOrder'
<1> USE DEF InOrder
<1>1. UcWrites' <=> UcWrites
  BY DEF UcWrites, Holds, Has, Elems
<1>2. QueueOK' /\ DeviceOK' /\ ReadsOK' /\ WritesOK'
  BY <1>1, MemUnchanged, ReadsFrame, WritesFrame
<1>3. AcksOK'
  <2>1. UNCHANGED <<Elems(wrFifo), Elems(rdFifo)>>
    BY DEF Elems
  <2> QED
    BY <1>1, <2>1, MemFrame DEF AcksOK, Has, Holds
<1>4. AtomicsOK'
  BY <1>1 DEF AtomicsOK, dutVars, Holds
<1>5. ReservationsOK'
  <2>1. dutQ' = dutQ /\ rsv' = rsv /\ uc' = uc /\ kind' = kind /\ MemoryReserves
    BY MemReservations DEF dutVars
  <2>2. MemoryReserves'
    BY <1>1, <2>1 DEF MemoryReserves, LastIs, within_error_region, Holds
  <2> QED
    BY <2>2, MemReservations
<1> QED
  BY <1>2, <1>3, <1>4, <1>5

LEMMA WriteResponseStep ==
    ASSUME TbBase, InOrder, write_response_process, UNCHANGED <<kind, dutVars>>
    PROVE  InOrder'
<1> USE DEF TbBase, TbTypeOK, InOrder
<1> DEFINE h == Head(wrFifo)
<1>1. /\ wrFifo # <<>> /\ wrResp = None /\ wrResp' = h /\ wrFifo' = Tail(wrFifo)
      /\ mem_write_resp_process(h)
      /\ UNCHANGED <<rdReq, rdOp, rdFifo, rdResp, waReq, waFifo, wrOp, excl>>
  BY DEF write_response_process
<1>2. /\ h \in Elems(wrFifo) /\ Elems(wrFifo) = Elems(wrFifo') \cup {h}
      /\ Distinct(wrFifo') /\ ~Has(wrFifo', h.id)
  BY <1>1, Popped, PoppedDistinct DEF MemoryType, WritesOK
<1> HIDE DEF h
<1>3. /\ WriteResponseOK(h) /\ inflightWr[h.id] = AddrOf(h.id) /\ AddrOf(h.id) # None
      /\ h.id \in MemIds
  BY <1>2, AddrIsKnown DEF WritesOK
<1>4. /\ inflightWr' = [inflightWr EXCEPT ![h.id] = None]
      /\ UNCHANGED <<inflight, inflightRd, lrsc, amoFifo>>
  BY <1>1, <1>3 DEF mem_write_resp_process
<1>5. \A x \in MemIds : inflightWr'[x] = IF x = h.id THEN None ELSE inflightWr[x]
  BY <1>3, <1>4 DEF BoardType
<1>6. UcWrites' <=> UcWrites
  BY <1>1 DEF UcWrites, Holds, Has, Elems
<1>7. QueueOK' /\ DeviceOK' /\ ReadsOK'
  BY <1>1, <1>4, <1>6, MemUnchanged, ReadsFrame
<1>8. UNCHANGED <<Elems(waFifo), Distinct(waFifo), Elems(rdFifo)>>
  BY <1>1 DEF Elems, Distinct
<1>9. WritesOK'
  <2>1. waReq' # None =>
           /\ WriteRequestOK(waReq)' /\ inflightWr'[waReq'.id] = None
           /\ ~Has(waFifo, waReq.id)' /\ ~Holds(wrResp, waReq.id)'
    <3>1. waReq # None => waReq.id \in MemIds /\ waReq.id # h.id
      BY <1>3 DEF WritesOK, MemoryType, WriteRequest
    <3> QED
      BY <1>1, <1>5, <1>6, <1>8, <3>1, MemFrame DEF WritesOK, Has, Holds
  <2>2. \A r \in Elems(waFifo)' :
           WriteRequestOK(r)' /\ inflightWr'[r.id] = None /\ ~Holds(wrResp, r.id)'
    <3>1. \A r \in Elems(waFifo) : r.id \in MemIds /\ r.id # h.id
      <4>1. Elems(waFifo) \subseteq WriteRequest
        BY SeqIsSeq DEF MemoryType
      <4> QED
        BY <1>3, <4>1 DEF WritesOK, WriteRequest
    <3> QED
      BY <1>1, <1>5, <1>6, <1>8, <3>1, MemFrame DEF WritesOK, Holds
  <2>3. \A r \in Elems(wrFifo)' :
           WriteResponseOK(r)' /\ inflightWr'[r.id] = AddrOf(r.id)'
    <3>1. \A r \in Elems(wrFifo') : r.id # h.id /\ r.id \in MemIds
      BY <1>2, AddrIsKnown DEF WritesOK, Has
    <3> QED
      BY <1>2, <1>5, <1>6, <3>1, MemFrame DEF WritesOK
  <2>4. WriteResponseOK(wrResp)' /\ inflightWr'[wrResp'.id] = None
    BY <1>1, <1>3, <1>5, <1>6, MemFrame
  <2>5. /\ \A x \in MemIds : inflightWr'[x] # None =>
              IF x = UcId THEN uc'.busy /\ uc'.wr = None /\ dutQ'[1].op # "LR"
              ELSE wbuf'[x] # None /\ wbuf'[x].sent
        /\ uc'.wr # None =>
              /\ uc'.wr.error = within_error_region(dutQ[1].addr)'
              /\ dutQ'[1].op = "SC" => uc'.wr.atomic
              /\ ~UcWrites'
    BY <1>5, <1>6 DEF WritesOK, dutVars, within_error_region
  <2> QED
    BY <1>2, <1>8, <2>1, <2>2, <2>3, <2>4, <2>5 DEF WritesOK
<1>10. AcksOK'
  <2> DEFINE ack == wrOp[Len(wrOp)]
  <2>1. wrOp # <<>> => /\ ack.chan = "write" /\ WriteResponseOK(ack)
                       /\ inflightWr[ack.id] = AddrOf(ack.id) /\ ~Has(wrFifo, ack.id)
    BY DEF AcksOK
  <2>2. wrOp # <<>> => ack.id # h.id /\ ack.id \in MemIds /\ ~Has(wrFifo', ack.id)
    BY <1>2, <2>1, AddrIsKnown DEF Has
  <2>3. wrOp # <<>> => /\ ack.chan = "write" /\ WriteResponseOK(ack)'
                       /\ inflightWr'[ack.id] = AddrOf(ack.id)' /\ ~Has(wrFifo', ack.id)
    BY <1>1, <1>5, <1>6, <2>1, <2>2, MemFrame
  <2>4. Len(wrOp) = 2 => ReadResponseOK(wrOp[1])' /\ inflightRd'[UcId] = AddrOf(UcId)'
    BY <1>1, <1>4, <1>6, MemFrame DEF AcksOK
  <2> QED
    BY <1>1, <1>8, <2>3, <2>4 DEF AcksOK, Has, Holds
<1>11. AtomicsOK'
  BY <1>1, <1>4, <1>6 DEF AtomicsOK, dutVars, Holds
<1>12. ReservationsOK'
  <2>1. dutQ' = dutQ /\ rsv' = rsv /\ uc' = uc /\ kind' = kind /\ MemoryReserves
    BY MemReservations DEF dutVars
  <2>2. MemoryReserves'
    BY <1>1, <1>6, <2>1 DEF MemoryReserves, LastIs, within_error_region, Holds
  <2> QED
    BY <1>4, <2>2, MemReservations
<1> QED
  BY <1>7, <1>9, <1>10, <1>11, <1>12

LEMMA WritePushStep ==
    ASSUME TbBase, InOrder, WritePush, UNCHANGED <<kind, dutVars>>
    PROVE  InOrder'
<1> USE DEF TbBase, TbTypeOK, InOrder
<1> DEFINE r0 == Head(wrOp)
           old == [id |-> r0.id, error |-> r0.error, data |-> r0.data]
           ack == [id |-> r0.id, error |-> r0.error, atomic |-> r0.atomic]
<1>1. /\ wrOp # <<>> /\ wrOp' = Tail(wrOp)
      /\ \/ r0.chan = "read" /\ rdFifo' = Append(rdFifo, old) /\ wrFifo' = wrFifo
         \/ r0.chan = "write" /\ wrFifo' = Append(wrFifo, ack) /\ rdFifo' = rdFifo
      /\ UNCHANGED <<rdReq, rdOp, rdResp, waReq, waFifo, wrResp, excl, sbVars>>
  BY DEF WritePush
<1>2. UNCHANGED <<inflight, inflightRd, inflightWr, lrsc, amoFifo>>
  BY <1>1 DEF sbVars
<1>3. /\ Len(wrOp) \in {1, 2} /\ r0 = wrOp[1] /\ Len(wrOp') = Len(wrOp) - 1
      /\ Len(wrOp) = 2 => wrOp'[1] = wrOp[2]
  <2>1. /\ Len(wrOp) \in Nat \ {0} /\ r0 = wrOp[1] /\ Len(wrOp') = Len(wrOp) - 1
        /\ \A k \in 1 .. Len(wrOp) - 1 : wrOp'[k] = wrOp[k + 1]
    BY <1>1, Popped DEF MemoryType
  <2>2. Len(wrOp) <= 2
    BY DEF AcksOK
  <2> QED
    BY <2>1, <2>2
<1>4. UcWrites' <=> UcWrites
  BY <1>1 DEF UcWrites, Holds, Has, Elems
<1>5. QueueOK' /\ DeviceOK'
  BY <1>2, MemUnchanged
<1>6. AtomicsOK'
  BY <1>1, <1>2, <1>4 DEF AtomicsOK, dutVars, Holds
<1>7. ReservationsOK'
  <2>1. dutQ' = dutQ /\ rsv' = rsv /\ uc' = uc /\ kind' = kind /\ MemoryReserves
    BY MemReservations DEF dutVars
  <2>2. MemoryReserves'
    BY <1>1, <1>4, <2>1 DEF MemoryReserves, LastIs, within_error_region, Holds
  <2> QED
    BY <1>2, <2>2, MemReservations
<1>8. CASE Len(wrOp) = 2
  <2>1. /\ r0.chan = "read" /\ r0.id = UcId /\ ReadResponseOK(r0)
        /\ inflightRd[UcId] = AddrOf(UcId) /\ ~Has(rdFifo, UcId) /\ ~Holds(rdOp, UcId)
    BY <1>3, <1>8 DEF AcksOK
  <2>2. rdFifo' = Append(rdFifo, old) /\ wrFifo' = wrFifo
    BY <1>1, <2>1
  <2>3. old.id = UcId /\ ReadResponseOK(old)
    BY <2>1 DEF ReadResponseOK
  <2> HIDE DEF old
  <2>4. Elems(rdFifo') = Elems(rdFifo) \cup {old} /\ Distinct(rdFifo')
    BY <2>1, <2>2, <2>3, Pushed, PushedDistinct DEF MemoryType, ReadsOK
  <2>5. ReadsOK'
    <3>1. rdReq' # None => ReadRequestOK(rdReq)' /\ inflightRd'[rdReq'.id] = None
      BY <1>1, <1>2, <1>4, MemFrame DEF ReadsOK
    <3>2. rdOp' # None =>
             /\ ReadRequestOK(rdOp)' /\ inflightRd'[rdOp'.id] = rdOp'.addr
             /\ ~Has(rdFifo, rdOp.id)'
      BY <1>1, <1>2, <1>4, <2>1, <2>3, <2>4, MemFrame DEF ReadsOK, Has, Holds
    <3>3. \A r \in Elems(rdFifo') : ReadResponseOK(r)' /\ inflightRd'[r.id] = AddrOf(r.id)'
      BY <1>2, <1>4, <2>1, <2>3, <2>4, MemFrame DEF ReadsOK
    <3>4. rdResp' # None =>
             /\ ReadResponseOK(rdResp)' /\ inflightRd'[rdResp'.id] = None
             /\ ~Holds(rdReq, rdResp.id)'
      BY <1>1, <1>2, <1>4, MemFrame DEF ReadsOK, Holds
    <3>5. /\ \A x \in MemIds : inflightRd'[x] # None =>
                IF x = UcId
                THEN uc'.busy /\ uc'.rd = None /\ dutQ'[1].op # "SC" /\ ~UcWrites'
                ELSE x \in miss'
          /\ uc'.rd # None =>
                uc'.rd.error = (dutQ'[1].op = "LR" /\ within_error_region(dutQ[1].addr)')
      BY <1>2, <1>4 DEF ReadsOK, dutVars, within_error_region
    <3> QED
      BY <2>4, <3>1, <3>2, <3>3, <3>4, <3>5 DEF ReadsOK
  <2>6. WritesOK'
    BY <1>1, <1>2, <2>2, WritesFrame
  <2>7. AcksOK'
    <3>1. Len(wrOp') = 1 /\ wrOp'[1] = wrOp[2]
      BY <1>3, <1>8
    <3>2. /\ wrOp[2].chan = "write" /\ WriteResponseOK(wrOp[2])
          /\ inflightWr[wrOp[2].id] = AddrOf(wrOp[2].id) /\ ~Has(wrFifo, wrOp[2].id)
      BY <1>1, <1>8 DEF AcksOK
    <3>3. /\ wrOp'[1].chan = "write" /\ WriteResponseOK(wrOp[1])'
          /\ inflightWr'[wrOp'[1].id] = AddrOf(wrOp[1].id)' /\ ~Has(wrFifo, wrOp[1].id)'
      BY <1>2, <1>4, <2>2, <3>1, <3>2, MemFrame DEF Has, Elems
    <3> QED
      BY <3>1, <3>3 DEF AcksOK
  <2> QED
    BY <1>5, <1>6, <1>7, <2>5, <2>6, <2>7
<1>9. CASE Len(wrOp) = 1
  <2>1. /\ r0.chan = "write" /\ WriteResponseOK(r0)
        /\ inflightWr[r0.id] = AddrOf(r0.id) /\ ~Has(wrFifo, r0.id)
    BY <1>1, <1>3, <1>9 DEF AcksOK
  <2>2. wrFifo' = Append(wrFifo, ack) /\ rdFifo' = rdFifo
    BY <1>1, <2>1
  <2>3. ack.id = r0.id /\ WriteResponseOK(ack)
    BY <2>1 DEF WriteResponseOK
  <2> HIDE DEF ack
  <2>4. Elems(wrFifo') = Elems(wrFifo) \cup {ack} /\ Distinct(wrFifo')
    BY <2>1, <2>2, <2>3, Pushed, PushedDistinct DEF MemoryType, WritesOK
  <2>5. ReadsOK'
    BY <1>1, <1>2, <1>4, <2>2, ReadsFrame
  <2>6. WritesOK'
    <3>1. UNCHANGED <<Elems(waFifo), Distinct(waFifo)>>
      BY <1>1 DEF Elems, Distinct
    <3>2. waReq' # None =>
             /\ WriteRequestOK(waReq)' /\ inflightWr'[waReq'.id] = None
             /\ ~Has(waFifo, waReq.id)' /\ ~Holds(wrResp, waReq.id)'
      BY <1>1, <1>2, <1>4, <3>1, MemFrame DEF WritesOK, Has, Holds
    <3>3. /\ \A r \in Elems(waFifo)' :
                WriteRequestOK(r)' /\ inflightWr'[r.id] = None /\ ~Holds(wrResp, r.id)'
          /\ wrResp' # None => WriteResponseOK(wrResp)' /\ inflightWr'[wrResp'.id] = None
      BY <1>1, <1>2, <1>4, <3>1, MemFrame DEF WritesOK, Holds
    <3>4. \A r \in Elems(wrFifo') :
             WriteResponseOK(r)' /\ inflightWr'[r.id] = AddrOf(r.id)'
      BY <1>2, <1>4, <2>1, <2>3, <2>4, MemFrame DEF WritesOK
    <3>5. /\ \A x \in MemIds : inflightWr'[x] # None =>
                IF x = UcId THEN uc'.busy /\ uc'.wr = None /\ dutQ'[1].op # "LR"
                ELSE wbuf'[x] # None /\ wbuf'[x].sent
          /\ uc'.wr # None =>
                /\ uc'.wr.error = within_error_region(dutQ[1].addr)'
                /\ dutQ'[1].op = "SC" => uc'.wr.atomic
                /\ ~UcWrites'
      BY <1>2, <1>4 DEF WritesOK, dutVars, within_error_region
    <3> QED
      BY <2>4, <3>1, <3>2, <3>3, <3>4, <3>5 DEF WritesOK
  <2>7. AcksOK'
    <3>1. Len(wrOp') = 0 /\ wrOp' = <<>>
      <4>1. IsSeq(wrOp')
        BY <1>1, Popped DEF MemoryType
      <4> QED
        BY <1>3, <1>9, <4>1 DEF IsSeq
    <3> QED
      BY <3>1 DEF AcksOK
  <2> QED
    BY <1>5, <1>6, <1>7, <2>5, <2>6, <2>7
<1> QED
  BY <1>3, <1>8, <1>9

\* A write leaves its FIFO and the scoreboard waits for its response.
LEMMA WriteTaken ==
    ASSUME TbBase, InOrder, write_process, UNCHANGED <<kind, dutVars>>, ~overrun'
    PROVE  LET h == Head(waFifo) IN
           /\ h.id \in MemIds /\ h \in Elems(waFifo) /\ WriteRequestOK(h)
           /\ h.addr = AddrOf(h.id) /\ AddrOf(h.id) # None
           /\ inflightWr[h.id] = None
           /\ UcWrites' => UcWrites
           /\ h.id = UcId => UcWrites /\ ~UcWrites'
           /\ h.id # UcId => (UcWrites' <=> UcWrites)
           /\ ~Has(wrFifo, h.id)
           /\ inflightWr' = [inflightWr EXCEPT ![h.id] = h.addr]
           /\ WritesOK'
<1> USE DEF TbBase, TbTypeOK, InOrder
<1> DEFINE h == Head(waFifo)
<1>1. /\ waFifo # <<>> /\ waFifo' = Tail(waFifo)
      /\ mem_write_req_process(h)
      /\ UNCHANGED <<waReq, wrFifo, wrResp>>
  BY ChannelsKept DEF write_process
<1>2. /\ h \in Elems(waFifo) /\ Elems(waFifo) = Elems(waFifo') \cup {h}
      /\ Distinct(waFifo') /\ ~Has(waFifo', h.id)
  BY <1>1, Popped, PoppedDistinct, WriteIds DEF WritesOK
<1> HIDE DEF h
<1>3. /\ WriteRequestOK(h) /\ inflightWr[h.id] = None /\ ~Holds(wrResp, h.id)
      /\ h.id \in MemIds /\ h.addr = AddrOf(h.id) /\ AddrOf(h.id) # None
  BY <1>2, AddrIsKnown, WriteIds DEF WritesOK
<1>4. inflightWr' = [inflightWr EXCEPT ![h.id] = h.addr]
  BY <1>1, <1>3 DEF mem_write_req_process
<1>5. \A x \in MemIds : inflightWr'[x] = IF x = h.id THEN AddrOf(h.id) ELSE inflightWr[x]
  BY <1>3, <1>4 DEF BoardType
<1>6. waReq # None => waReq.id # h.id /\ waReq.id \in MemIds /\ ~Has(waFifo', waReq.id)
  BY <1>2, WriteIds DEF WritesOK, Has
<1>7. /\ UcWrites' => UcWrites
      /\ h.id = UcId => UcWrites /\ ~UcWrites'
      /\ h.id # UcId => (UcWrites' <=> UcWrites)
  BY <1>1, <1>2, <1>6 DEF UcWrites, Holds, Has
<1>8. \A r \in Elems(wrFifo) : r.id # h.id /\ r.id \in MemIds
  BY <1>3, AddrIsKnown DEF WritesOK
<1>9. UNCHANGED <<Elems(wrFifo), Distinct(wrFifo)>>
  BY <1>1 DEF Elems, Distinct
<1>10. waReq' # None =>
         /\ WriteRequestOK(waReq)' /\ inflightWr'[waReq'.id] = None
         /\ ~Has(waFifo, waReq.id)' /\ ~Holds(wrResp, waReq.id)'
  BY <1>1, <1>5, <1>6, <1>7, MemFrame DEF WritesOK, Has, Holds
<1>11. \A r \in Elems(waFifo)' :
         WriteRequestOK(r)' /\ inflightWr'[r.id] = None /\ ~Holds(wrResp, r.id)'
  <2>1. \A r \in Elems(waFifo') : r.id # h.id /\ r.id \in MemIds
    BY <1>2, WriteIds DEF Has
  <2> QED
    BY <1>1, <1>2, <1>5, <1>7, <2>1, MemFrame DEF WritesOK, Holds
<1>12. /\ \A r \in Elems(wrFifo)' :
             WriteResponseOK(r)' /\ inflightWr'[r.id] = AddrOf(r.id)'
       /\ wrResp' # None => WriteResponseOK(wrResp)' /\ inflightWr'[wrResp'.id] = None
  <2>1. wrResp # None => wrResp.id # h.id /\ wrResp.id \in MemIds
    BY <1>3, AddrIsKnown DEF WritesOK, Holds
  <2> QED
    BY <1>1, <1>5, <1>7, <1>8, <1>9, <2>1, MemFrame DEF WritesOK
<1>13. /\ \A x \in MemIds : inflightWr'[x] # None =>
             IF x = UcId THEN uc'.busy /\ uc'.wr = None /\ dutQ'[1].op # "LR"
             ELSE wbuf'[x] # None /\ wbuf'[x].sent
       /\ uc'.wr # None =>
             /\ uc'.wr.error = within_error_region(dutQ[1].addr)'
             /\ dutQ'[1].op = "SC" => uc'.wr.atomic
             /\ ~UcWrites'
  <2>1. IF h.id = UcId THEN uc.busy /\ uc.wr = None /\ dutQ[1].op # "LR"
        ELSE wbuf[h.id] # None /\ wbuf[h.id].sent
    BY <1>3 DEF WriteRequestOK, AmoOps
  <2> QED
    BY <1>5, <1>7, <2>1 DEF WritesOK, dutVars, within_error_region
<1>14. WritesOK'
  BY <1>2, <1>9, <1>10, <1>11, <1>12, <1>13 DEF WritesOK
<1> QED
  BY <1>2, <1>3, <1>4, <1>7, <1>8, <1>14 DEF h, Has

\* A store of the write buffer.
LEMMA PlainWriteStep ==
    ASSUME TbBase, InOrder, write_process, UNCHANGED <<kind, dutVars>>, ~overrun',
           Head(waFifo).id # UcId
    PROVE  InOrder'
<1> USE DEF TbBase, TbTypeOK, InOrder
<1> DEFINE h == Head(waFifo)
           ack == [chan |-> "write", id |-> h.id, error |-> within_error_region(h.addr),
                   atomic |-> FALSE]
<1>1. /\ h.id \in MemIds /\ h.id # UcId /\ WriteRequestOK(h) /\ h.addr = AddrOf(h.id)
      /\ UcWrites' <=> UcWrites
      /\ ~Has(wrFifo, h.id) /\ WritesOK'
      /\ inflightWr' = [inflightWr EXCEPT ![h.id] = h.addr]
  BY WriteTaken
<1>2. h.cmd = "WRITE" /\ wbuf[h.id] # None /\ wbuf[h.id].sent
  BY <1>1 DEF WriteRequestOK
<1>3. ~MemIsAmo(h.cmd) /\ h.cmd # "STEX"
  BY <1>2 DEF MemIsAmo, MemAtomics
<1>4. /\ wrOp' = <<ack>> /\ excl' = excl
      /\ UNCHANGED <<rdReq, rdOp, rdFifo, rdResp, wrFifo>>
  BY <1>3 DEF write_process, WriteOperation, WriteResponses
<1>5. UNCHANGED <<inflight, inflightRd, lrsc, amoFifo>>
  BY <1>3 DEF write_process, mem_write_req_process
<1>6. QueueOK' /\ DeviceOK' /\ ReadsOK'
  BY <1>1, <1>4, <1>5, MemUnchanged, ReadsFrame
<1>7. AcksOK'
  <2>1. ack.chan = "write" /\ ack.id = h.id /\ WriteResponseOK(ack)
    BY <1>1, <1>2 DEF WriteResponseOK
  <2>2. Len(wrOp') = 1 /\ wrOp'[1] = ack
    BY <1>4
  <2>3. inflightWr'[h.id] = AddrOf(h.id) /\ ~Has(wrFifo', h.id)
    BY <1>1, <1>4 DEF BoardType, Has, Elems
  <2>4. \A i : AddrOf(i)' = AddrOf(i)
    BY <1>1, MemFrame
  <2>5. WriteResponseOK(wrOp[1])'
    BY <1>1, <2>1, <2>2, MemFrame
  <2> HIDE DEF ack, h
  <2> QED
    BY <2>1, <2>2, <2>3, <2>4, <2>5 DEF AcksOK
<1>8. AtomicsOK'
  BY <1>1, <1>4, <1>5 DEF AtomicsOK, dutVars, Holds
<1>9. ReservationsOK'
  <2>1. dutQ' = dutQ /\ rsv' = rsv /\ uc' = uc /\ kind' = kind /\ MemoryReserves
    BY MemReservations DEF dutVars
  <2>2. MemoryReserves'
    BY <1>1, <1>4, <2>1 DEF MemoryReserves, LastIs, within_error_region, Holds
  <2> QED
    BY <1>5, <2>2, MemReservations
<1> QED
  BY <1>1, <1>6, <1>7, <1>8, <1>9

LEMMA NothingLeft ==
    ASSUME NEW q, IsSeq(q), Len(q) = 0
    PROVE  q = <<>>
BY DEF IsSeq

\* The scoreboard waits for the atomic request that the memory takes.
LEMMA AtomicIsAwaited ==
    ASSUME TbBase, InOrder, uc.busy, UcWrites, dutQ[1].op \in AmoOps \cup {"SC"}
    PROVE  /\ amoFifo # <<>> /\ Len(amoFifo) = 1 /\ Tail(amoFifo) = <<>>
           /\ dutQ[1].op = "SC" =>
                 /\ rsv = dutQ[1].addr /\ excl[UcId] = dutQ[1].addr
                 /\ ~within_error_region(dutQ[1].addr)
<1> USE DEF TbBase, TbTypeOK, InOrder
<1>1. Len(dutQ) = 1 /\ dutQ[1].addr # None /\ IsRmw(dutQ[1].op)
  BY BusyFacts
<1>2. dutQ[1].op = "SC" =>
         /\ rsv = dutQ[1].addr /\ excl[UcId] = dutQ[1].addr
         /\ ~within_error_region(dutQ[1].addr) /\ inflight[dutQ[1].tid].atomic
  <2> SUFFICES ASSUME dutQ[1].op = "SC"
               PROVE  /\ rsv = dutQ[1].addr /\ excl[UcId] = dutQ[1].addr
                      /\ ~within_error_region(dutQ[1].addr)
                      /\ inflight[dutQ[1].tid].atomic
    OBVIOUS
  <2>1. \A a : ~Killed(a)
    BY <1>1 DEF Killed, AmoOps
  <2> QED
    BY <1>1, <2>1 DEF ReservationsOK
<1>3. amoFifo # <<>> /\ Len(amoFifo) = 1
  BY <1>1, <1>2 DEF AtomicsOK
<1>4. Tail(amoFifo) = <<>>
  <2>1. IsSeq(amoFifo)
    BY DEF BoardType
  <2>2. IsSeq(Tail(amoFifo)) /\ Len(Tail(amoFifo)) = 0
    BY <1>3, <2>1, Popped
  <2> QED
    BY <2>2, NothingLeft
<1> QED
  BY <1>2, <1>3, <1>4

LEMMA AtomicWriteStep ==
    ASSUME TbBase, InOrder, write_process, UNCHANGED <<kind, dutVars>>, ~overrun',
           Head(waFifo).id = UcId
    PROVE  InOrder'
<1> USE DEF TbBase, TbTypeOK, InOrder
<1> DEFINE h == Head(waFifo)
           amo == dutQ[1].op \in AmoOps
<1>1. /\ WriteRequestOK(h) /\ h.id = UcId /\ inflightWr[UcId] = None
      /\ UcWrites /\ ~UcWrites' /\ ~Has(wrFifo, UcId) /\ WritesOK'
      /\ inflightWr' = [inflightWr EXCEPT ![UcId] = h.addr]
  BY WriteTaken
<1>2. /\ uc.busy /\ uc.rd = None /\ uc.wr = None /\ h.addr = dutQ[1].addr
      /\ \/ dutQ[1].op = "SC" /\ h.cmd = "STEX"
         \/ dutQ[1].op \in AmoOps /\ h.cmd = MemAtomicOf[dutQ[1].op]
  BY <1>1 DEF WriteRequestOK
<1>3. /\ Len(dutQ) = 1 /\ dutQ[1].op # "LR"
      /\ amo <=> dutQ[1].op # "SC"
      /\ amo <=> MemIsAmo(h.cmd)
      /\ amo <=> h.cmd # "STEX"
  <2>1. ~MemIsAmo("STEX") /\ "SC" \notin AmoOps /\ "LR" \notin AmoOps
    BY DEF MemIsAmo, AmoOps
  <2>2. \A c : MemIsAmo(c) => c # "STEX"
    BY DEF MemIsAmo
  <2> QED
    BY <1>2, <2>1, <2>2, AtomicCommands, BusyFacts
<1>4. /\ amoFifo # <<>> /\ Len(amoFifo) = 1 /\ Tail(amoFifo) = <<>>
      /\ ~amo => /\ rsv = dutQ[1].addr /\ excl[UcId] = dutQ[1].addr
                 /\ ~within_error_region(dutQ[1].addr)
  BY <1>1, <1>2, <1>3, AtomicIsAwaited
<1>5. inflightRd[UcId] = None
  BY <1>1, Identifiers DEF ReadsOK
<1>6. /\ amoFifo' = <<>>
      /\ inflightRd' = IF amo THEN [inflightRd EXCEPT ![UcId] = dutQ[1].addr] ELSE inflightRd
      /\ UNCHANGED <<inflight, lrsc>>
  BY <1>1, <1>2, <1>3, <1>4, <1>5 DEF write_process, mem_write_req_process
<1>7. UNCHANGED <<rdReq, rdOp, rdFifo, rdResp, wrFifo>>
  BY DEF write_process
<1>8. /\ rdReq # None => rdReq.id # UcId /\ rdReq.id \in MemIds
      /\ rdOp # None => rdOp.id # UcId /\ rdOp.id \in MemIds
      /\ \A r \in Elems(rdFifo) : r.id # UcId /\ r.id \in MemIds
      /\ rdResp # None => rdResp.id # UcId /\ rdResp.id \in MemIds
  BY <1>1, <1>3, AddrIsKnown DEF ReadsOK, ReadRequestOK, ReadResponseOK
<1>9. QueueOK' /\ DeviceOK'
  BY <1>6, MemUnchanged
<1>10. \A x \in MemIds : inflightRd'[x] = IF amo /\ x = UcId THEN dutQ[1].addr ELSE inflightRd[x]
  BY <1>6, Identifiers DEF BoardType
<1>11. ReadsOK'
  <2>1. UNCHANGED <<Elems(rdFifo), Distinct(rdFifo)>>
    BY <1>7 DEF Elems, Distinct
  <2>2. /\ rdReq' # None => ReadRequestOK(rdReq)' /\ inflightRd'[rdReq'.id] = None
        /\ rdOp' # None =>
              /\ ReadRequestOK(rdOp)' /\ inflightRd'[rdOp'.id] = rdOp'.addr
              /\ ~Has(rdFifo, rdOp.id)'
    BY <1>1, <1>7, <1>8, <1>10, <2>1, MemFrame DEF ReadsOK, Has
  <2>3. \A r \in Elems(rdFifo)' : ReadResponseOK(r)' /\ inflightRd'[r.id] = AddrOf(r.id)'
    BY <1>1, <1>8, <1>10, <2>1, MemFrame DEF ReadsOK
  <2>4. rdResp' # None =>
           /\ ReadResponseOK(rdResp)' /\ inflightRd'[rdResp'.id] = None
           /\ ~Holds(rdReq, rdResp.id)'
    BY <1>1, <1>7, <1>8, <1>10, MemFrame DEF ReadsOK, Holds
  <2>5. /\ \A x \in MemIds : inflightRd'[x] # None =>
              IF x = UcId
              THEN uc'.busy /\ uc'.rd = None /\ dutQ'[1].op # "SC" /\ ~UcWrites'
              ELSE x \in miss'
        /\ uc'.rd # None =>
              uc'.rd.error = (dutQ'[1].op = "LR" /\ within_error_region(dutQ[1].addr)')
    BY <1>1, <1>2, <1>3, <1>5, <1>10 DEF ReadsOK, dutVars
  <2> QED
    BY <2>1, <2>2, <2>3, <2>4, <2>5 DEF ReadsOK
<1>12. AcksOK'
  <2> DEFINE old == [chan |-> "read", id |-> UcId, error |-> FALSE,
                     data |-> IF within_error_region(h.addr) THEN 0 ELSE readMemory(h.addr)]
             ack == [chan |-> "write", id |-> UcId,
                     error |-> within_error_region(dutQ[1].addr), atomic |-> ~amo]
  <2>1. wrOp' = IF amo THEN <<old, ack>> ELSE <<ack>>
    <3>1. amo => wrOp' = <<old, ack>>
      BY <1>1, <1>2, <1>3 DEF write_process, WriteOperation, WriteResponses
    <3>2. ~amo => wrOp' = <<ack>>
      BY <1>1, <1>2, <1>3, <1>4 DEF write_process, WriteOperation, WriteResponses
    <3> QED
      BY <3>1, <3>2
  <2>2. /\ ack.chan = "write" /\ ack.id = UcId
        /\ old.chan = "read" /\ old.id = UcId /\ old.error = FALSE
    OBVIOUS
  <2>3. dutQ' = dutQ /\ uc' = uc /\ kind' = kind /\ wrFifo' = wrFifo /\ AddrOf(UcId)' = AddrOf(UcId)
    BY <1>7 DEF dutVars, AddrOf
  <2>4. ack.error = within_error_region(dutQ[1].addr) /\ ack.atomic = ~amo
    OBVIOUS
  <2> HIDE DEF old, ack
  <2>5. /\ Len(wrOp') = IF amo THEN 2 ELSE 1
        /\ wrOp'[Len(wrOp')] = ack
        /\ amo => wrOp'[1] = old
    BY <2>1
  <2>6. WriteResponseOK(wrOp[Len(wrOp)])'
    BY <1>1, <1>2, <1>3, <2>2, <2>3, <2>4, <2>5, Identifiers DEF WriteResponseOK, within_error_region
  <2>7. inflightWr'[UcId] = AddrOf(UcId) /\ ~Has(wrFifo, UcId)'
    BY <1>1, <1>2, <2>3, Identifiers DEF BoardType, AddrOf, Has, Elems
  <2>8. amo => ReadResponseOK(wrOp[1])'
    BY <1>1, <1>2, <1>3, <2>2, <2>3, <2>5, Identifiers DEF ReadResponseOK
  <2>9. amo => inflightRd'[UcId] = AddrOf(UcId) /\ ~Has(rdFifo, UcId)' /\ ~Holds(rdOp, UcId)'
    BY <1>7, <1>8, <1>10, Identifiers DEF AddrOf, Has, Holds, Elems
  <2> HIDE DEF h
  <2> QED
    BY <2>2, <2>3, <2>5, <2>6, <2>7, <2>8, <2>9 DEF AcksOK
<1>13. AtomicsOK'
  <2>1. uc'.busy /\ ~Holds(rdReq, UcId)'
    BY <1>2, <1>7, <1>8 DEF dutVars, Holds
  <2> QED
    BY <1>1, <1>6, <2>1 DEF AtomicsOK
<1>14. ReservationsOK'
  <2>1. dutQ' = dutQ /\ rsv' = rsv /\ uc' = uc /\ kind' = kind /\ MemoryReserves
    BY MemReservations DEF dutVars
  <2>2. amo => excl' = excl
    BY <1>3 DEF write_process, WriteOperation
  <2>3. ~LastIs("LR") /\ (~amo => LastIs("SC"))
    BY <1>3 DEF LastIs
  <2>4. LastIs("LR")' <=> LastIs("LR")
    BY <2>1 DEF LastIs
  <2>5. LastIs("SC")' <=> LastIs("SC")
    BY <2>1 DEF LastIs
  <2>6. MemoryReserves'
    BY <1>1, <1>2, <2>1, <2>2, <2>3, <2>4, <2>5 DEF MemoryReserves
  <2> QED
    BY <1>6, <2>6, MemReservations
<1> QED
  BY <1>1, <1>9, <1>11, <1>12, <1>13, <1>14

-----------------------------------------------------------------------------
(* The device accepts a request.                                             *)

\* No fence is in the device then: no atomic request is sent or awaited.
LEMMA ReadyFacts ==
    ASSUME TbBase, InOrder, DutReady
    PROVE  ~uc.busy /\ amoFifo = <<>> /\ ~LastIs("LR") /\ ~LastIs("SC")
<1> USE DEF TbBase, TbTypeOK, InOrder
<1>1. Len(dutQ) \in Nat /\ \A i \in 1 .. Len(dutQ) : ~IsFence(dutQ[i].op)
  BY DEF DutReady, DeviceType
<1>2. \A i \in 1 .. Len(dutQ) : ~IsRmw(dutQ[i].op)
  BY <1>1 DEF IsFence
<1>3. ~uc.busy
  BY <1>2 DEF DeviceOK
<1>4. Len(dutQ) > 0 => Len(dutQ) \in 1 .. Len(dutQ) /\ ~IsRmw(dutQ[Len(dutQ)].op)
  BY <1>1, <1>2
<1>5. amoFifo = <<>>
  BY <1>4 DEF AtomicsOK
<1>6. ~LastIs("LR") /\ ~LastIs("SC")
  BY <1>4 DEF LastIs, IsRmw
<1> QED
  BY <1>3, <1>5, <1>6

\* What the scoreboard does with an accepted request.
LEMMA AcceptedEffect ==
    ASSUME TbBase, InOrder, drive_request
    PROVE  LET t == drv.t
               e == EntryOf(t)
           IN  /\ t \in Drawn /\ t.tid \notin DOMAIN inflight
               /\ ~phantom' => ~FindsPhantom(t)
               /\ lrsc' = ReservationAfter(t, e)
               /\ amoFifo' = IF ForwardedToMem(t, e) THEN <<e>> ELSE <<>>
               /\ t.needRsp => t.tid \in DOMAIN inflight' /\ inflight'[t.tid] = e
               /\ \A x \in DOMAIN inflight : x \in DOMAIN inflight' /\ inflight'[x] = inflight[x]
               /\ UNCHANGED <<inflightRd, inflightWr>>
<1> USE DEF TbBase, TbTypeOK, InOrder
<1> DEFINE t == drv.t
           e == EntryOf(t)
           mute == t.op \in CmoOps /\ ~t.needRsp
<1>1. t \in Drawn /\ t.tid \notin DOMAIN inflight /\ core_req_process(t) /\ DutReady
  <2>1. t \in Drawn /\ core_req_process(t) /\ DutReady
    BY DEF drive_request, ChanOK
  <2>2. Waiting = {t.tid}
    BY DEF drive_request, Waiting
  <2> QED
    BY <2>1, <2>2 DEF IdsOK
<1>2. amoFifo = <<>> /\ ~(Len(amoFifo) >= AmoFifo)
  BY <1>1, ReadyFacts, SbAssumption
<1>3. mute => ~ForwardedToMem(t, e) /\ ReservationAfter(t, e) = lrsc
  BY DEF ForwardedToMem, ReservationAfter, CmoOps, AmoOps
<1> HIDE DEF t, e
<1>4. /\ lrsc' = IF mute THEN lrsc ELSE ReservationAfter(t, e)
      /\ amoFifo' = IF ~mute /\ ForwardedToMem(t, e) THEN Append(amoFifo, e) ELSE amoFifo
      /\ ~phantom' => ~FindsPhantom(t)
  BY <1>1, <1>2 DEF core_req_process, e
<1>5. Append(amoFifo, e) = <<e>>
  BY <1>2
<1>6. /\ t.needRsp => t.tid \in DOMAIN inflight' /\ inflight'[t.tid] = e
      /\ \A x \in DOMAIN inflight : x \in DOMAIN inflight' /\ inflight'[x] = inflight[x]
      /\ UNCHANGED <<inflightRd, inflightWr>>
  BY <1>1, <1>2, RequestEffect DEF e
<1> QED
  BY <1>1, <1>2, <1>3, <1>4, <1>5, <1>6 DEF t, e

LEMMA EntryFacts ==
    ASSUME NEW t, t \in Drawn, ~FindsPhantom(t)
    PROVE  LET e == EntryOf(t) IN
           /\ e.op = t.op /\ e.addr = t.addr /\ e.data = t.data
           /\ t.op = "LR" => e.error = within_error_region(t.addr)
           /\ e.atomic <=> t.op = "SC" /\ lrsc = t.addr
<1>1. EntryOf(t).op = t.op /\ EntryOf(t).addr = t.addr /\ EntryOf(t).data = t.data
  BY DEF EntryOf
<1>2. t.op = "LR" => EntryOf(t).error = within_error_region(t.addr)
  BY DEF EntryOf, CmoOps, within_error_region
<1>3. EntryOf(t).atomic <=> t.op = "SC" /\ lrsc = t.addr
  BY DEF EntryOf, AddrMatch, FindsPhantom
<1> QED
  BY <1>1, <1>2, <1>3

LEMMA DriveStep ==
    ASSUME TbBase, InOrder, drive_request, ~phantom'
    PROVE  InOrder'
<1> USE DEF TbBase, TbTypeOK, InOrder
<1> DEFINE t == drv.t
           e == EntryOf(t)
           n == Len(dutQ)
<1>1. /\ DutReady /\ dutQ' = Append(dutQ, t)
      /\ UNCHANGED <<kind, memVars, cache, miss, wbuf, rsv, uc>>
  BY DEF drive_request
<1>2. ~uc.busy /\ amoFifo = <<>> /\ ~LastIs("LR") /\ ~LastIs("SC")
  BY <1>1, ReadyFacts
<1>3. /\ t \in Drawn /\ t.tid \notin DOMAIN inflight /\ ~FindsPhantom(t)
      /\ lrsc' = ReservationAfter(t, e)
      /\ amoFifo' = IF ForwardedToMem(t, e) THEN <<e>> ELSE <<>>
      /\ t.needRsp => t.tid \in DOMAIN inflight' /\ inflight'[t.tid] = e
      /\ \A x \in DOMAIN inflight : x \in DOMAIN inflight' /\ inflight'[x] = inflight[x]
      /\ UNCHANGED <<inflightRd, inflightWr>>
  BY AcceptedEffect
<1>4. /\ e.op = t.op /\ e.addr = t.addr /\ e.data = t.data
      /\ t.op = "LR" => e.error = within_error_region(t.addr)
      /\ e.atomic <=> t.op = "SC" /\ lrsc = t.addr
  BY <1>3, EntryFacts
<1>5. t.addr \in Addr /\ t.addr # None /\ (IsRmw(t.op) => t.needRsp)
  BY <1>3, Identifiers DEF Drawn, Request
<1>6. \A i \in 1 .. n : ~IsFence(dutQ[i].op)
  BY <1>1 DEF DutReady, DeviceType
<1> HIDE DEF t, e, n
<1>7. /\ n \in Nat /\ Len(dutQ') = n + 1 /\ dutQ'[n + 1] = t
      /\ \A i \in 1 .. n : dutQ'[i] = dutQ[i] /\ i \in 1 .. n + 1
      /\ \A i \in 1 .. n + 1 : i # n + 1 => i \in 1 .. n
  BY <1>1 DEF DeviceType, n
<1>8. QueueOK'
  <2>1. \A i \in 1 .. Len(dutQ') - 1 : ~IsFence(dutQ'[i].op)
    BY <1>6, <1>7
  <2>2. ASSUME NEW i \in 1 .. Len(dutQ'), dutQ'[i].needRsp
        PROVE  /\ dutQ'[i].tid \in DOMAIN inflight'
               /\ inflight'[dutQ'[i].tid].op = dutQ'[i].op
               /\ inflight'[dutQ'[i].tid].addr = dutQ'[i].addr
               /\ inflight'[dutQ'[i].tid].data = dutQ'[i].data
    <3>1. CASE i = n + 1
      BY <1>3, <1>4, <1>7, <2>2, <3>1
    <3>2. CASE i \in 1 .. n
      BY <1>3, <1>7, <2>2, <3>2 DEF QueueOK, n
    <3> QED
      BY <1>7, <3>1, <3>2
  <2>3. ASSUME NEW i \in 1 .. Len(dutQ'), NEW j \in 1 .. Len(dutQ'),
               dutQ'[i].needRsp, dutQ'[j].needRsp, dutQ'[i].tid = dutQ'[j].tid
        PROVE  i = j
    <3>1. \A k \in 1 .. n : dutQ'[k].needRsp => dutQ'[k].tid \in DOMAIN inflight
      BY <1>7 DEF QueueOK, n
    <3>2. CASE i \in 1 .. n /\ j \in 1 .. n
      BY <1>7, <2>3, <3>2 DEF QueueOK, n
    <3>3. CASE i = n + 1 \/ j = n + 1
      BY <1>3, <1>7, <2>3, <3>1, <3>3
    <3> QED
      BY <1>7, <3>2, <3>3
  <2> QED
    BY <2>1, <2>2, <2>3 DEF QueueOK
<1>9. DeviceOK'
  <2>1. ASSUME NEW a \in miss
        PROVE  /\ wbuf[a] = None /\ cache[a] = None
               /\ \E i \in 1 .. Len(dutQ') :
                     /\ dutQ'[i].addr = a /\ dutQ'[i].op \in {"LOAD", "CMO_PREFETCH"}
                     /\ Oldest(i)'
    <3>1. PICK i \in 1 .. n : dutQ[i].addr = a /\ dutQ[i].op \in {"LOAD", "CMO_PREFETCH"}
                              /\ Oldest(i)
      BY DEF DeviceOK, n
    <3>2. \A j \in 1 .. i - 1 : j \in 1 .. n
      BY <1>7
    <3>3. Oldest(i)'
      BY <1>7, <3>1, <3>2 DEF Oldest
    <3> QED
      BY <1>7, <3>1, <3>3 DEF DeviceOK
  <2> QED
    BY <1>1, <1>2, <2>1 DEF DeviceOK
<1>10. ReadsOK' /\ WritesOK' /\ AcksOK'
  BY <1>1, <1>2, <1>3, QuietMemory
<1>11. AtomicsOK'
  <2>1. n + 1 > 0
    BY <1>7
  <2>2. ForwardedToMem(t, e) <=> IsRmw(t.op) /\ (t.op = "SC" => e.atomic)
    BY DEF ForwardedToMem, IsRmw, AmoOps
  <2>3. <<e>> # <<>> /\ Len(<<e>>) = 1 /\ <<e>>[1] = e
    OBVIOUS
  <2>4. IsRmw(t.op) => inflight'[t.tid] = e
    BY <1>3, <1>5
  <2>5. ~uc'.busy
    BY <1>1, <1>2
  <2>6. CASE ForwardedToMem(t, e)
    BY <1>3, <1>7, <2>1, <2>2, <2>3, <2>4, <2>5, <2>6 DEF AtomicsOK
  <2>7. CASE ~ForwardedToMem(t, e)
    BY <1>3, <1>7, <2>2, <2>4, <2>7 DEF AtomicsOK
  <2> QED
    BY <2>6, <2>7
<1>12. ReservationsOK'
  <2> DEFINE left == IF rsv # None /\ ~Killed(rsv) THEN rsv ELSE None
             kills == t.op \in AmoOps \cup {"STORE"}
  <2>1. /\ rsv \in Addr \cup {None} /\ (rsv # None => ~within_error_region(rsv))
        /\ lrsc = left /\ (rsv # None => excl[UcId] = rsv)
    BY <1>2 DEF ReservationsOK, LastIs
  <2>2. \A a : Killed(a)' <=> Killed(a) \/ (kills /\ t.addr = a)
    BY <1>7 DEF Killed, n
  <2>3. \A a : within_error_region(a)' <=> within_error_region(a)
    BY <1>1 DEF within_error_region
  <2>4. LET left1 == IF rsv' # None /\ ~Killed(rsv)' THEN rsv' ELSE None IN
        /\ kills => left1 = IF left = t.addr THEN None ELSE left
        /\ ~kills => left1 = left
    BY <1>1, <1>5, <2>2
  <2>5. t.op = "LR" => lrsc' = IF within_error_region(t.addr) THEN None ELSE t.addr
    BY <1>3, <1>4 DEF ReservationAfter
  <2>6. t.op = "SC" => lrsc' = None /\ ~kills /\ (e.atomic <=> left = t.addr)
                       /\ inflight'[t.tid] = e
    BY <1>3, <1>4, <1>5, <2>1 DEF ReservationAfter, AmoOps, IsRmw
  <2>7. t.op # "LR" /\ t.op # "SC" =>
           lrsc' = IF kills /\ lrsc = t.addr THEN None ELSE lrsc
    BY <1>3, <1>5 DEF ReservationAfter, AddrMatch, BoardType
  <2>8. ~uc'.busy /\ n + 1 > 0 /\ rsv' = rsv /\ excl' = excl
    BY <1>1, <1>2, <1>7 DEF memVars
  <2> HIDE DEF left, kills
  <2> QED
    <3> DEFINE m == Len(dutQ')
               left1 == IF rsv' # None /\ ~Killed(rsv)' THEN rsv' ELSE None
    <3>1. m > 0 /\ dutQ'[m] = t
      BY <1>7, <2>8
    <3>2. rsv' \in Addr \cup {None} /\ (rsv' # None => ~within_error_region(rsv)')
      BY <2>1, <2>8, <1>1 DEF within_error_region
    <3>3. dutQ'[m].op = "LR" => lrsc' = IF within_error_region(dutQ[Len(dutQ)].addr)'
                                        THEN None ELSE dutQ'[m].addr
      BY <1>1, <2>5, <3>1 DEF within_error_region
    <3>4. dutQ'[m].op = "SC" => /\ lrsc' = None
                                /\ inflight'[dutQ'[m].tid].atomic <=> left1 = dutQ'[m].addr
      BY <2>4, <2>6, <3>1
    <3>5. dutQ'[m].op # "LR" /\ dutQ'[m].op # "SC" => lrsc' = left1
      BY <2>1, <2>4, <2>7, <3>1
    <3>6. rsv' # None => excl'[UcId] = rsv'
      BY <2>1, <2>8
    <3> QED
      BY <2>8, <3>1, <3>2, <3>3, <3>4, <3>5, <3>6 DEF ReservationsOK
<1> QED
  BY <1>8, <1>9, <1>10, <1>11, <1>12

-----------------------------------------------------------------------------
(* Every identifier is accounted for.                                        *)

LEMMA OrderStep ==
    ASSUME TbBase, InOrder, Next, bug' = None, Sound'
    PROVE  InOrder'
<1> USE DEF Sound
<1>1. CASE Simulate \/ SeqStep \/ DriverTake \/ CheckInflight \/ DriverFinish
  <2>1. UNCHANGED <<kind, dutVars, memVars, inflight, inflightRd, inflightWr, lrsc, amoFifo>>
    <3>1. CASE Simulate
      BY <3>1 DEF Simulate, sbVars
    <3>2. CASE SeqStep
      BY <3>2, SequenceSteps DEF SeqStep, sbVars, TbBase, TbTypeOK
    <3>3. CASE DriverTake
      BY <3>3 DEF DriverTake, sbVars
    <3>4. CASE CheckInflight
      BY <3>4 DEF CheckInflight, check_inflight_requests, seqVars
    <3>5. CASE DriverFinish
      BY <3>5 DEF DriverFinish, sbVars, seqVars
    <3> QED
      BY <1>1, <3>1, <3>2, <3>3, <3>4, <3>5
  <2> QED
    BY <2>1, OrderFrame DEF memVars
<1>2. CASE MemStep
  <2>1. UNCHANGED <<kind, dutVars>>
    BY <1>2 DEF MemStep
  <2>2. CASE read_process \/ readOperation \/ read_response_process
    BY <2>1, <2>2, ReadProcessStep, ReadOperationStep, ReadResponseStep
  <2>3. CASE write_address_process \/ WritePush \/ write_response_process
    BY <2>1, <2>3, WriteAddressStep, WritePushStep, WriteResponseStep
  <2>4. CASE write_data_process
    BY <2>1, <2>4, OrderFrame DEF write_data_process, sbVars
  <2>5. CASE write_process
    BY <2>1, <2>5, PlainWriteStep, AtomicWriteStep
  <2> QED
    BY <1>2, <2>2, <2>3, <2>4, <2>5 DEF MemStep
<1>3. CASE DutStep
  <2>1. UNCHANGED kind
    BY <1>3 DEF DutStep
  <2>2. CASE DutHit \/ DutMiss \/ DutRefill \/ DutStore
    BY <2>1, <2>2, HitStep, MissStep, RefillStep, StoreStep
  <2>3. CASE DutDrain \/ DutWriteAck \/ DutUcRead \/ DutUcSend
    BY <2>1, <2>3, DrainStep, WriteAckStep, UcReadStep, UcSendStep
  <2>4. CASE DutScFail \/ DutUcDone \/ DutCmo
    BY <2>1, <2>4, ScFailStep, UcDoneStep, CmoStep
  <2> QED
    BY <1>3, <2>2, <2>3, <2>4 DEF DutStep
<1>4. CASE drive_request
  BY <1>4, DriveStep
<1> QED
  BY <1>1, <1>2, <1>3, <1>4 DEF Next

\* Once the testbench has gone wrong it stays so.
LEMMA PhantomStays ==
    ASSUME Next, ~phantom'
    PROVE  ~phantom
<1>1. CASE Simulate \/ SeqStep \/ DriverTake \/ CheckInflight \/ DriverFinish
  BY <1>1 DEF Simulate, SeqStep, DriverTake, CheckInflight, DriverFinish, sbVars,
              check_inflight_requests
<1>2. CASE drive_request
  BY <1>2 DEF drive_request, core_req_process
<1>3. CASE DutStep
  BY <1>3, DeviceSteps, AnswerEffect DEF sbVars
<1>4. CASE MemStep
  BY <1>4, MemorySteps
<1> QED
  BY <1>1, <1>2, <1>3, <1>4 DEF Next

LEMMA SoundSoFar ==
    ASSUME DeviceType, Next, Sound'
    PROVE  Sound
BY OverrunStays, PhantomStays DEF Sound

LEMMA RightInit ==
    ASSUME Init
    PROVE  TbInv
<1> USE DEF Init, ScoreboardInit, MemInit, SequenceInit
<1>1. Len(dutQ) = 0 /\ ~uc.busy /\ uc.rd = None /\ uc.wr = None /\ lrsc = None
  BY DEF UcIdle
<1>2. Elems(<<>>) = {} /\ Distinct(<<>>)
  BY DEF Elems, Distinct
<1>3. IdsExact
  BY DEF IdsExact, Waiting
<1>4. QueueOK /\ DeviceOK
  BY <1>1 DEF QueueOK, DeviceOK
<1>5. ReadsOK /\ WritesOK
  BY <1>1, <1>2 DEF ReadsOK, WritesOK
<1>6. AcksOK /\ AtomicsOK /\ ReservationsOK
  BY <1>1 DEF AcksOK, AtomicsOK, ReservationsOK
<1>7. TbAlways
  BY BaseInit
<1> QED
  BY <1>3, <1>4, <1>5, <1>6, <1>7 DEF TbInv, TbAlways, RightSoFar

LEMMA RightStep == TbInv /\ [Next]_vars => TbInv'
<1> SUFFICES ASSUME TbInv, [Next]_vars
             PROVE  TbInv'
  OBVIOUS
<1>1. TbAlways /\ TbAlways'
  BY BaseStep DEF TbInv, TbAlways
<1>2. CASE Next
  <2>1. ASSUME bug' = None, Sound'
        PROVE  RightSoFar'
    <3>0. Sound /\ TbBase
      BY <1>1, <1>2, <2>1, SoundSoFar DEF TbAlways, TbTypeOK, TbBase, Sound
    <3>1. InOrder /\ IdsExact
      BY <1>2, <2>1, <3>0, BugStays DEF TbInv, RightSoFar, InOrder
    <3>2. InOrder'
      BY <1>2, <2>1, <3>0, <3>1, OrderStep
    <3>3. drive_request => amoFifo = <<>>
      BY <3>0, <3>1, ReadyFacts DEF drive_request
    <3>4. IdsExact'
      BY <1>2, <3>0, <3>1, <3>3, IdsStep DEF TbBase, TbTypeOK
    <3> QED
      BY <3>2, <3>4 DEF RightSoFar, InOrder
  <2> QED
    BY <1>1, <2>1 DEF TbInv, TbAlways
<1>3. CASE UNCHANGED vars
  <2>1. UNCHANGED <<kind, bug, ids, chan, drv, overrun, phantom>>
    BY <1>3 DEF vars, seqVars, sbVars, memVars, dutVars
  <2>2. InOrder => InOrder'
    BY <1>3, OrderFrame DEF vars, seqVars, sbVars, memVars
  <2>3. IdsExact => IdsExact'
    BY <1>3, <2>1 DEF IdsExact, Waiting, vars, sbVars
  <2> QED
    BY <1>1, <2>1, <2>2, <2>3 DEF TbInv, TbAlways, RightSoFar, InOrder, Sound
<1> QED
  BY <1>2, <1>3

\* As long as the cache answers rightly, the memory has lost no handshake and
\* no SC has matched the uninitialised reservation, every identifier in use belongs to
\* exactly one transaction, waiting for the driver or in the table of the
\* scoreboard: deallocate_id is called once for each allocate_id, and the
\* probing of allocate_id never finds an identifier that is in use.
THEOREM IdsAreAccounted == Spec => []IdsAccounted
<1>1. Init => TbInv
  BY RightInit
<1>2. TbInv => IdsAccounted
  <2> SUFFICES ASSUME TbInv, bug = None, Sound
               PROVE  LET waiting == {x.tid : x \in {chan[i] : i \in DOMAIN chan} \ {Nullptr}}
                                     \cup (IF drv.st = "drive" THEN {drv.t.tid} ELSE {})
                      IN  waiting = Waiting
    BY DEF TbInv, RightSoFar, IdsExact, IdsOK, IdsAccounted
  <2>1. ChanOK
    BY DEF TbInv
  <2>2. CASE chan = <<>>
    BY <2>1, <2>2 DEF Waiting, ChanOK
  <2>3. CASE chan = <<Nullptr>> /\ drv.st = "idle"
    BY <2>3 DEF Waiting
  <2>4. CASE drv.st = "idle" /\ \E t \in Drawn : chan = <<t>>
    <3>1. PICK t \in Drawn : chan = <<t>>
      BY <2>4
    <3>2. t # Nullptr /\ chan[1] = t /\ DOMAIN chan = {1} /\ chan # <<>>
      BY <3>1, NullptrAssumption DEF Drawn
    <3> QED
      BY <2>4, <3>2 DEF Waiting
  <2> QED
    BY <2>1, <2>2, <2>3, <2>4 DEF ChanOK
<1> QED
  BY <1>1, <1>2, RightStep, PTL DEF Spec

-----------------------------------------------------------------------------
(* No handshake is lost when the FIFOs are deep enough.                      *)

\* Requests with identifiers of their own in S are at most as many as S.
LEMMA AtMost ==
    ASSUME NEW q, IsSeq(q), Distinct(q), NEW S, IsFiniteSet(S),
           \A r \in Elems(q) : r.id \in S
    PROVE  Len(q) <= Cardinality(S)
<1> DEFINE D == 1 .. Len(q)
           f == [k \in D |-> q[k].id]
<1>1. Len(q) \in Nat
  BY DEF IsSeq
<1>2. \A k \in D : q[k].id \in S
  BY DEF Elems
<1>3. f \in Injection(D, S)
  BY <1>2 DEF Injection, IsInjective, Distinct
<1>4. Cardinality(D) <= Cardinality(S)
  BY <1>3, FS_Injection
<1>5. Cardinality(D) = IF 1 > Len(q) THEN 0 ELSE Len(q) - 1 + 1
  BY <1>1, FS_Interval
<1>6. Cardinality(S) \in Nat
  BY FS_CardinalityType
<1> QED
  BY <1>1, <1>4, <1>5, <1>6

\* Writes of the write buffer have an address of their own each, and an atomic
\* write is alone.
LEMMA WritesAreFew ==
    ASSUME TbBase, InOrder, IsFiniteSet(Addr), Cardinality(Addr) <= ReqFifo + 1
    PROVE  LET n == Len(waFifo) + (IF waReq = None THEN 0 ELSE 1)
           IN  /\ n <= ReqFifo + 1 /\ (wrOp # <<>> => n <= ReqFifo)
               /\ n = Len(wdFifo) + (IF wdReq = None THEN 0 ELSE 1)
<1> USE DEF TbBase, TbTypeOK, InOrder
<1> DEFINE one == IF waReq = None THEN 0 ELSE 1
           n == Len(waFifo) + one
           ack == wrOp[Len(wrOp)]
           S == IF wrOp = <<>> THEN Addr ELSE Addr \ {ack.id}
           T == IF waReq = None THEN S ELSE S \ {waReq.id}
<1>0. n = Len(wdFifo) + (IF wdReq = None THEN 0 ELSE 1)
  BY DEF Paired
<1>1. IsSeq(waFifo) /\ Len(waFifo) \in Nat /\ Cardinality(Addr) \in Nat /\ ReqFifo \in Nat \ {0}
  BY SeqIsSeq, FS_CardinalityType, MemAssumption DEF MemoryType
<1>2. Distinct(waFifo)
  BY DEF WritesOK
<1>3. wrOp # <<>> => WriteResponseOK(ack) /\ inflightWr[ack.id] # None
  <2>1. wrOp # <<>> => WriteResponseOK(ack) /\ inflightWr[ack.id] = AddrOf(ack.id)
    BY DEF AcksOK
  <2> QED
    BY <2>1, AddrIsKnown
<1>4. /\ \A r \in Elems(waFifo) : WriteRequestOK(r) /\ inflightWr[r.id] = None /\ r.id \in MemIds
      /\ waReq # None => /\ WriteRequestOK(waReq) /\ inflightWr[waReq.id] = None
                         /\ waReq.id \in MemIds /\ ~Has(waFifo, waReq.id)
  BY WriteIds DEF WritesOK
<1>5. CASE UcWrites \/ (wrOp # <<>> /\ ack.id = UcId)
  <2>1. uc.busy /\ \A a \in Addr : wbuf[a] = None
    <3>1. uc.busy
      BY <1>3, <1>4, <1>5 DEF UcWrites, Has, Holds, WriteRequestOK, WriteResponseOK
    <3> QED
      BY <3>1 DEF DeviceOK
  <2>2. /\ \A r \in Elems(waFifo) : r.id = UcId
        /\ waReq # None => waReq.id = UcId
    BY <1>4, <2>1 DEF WriteRequestOK, MemIds
  <2>3. wrOp # <<>> => ack.id = UcId /\ ~UcWrites
    BY <1>3, <2>1 DEF WriteResponseOK, MemIds
  <2>4. Len(waFifo) <= Cardinality({UcId})
    BY <1>1, <1>2, <2>2, AtMost, FS_Singleton
  <2>5. Cardinality({UcId}) = 1
    BY FS_Singleton
  <2>6. Elems(waFifo) # {} \/ waReq # None => UcWrites
    BY <2>2 DEF UcWrites, Has, Holds
  <2>7. Len(waFifo) > 0 => waFifo[1] \in Elems(waFifo)
    BY <1>1 DEF Elems
  <2>8. waReq # None => Len(waFifo) = 0
    BY <1>1, <1>4, <2>2, <2>7 DEF Has
  <2>9. n <= 1 /\ (wrOp # <<>> => n = 0)
    BY <1>1, <2>3, <2>4, <2>5, <2>6, <2>7, <2>8
  <2> QED
    BY <1>0, <1>1, <2>9
<1>6. CASE ~UcWrites /\ (wrOp # <<>> => ack.id # UcId)
  <2>1. wrOp # <<>> => ack.id \in Addr
    BY <1>3, <1>6 DEF WriteResponseOK, MemIds
  <2>2. /\ \A r \in Elems(waFifo) : r.id \in Addr
        /\ waReq # None => waReq.id \in Addr
    BY <1>4, <1>6 DEF UcWrites, Has, Holds, MemIds
  <2>3. /\ \A r \in Elems(waFifo) : r.id \in S
        /\ waReq # None => waReq.id \in S
    BY <1>3, <1>4, <2>2
  <2>4. /\ IsFiniteSet(S) /\ Cardinality(S) \in Nat
        /\ Cardinality(S) <= ReqFifo + 1 /\ (wrOp # <<>> => Cardinality(S) <= ReqFifo)
    BY <1>1, <2>1, FS_RemoveElement, FS_CardinalityType
  <2> HIDE DEF S
  <2>5. IsFiniteSet(T) /\ Cardinality(T) = Cardinality(S) - one
    BY <1>1, <2>3, <2>4, FS_RemoveElement, FS_CardinalityType
  <2>6. \A r \in Elems(waFifo) : r.id \in T
    BY <1>4, <2>3 DEF Has
  <2> HIDE DEF T
  <2>7. Len(waFifo) <= Cardinality(T)
    BY <1>1, <1>2, <2>5, <2>6, AtMost
  <2> QED
    BY <1>0, <1>1, <2>4, <2>5, <2>7
<1> QED
  BY <1>5, <1>6

LEMMA KeptStep ==
    ASSUME TbBase, InOrder, Next, ~overrun,
           IsFiniteSet(Addr), Cardinality(Addr) <= ReqFifo + 1
    PROVE  ~overrun'
<1> USE DEF TbBase, TbTypeOK
<1> DEFINE n == Len(waFifo) + (IF waReq = None THEN 0 ELSE 1)
<1>1. /\ n <= ReqFifo + 1 /\ (wrOp # <<>> => n <= ReqFifo)
      /\ n = Len(wdFifo) + (IF wdReq = None THEN 0 ELSE 1)
      /\ Len(waFifo) \in Nat /\ Len(wdFifo) \in Nat /\ ReqFifo \in Nat
  BY WritesAreFew, MemAssumption DEF MemoryType
<1>2. CASE write_address_process
  <2>1. waReq # None /\ waReq \in WriteRequest
    BY <1>2 DEF write_address_process, MemoryType
  <2>2. ~ThreadHolds(waFifo) /\ ~ReadyLingers(waFifo)
    BY <1>1, <2>1 DEF ThreadHolds, ReadyLingers
  <2>3. waFifo' # waFifo
    BY <1>2, <2>2 DEF write_address_process, Taken
  <2> QED
    BY <1>2, <2>3 DEF write_address_process
<1>3. CASE write_data_process
  <2>1. wdReq # None
    BY <1>3 DEF write_data_process
  <2>2. ~ThreadHolds(wdFifo) /\ ~ReadyLingers(wdFifo)
    BY <1>1, <2>1 DEF ThreadHolds, ReadyLingers
  <2>3. wdFifo' # wdFifo
    BY <1>3, <2>2 DEF write_data_process, Taken
  <2> QED
    BY <1>3, <2>3 DEF write_data_process
<1>4. CASE write_process
  <2>1. /\ waReq # None => ~ThreadHolds(waFifo)
        /\ wdReq # None => ~ThreadHolds(wdFifo)
    BY <1>1 DEF ThreadHolds
  <2>2. waReq' = waReq /\ wdReq' = wdReq
    BY <1>4, <2>1 DEF write_process, MakeRoom, Released
  <2> QED
    BY <1>4, <2>2 DEF write_process, MakeRoom
<1>5. CASE Simulate \/ SeqStep \/ DriverTake \/ drive_request \/ CheckInflight \/ DriverFinish
  BY <1>5 DEF Simulate, SeqStep, DriverTake, drive_request, CheckInflight, DriverFinish, memVars
<1>6. CASE DutStep
  BY <1>6, DeviceChannels
<1>7. CASE read_process \/ readOperation \/ read_response_process \/ WritePush
           \/ write_response_process
  BY <1>7 DEF read_process, readOperation, read_response_process, WritePush,
              write_response_process
<1> QED
  BY <1>2, <1>3, <1>4, <1>5, <1>6, <1>7 DEF Next, MemStep

\* The memory loses no request and no data beat of a cache that answers
\* rightly, if the cache has at most one write more outstanding than a request
\* FIFO holds (in the model it has one for each address).
THEOREM HandshakesAreKept ==
    ASSUME IsFiniteSet(Addr), Cardinality(Addr) <= ReqFifo + 1
    PROVE  Spec => [](bug = None /\ ~phantom => NoHandshakeLost)
<1> DEFINE Kept == bug = None /\ ~phantom => ~overrun
<1>1. Init => TbInv /\ Kept
  BY RightInit DEF Init, MemInit
<1>2. TbInv /\ Kept /\ [Next]_vars => TbInv' /\ Kept'
  <2> SUFFICES ASSUME TbInv, Kept, [Next]_vars
               PROVE  TbInv' /\ Kept'
    OBVIOUS
  <2>1. TbInv'
    BY RightStep
  <2>2. CASE UNCHANGED vars
    BY <2>1, <2>2 DEF vars, sbVars, memVars, dutVars
  <2>3. CASE Next
    <3> SUFFICES ASSUME bug' = None, ~phantom'
                 PROVE  ~overrun'
      BY <2>1
    <3>1. bug = None /\ ~phantom
      BY <2>3, BugStays, PhantomStays
    <3>2. TbBase /\ InOrder
      BY <3>1 DEF TbInv, TbBase, RightSoFar, InOrder, Sound
    <3> QED
      BY <2>3, <3>1, <3>2, KeptStep
  <2> QED
    BY <2>2, <2>3
<1>3. Kept => (bug = None /\ ~phantom => NoHandshakeLost)
  BY DEF NoHandshakeLost
<1> HIDE DEF Kept
<1> QED
  BY <1>1, <1>2, <1>3, PTL DEF Spec

=============================================================================
