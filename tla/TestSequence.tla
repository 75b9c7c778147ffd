---------------------------- MODULE TestSequence ----------------------------
(***************************************************************************)
(* The stimulus of the HPDcache testbench: the identifier allocator and    *)
(* the transaction pool (include/hpdcache_test_sequence.h and              *)
(* sc_verif_lib/include/transaction_pool.h), and the run() threads of the  *)
(* sequences of sequence_lib/.  The sequences differ in the operations     *)
(* they draw, in the addresses, and in whether they wait for the reset;    *)
(* the random and unique_set ones follow a LR by some requests and a SC.   *)
(***************************************************************************)
EXTENDS TbTransaction

CONSTANTS Addr,      \* word addresses the tests use
          Tids,      \* request identifiers, 0 .. HPDCACHE_REQ_MAX_TRANS_ID - 1
          Kinds,     \* the sequences set_sequence may build
          Ops,       \* operations of the instance
          SegOf,     \* the memory segment, 0 to 3, of an address
          OneSet,    \* the addresses of the set unique_set draws
          Segment,   \* the addresses of the segment of read and write
          Data,      \* values create_random_data may give
          Starts,    \* values rand() may give in allocate_id
          MaxTrans,  \* max_transactions of the test with each sequence
          Gap,       \* largest lrsc_inbetween_instrs (10 in the code)
          Bundle,    \* trans_bundle_sz (10 in the code)
          None, Nullptr

ASSUME SeqAssumption ==
    /\ IsFiniteSet(Tids) /\ Tids # {} /\ Tids = 0 .. Cardinality(Tids) - 1
    /\ Kinds \subseteq {"random", "unique_set", "read", "write", "from_trace"}
    /\ Ops \subseteq ReqOps /\ SegOf \in [Addr -> 0 .. 3] /\ OneSet \subseteq Addr /\ Segment \subseteq Addr
    /\ Data \subseteq Val /\ Starts \subseteq Tids /\ Data # {} /\ Starts # {}
    /\ MaxTrans \in [Kinds -> Nat] /\ Gap \in Nat /\ Bundle \in Nat \ {0}

VARIABLES
    kind,        \* the sequence that runs
    rstN,        \* the reset signal
    pc,          \* "start", "next", "ret" (waits for the driver) or "done"
    nTrans,      \* n of the run() loop
    gap,         \* lrsc_inbetween_instrs, drawn once per run
    lr,          \* the LR to follow by a SC: its address and requests left
    ids,         \* ids: the identifiers in use
    pool,        \* free transaction objects of the pool
    allocated,   \* nb_allocated of the pool
    chan         \* transaction_fifo: what the driver has still to take

seqVars == <<kind, rstN, pc, nTrans, gap, lr, ids, pool, allocated, chan>>

Request == [op : ReqOps, addr : Addr, data : Data \cup {0}, tid : Tids, needRsp : BOOLEAN]

ASSUME NullptrAssumption == Nullptr \notin Request

\* set_sequence chooses the sequence; rst_ni is low until simulate() drives it.
SequenceInit ==
    /\ kind \in Kinds /\ gap \in 0 .. Gap
    /\ rstN = FALSE /\ pc = "start" /\ nTrans = 0 /\ lr = None
    /\ ids = {} /\ pool = 0 /\ allocated = 0 /\ chan = <<>>

is_available_id == Cardinality(ids) < Cardinality(Tids)

\* Mutant: the identifier drawn is used without probing.
allocate_idDrawn(start) == start % Cardinality(Tids)

\* The free identifier that the probing from a random start finds.
allocate_id(start) ==
    LET N     == Cardinality(Tids)
        steps == CHOOSE k \in 0 .. N - 1 :
                     /\ (start + k) % N \notin ids
                     /\ \A j \in 0 .. k - 1 : (start + j) % N \in ids
    IN  (start + steps) % N

\* Freeing an identifier that is not in use prints a message and does nothing.
deallocate_id(freed) == ids' = ids \ freed

\* A new bundle of objects is built when the pool is empty.
acquire_transaction ==
    IF pool = 0 THEN /\ pool' = Bundle - 1 /\ allocated' = allocated + Bundle
                ELSE /\ pool' = pool - 1 /\ UNCHANGED allocated

release_transaction == pool' = pool + 1 /\ UNCHANGED allocated

(***************************************************************************)
(* The distributions that the constructors of the sequences set up: the    *)
(* operations with a weight, for a segment without and with atomics.  The  *)
(* invalidations without flush have none.  The constructor of unique_set   *)
(* sets segment 3 twice, so segment 2 has no atomics.                      *)
(***************************************************************************)
op_distribution ==
    {"LOAD", "STORE"} \cup (CmoOps \ {"CMO_INVAL_NLINE", "CMO_INVAL_ALL"})

op_amo_distribution == op_distribution \cup AmoOps \cup {"LR", "SC"}

random_segments == [s \in 0 .. 3 |-> op_amo_distribution]

unique_set_segments ==
    [s \in 0 .. 3 |-> IF s = 2 THEN op_distribution ELSE op_amo_distribution]

\* create_random_transaction: an atomic operation asks for a response, the
\* others may; a load carries no data that matters.
create_random_transaction(segs, addrs, tid) ==
    {t \in [op : Ops, addr : addrs, data : Data \cup {0}, tid : {tid}, needRsp : BOOLEAN] :
        /\ t.op \in segs[SegOf[t.addr]]
        /\ IsRmw(t.op) => t.needRsp
        /\ t.data \in IF t.op \in {"LOAD", "LR"} \cup CmoOps THEN {0} ELSE Data}

random_seq == [tid \in Tids |-> create_random_transaction(random_segments, Addr, tid)]
unique_set == [tid \in Tids |-> create_random_transaction(unique_set_segments, OneSet, tid)]

\* The other sequences only load or store, read and write with a response.
Plain(op, addrs, data, rsp, tid) ==
    [op : {op}, addr : addrs, data : data, tid : {tid}, needRsp : {rsp}]

read_seq   == [tid \in Tids |-> Plain("LOAD", Segment, {0}, TRUE, tid)]
write_seq  == [tid \in Tids |-> Plain("STORE", Segment, Data, TRUE, tid)]
from_trace == [tid \in Tids |-> Plain("LOAD", Addr, {0}, TRUE, tid)
                                    \cup Plain("STORE", Addr, Data, FALSE, tid)]

create_sc_transaction(a, d, tid) ==
    [op |-> "SC", addr |-> a, data |-> d, tid |-> tid, needRsp |-> TRUE]

\* send_transaction: write the FIFO, then block on the driver's answer.
send_transaction(t) ==
    /\ chan' = <<t>> /\ pc' = "ret" /\ ids' = ids \cup {t.tid}
    /\ acquire_transaction

\* The threads wait for the end of the reset, except the trace sequence;
\* the signal is high before the reset pulse too.
RunStart ==
    /\ pc = "start" /\ (rstN \/ kind = "from_trace")
    /\ pc' = "next"
    /\ UNCHANGED <<kind, rstN, nTrans, gap, lr, ids, pool, allocated, chan>>

\* One iteration of run() of the sequences that send independent requests.
RunPlain(draws) ==
    /\ pc = "next" /\ nTrans < MaxTrans[kind] /\ is_available_id
    /\ \E start \in Starts : \E t \in draws[allocate_id(start)] : send_transaction(t)
    /\ nTrans' = nTrans + 1
    /\ UNCHANGED <<kind, rstN, gap, lr>>

RunRead  == kind = "read" /\ RunPlain(read_seq)
RunWrite == kind = "write" /\ RunPlain(write_seq)
RunTrace == kind = "from_trace" /\ RunPlain(from_trace)

\* One iteration of run() of the sequences where a LR may be followed by gap
\* requests and a SC to its address: the first request, then the others.
RunFirst(draws) ==
    /\ lr = None /\ nTrans < MaxTrans[kind]
    /\ \E start \in Starts : \E t \in draws[allocate_id(start)] :
          /\ send_transaction(t)
          /\ lr' \in IF t.op = "LR"
                     THEN {None, [addr |-> t.addr, left |-> gap]} ELSE {None}
    /\ nTrans' = nTrans + 1

RunBetween(draws) ==
    /\ lr # None /\ lr.left > 0
    /\ \E start \in Starts : \E t \in draws[allocate_id(start)] : send_transaction(t)
    /\ lr' = [lr EXCEPT !.left = @ - 1]
    /\ UNCHANGED nTrans

RunSc ==
    /\ lr # None /\ lr.left = 0
    /\ \E start \in Starts, d \in Data :
          send_transaction(create_sc_transaction(lr.addr, d, allocate_id(start)))
    /\ lr' = None
    /\ UNCHANGED nTrans

RunLrsc(draws) ==
    /\ pc = "next" /\ is_available_id
    /\ RunFirst(draws) \/ RunBetween(draws) \/ RunSc
    /\ UNCHANGED <<kind, rstN, gap>>

RunRandom    == kind = "random" /\ RunLrsc(random_seq)
RunUniqueSet == kind = "unique_set" /\ RunLrsc(unique_set)

\* Ask the driver to stop; a trace may also end before max_transactions.
RunStop ==
    /\ pc = "next" /\ lr = None /\ (nTrans = MaxTrans[kind] \/ kind = "from_trace")
    /\ chan' = <<Nullptr>> /\ pc' = "done"
    /\ UNCHANGED <<kind, rstN, nTrans, gap, lr, ids, pool, allocated>>
=============================================================================
