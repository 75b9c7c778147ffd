---------------------------- MODULE MemRespModel ----------------------------
(***************************************************************************)
(* The memory of the HPDcache testbench                                    *)
(* (include/hpdcache_test_mem_resp_model.h and _base.h): six SC_THREADs    *)
(* joined by FIFOs.  Every random delay is an interleaving of the actions. *)
(* A write request and its data arrive on two channels and are paired, one *)
(* data beat for one address.  Each transaction is copied to the           *)
(* scoreboard at the point where the thread does it.                       *)
(***************************************************************************)
EXTENDS Scoreboard

CONSTANTS InitVal,    \* what the random initialisation may give
          RespFifo,   \* depth of the response FIFOs (2 in the code)
          ReqFifo,    \* depth of the request FIFOs (16 in SystemC)
          ExclInit    \* what the uninitialised excl_buf_m may hold

ASSUME MemAssumption ==
    /\ InitVal \subseteq Val /\ InitVal # {}
    /\ RespFifo \in Nat \ {0} /\ ReqFifo \in Nat \ {0}
    /\ ExclInit \subseteq Addr \cup {None} /\ ExclInit # {}

VARIABLES
    mem,         \* memory_m: initialised at random on the first access
    rdReq,       \* the read request channel of the cache (None: not valid)
    rdOp,        \* the request read_process is delaying
    rdFifo,      \* read_resp_fifo
    rdResp,      \* the read response channel
    waReq, wdReq,       \* the write address and write data channels
    waFifo, wdFifo,     \* write_req_fifo and write_req_data_fifo, each followed
                 \* by the request its thread holds while it is full
    overrun,     \* history: a request or a beat was taken and lost
    wrOp,        \* responses that writeOperation has still to push
    wrFifo,      \* write_resp_fifo
    wrResp,      \* the write response channel
    excl         \* excl_buf_m: the reservation of each identifier

memVars == <<mem, rdReq, rdOp, rdFifo, rdResp, waReq, wdReq, waFifo, wdFifo,
             overrun, wrOp, wrFifo, wrResp, excl>>

\* The requests of the cache, and a data beat; of tells what it was sent for.
ReadRequest == [id : MemIds, addr : Addr, cmd : {"READ", "LDEX"}]
WriteRequest == [id : MemIds, addr : Addr, cmd : MemAtomics \cup {"WRITE"}]
WriteBeat == [of : MemIds, data : Int]

ASSUME ChannelAssumption ==
    None \notin ReadRequest /\ None \notin WriteRequest /\ None \notin WriteBeat

MemInit ==
    /\ mem \in [Addr -> InitVal]
    /\ rdReq = None /\ rdOp = None /\ rdFifo = <<>> /\ rdResp = None
    /\ waReq = None /\ wdReq = None /\ waFifo = <<>> /\ wdFifo = <<>>
    /\ wrOp = <<>> /\ wrFifo = <<>> /\ wrResp = None /\ overrun = FALSE
    /\ excl \in [MemIds -> ExclInit]

\* mem_model.  A word is drawn at random when it is first read or written and
\* stays; the model draws it in MemInit.
readMemory(a) == mem[a]
writeMemory(a, data) == mem' = [mem EXCEPT ![a] = data]

\* read_process: the scoreboard is told as soon as the request is seen, the
\* memory is read after the ready delay.
read_process ==
    /\ rdReq # None /\ rdOp = None
    /\ rdOp' = rdReq
    /\ rdReq' = None
    /\ mem_read_req_process(rdReq)
    /\ UNCHANGED <<mem, rdFifo, rdResp, waReq, wdReq, waFifo, wdFifo, overrun,
                   wrOp, wrFifo, wrResp, excl, ids>>

\* readOperation: an error segment answers an error, and makes no reservation.
readOperation ==
    /\ rdOp # None /\ Len(rdFifo) < RespFifo
    /\ LET a == rdOp.addr
           err == within_error_region(a)
       IN  /\ rdFifo' = Append(rdFifo, [id |-> rdOp.id, error |-> err,
                                        data |-> IF err THEN 0 ELSE readMemory(a)])
           /\ excl' = IF ~err /\ rdOp.cmd = "LDEX"
                      THEN [excl EXCEPT ![rdOp.id] = a] ELSE excl
    /\ rdOp' = None
    /\ UNCHANGED <<mem, rdReq, rdResp, waReq, wdReq, waFifo, wdFifo, overrun,
                   wrOp, wrFifo, wrResp, sbVars, ids>>

\* read_response_process: tells the scoreboard, then drives the channel
\* until the cache takes the response.
read_response_process ==
    /\ rdFifo # <<>> /\ rdResp = None
    /\ rdResp' = Head(rdFifo) /\ rdFifo' = Tail(rdFifo)
    /\ mem_read_resp_process(Head(rdFifo))
    /\ UNCHANGED <<mem, rdReq, rdOp, waReq, wdReq, waFifo, wdFifo, overrun,
                   wrOp, wrFifo, wrResp, excl, ids>>

(***************************************************************************)
(* write_address_process and write_data_process: the thread raises ready,  *)
(* samples the request and retries nb_write while the FIFO is full.  Ready *)
(* stays high meanwhile, and for one edge after the push: a request that   *)
(* is driven then is taken by the handshake and sampled by nobody.         *)
(***************************************************************************)
\* The FIFO is full and its thread already holds a request.
ThreadHolds(fifo) == Len(fifo) > ReqFifo

\* That request may just have entered the FIFO, in the place of the one whose
\* write is in progress: ready may still be high.
ReadyLingers(fifo) == Len(fifo) = ReqFifo /\ wrOp # <<>>

\* Mutant: nb_write is called once.
TakenOnce(fifo, req) == {IF Len(fifo) = ReqFifo THEN fifo ELSE Append(fifo, req)}

\* What taking a request makes of its FIFO: the request enters it, or is lost.
Taken(fifo, req) ==
    {q \in {fifo, Append(fifo, req)} :
        IF q = fifo THEN ThreadHolds(fifo) \/ ReadyLingers(fifo) ELSE ~ThreadHolds(fifo)}

write_address_process ==
    /\ waReq # None /\ waReq' = None
    /\ waFifo' \in Taken(waFifo, waReq)
    /\ overrun' = (overrun \/ waFifo' = waFifo)
    /\ UNCHANGED <<mem, rdReq, rdOp, rdFifo, rdResp, wdReq, wdFifo, wrOp,
                   wrFifo, wrResp, excl, sbVars, ids>>

write_data_process ==
    /\ wdReq # None /\ wdReq' = None
    /\ wdFifo' \in Taken(wdFifo, wdReq)
    /\ overrun' = (overrun \/ wdFifo' = wdFifo)
    /\ UNCHANGED <<mem, rdReq, rdOp, rdFifo, rdResp, waReq, waFifo, wrOp,
                   wrFifo, wrResp, excl, sbVars, ids>>

\* Mutant: an access to an error segment is not answered.
WriteResponsesMute(old, ack, amo) ==
    IF ack.error THEN <<>> ELSE IF amo THEN <<old, ack>> ELSE <<ack>>

\* The old data of an atomic operation is pushed before the write response.
WriteResponses(old, ack, amo) == IF amo THEN <<old, ack>> ELSE <<ack>>

(***************************************************************************)
(* writeOperation: the new memory, the reservations, and the responses.    *)
(***************************************************************************)
WriteOperation(req, data) ==
    LET a    == req.addr
        err  == within_error_region(a)
        amo  == MemIsAmo(req.cmd)
        stex == req.cmd = "STEX"
        ok   == stex /\ ~err /\ excl[req.id] = a
        old  == [chan |-> "read", id |-> req.id, error |-> FALSE,
                 data |-> IF err THEN 0 ELSE readMemory(a)]
        ack  == [chan |-> "write", id |-> req.id, error |-> err, atomic |-> ok]
    IN  /\ IF err \/ (stex /\ ~ok) THEN UNCHANGED mem
           ELSE writeMemory(a, IF amo THEN MemComputeAmo(req.cmd, readMemory(a), data, FALSE)
                               ELSE data)
        /\ excl' = IF stex /\ ~err THEN [excl EXCEPT ![req.id] = None] ELSE excl
        /\ wrOp' = WriteResponses(old, ack, amo)

\* write_process makes room: the request a thread holds enters the FIFO at
\* the next edge, and ready is still high for the one driven behind it.
Released(fifo, req) == IF ThreadHolds(fifo) THEN None ELSE req
MakeRoom ==
    /\ waReq' = Released(waFifo, waReq) /\ wdReq' = Released(wdFifo, wdReq)
    /\ overrun' = (overrun \/ waReq' # waReq \/ wdReq' # wdReq)

\* Mutant: the data of an access to an error segment stays in its FIFO.
write_processKeepsBeat ==
    /\ wrOp = <<>> /\ waFifo # <<>> /\ wdFifo # <<>>
    /\ waFifo' = Tail(waFifo)
    /\ wdFifo' = IF within_error_region(Head(waFifo).addr) THEN wdFifo ELSE Tail(wdFifo)
    /\ mem_write_req_process(Head(waFifo))
    /\ WriteOperation(Head(waFifo), Head(wdFifo).data)
    /\ MakeRoom
    /\ UNCHANGED <<rdReq, rdOp, rdFifo, rdResp, wrFifo, wrResp, ids>>

\* write_process: one address is paired with one data beat.  The address is read
\* first, and waits for its beat outside the FIFO: the code has room for one
\* address more than the model.  The message for a burst (len # 0) is left out.
write_process ==
    /\ wrOp = <<>> /\ waFifo # <<>> /\ wdFifo # <<>>
    /\ waFifo' = Tail(waFifo) /\ wdFifo' = Tail(wdFifo)
    /\ mem_write_req_process(Head(waFifo))
    /\ WriteOperation(Head(waFifo), Head(wdFifo).data)
    /\ MakeRoom
    /\ UNCHANGED <<rdReq, rdOp, rdFifo, rdResp, wrFifo, wrResp, ids>>

\* The pushes at the end of writeOperation block while a FIFO is full.
WritePush ==
    /\ wrOp # <<>>
    /\ wrOp' = Tail(wrOp)
    /\ LET r == Head(wrOp) IN
       \/ /\ r.chan = "read" /\ Len(rdFifo) < RespFifo
          /\ rdFifo' = Append(rdFifo, [id |-> r.id, error |-> r.error, data |-> r.data])
          /\ UNCHANGED wrFifo
       \/ /\ r.chan = "write" /\ Len(wrFifo) < RespFifo
          /\ wrFifo' = Append(wrFifo, [id |-> r.id, error |-> r.error, atomic |-> r.atomic])
          /\ UNCHANGED rdFifo
    /\ UNCHANGED <<mem, rdReq, rdOp, rdResp, waReq, wdReq, waFifo, wdFifo,
                   overrun, wrResp, excl, sbVars, ids>>

write_response_process ==
    /\ wrFifo # <<>> /\ wrResp = None
    /\ wrResp' = Head(wrFifo) /\ wrFifo' = Tail(wrFifo)
    /\ mem_write_resp_process(Head(wrFifo))
    /\ UNCHANGED <<mem, rdReq, rdOp, rdFifo, rdResp, waReq, wdReq, waFifo,
                   wdFifo, overrun, wrOp, excl, ids>>
=============================================================================
