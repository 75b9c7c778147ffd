----------------------------- MODULE Testbench -----------------------------
(***************************************************************************)
(* The testbench of the HPDcache as one system: a sequence, the driver     *)
(* (include/hpdcache_test_driver.h), the memory response model and the     *)
(* scoreboard, wired as hpdcache_tb.cpp does, around the device under      *)
(* test.  The device is external to this module: it is a cache that keeps  *)
(* its promise (same-address order, atomics alone in the cache, one answer *)
(* per request), and that may, once, answer wrongly.                       *)
(***************************************************************************)
EXTENDS MemRespModel

CONSTANTS DutDepth,   \* requests the device holds
          Bugs        \* wrong answers the device may give: data, error, tid

ASSUME TbAssumption == DutDepth \in Nat \ {0} /\ Bugs \subseteq {"data", "error", "tid"}

VARIABLES
    phase,     \* simulate(): "off", "pre", "reset" and "run"
    drv,       \* the driver: its state and the transaction it drives
    fresh,     \* no_inflight_requests was sampled since the driver stopped
    dutQ,      \* requests accepted by the device and not performed
    cache,     \* the words it caches
    miss,      \* the lines it is fetching
    wbuf,      \* its write buffer
    rsv,       \* its LR reservation
    uc,        \* an atomic request was sent, and the responses received
    bug        \* the wrong answer it gave

\* Entries of the write buffer, and the wrong answers.
WbufEntry == [data : Data \cup {0}, sent : BOOLEAN]
WrongAnswer == [kind : {"data", "error", "tid"}, seen : BOOLEAN]

ASSUME TbNoneAssumption == None \notin WbufEntry /\ None \notin WrongAnswer

dutVars == <<dutQ, cache, miss, wbuf, rsv, uc, bug>>
vars == <<seqVars, sbVars, memVars, dutVars, phase, drv, fresh>>

\* No atomic request was sent.
UcIdle == [busy |-> FALSE, rd |-> None, wr |-> None]

Init ==
    /\ SequenceInit /\ ScoreboardInit /\ MemInit
    /\ phase = "off" /\ drv = [st |-> "idle", t |-> None] /\ fresh = FALSE
    /\ dutQ = <<>> /\ cache = [a \in Addr |-> None] /\ miss = {}
    /\ wbuf = [a \in Addr |-> None] /\ rsv = None
    /\ uc = UcIdle /\ bug = None

(***************************************************************************)
(* simulate(): rst_ni is high for some cycles, low, then high again.       *)
(***************************************************************************)
Simulate ==
    /\ \/ phase = "off" /\ phase' = "pre" /\ rstN' = TRUE
       \/ phase = "pre" /\ phase' = "reset" /\ rstN' = FALSE
       \/ phase = "reset" /\ phase' = "run" /\ rstN' = TRUE
    /\ UNCHANGED <<kind, pc, nTrans, gap, lr, ids, pool, allocated, chan,
                   sbVars, memVars, dutVars, drv, fresh>>

(***************************************************************************)
(* The device under test.                                                  *)
(***************************************************************************)
IsFence(op) == IsRmw(op) \/ op \in CmoOps \ {"CMO_PREFETCH"}

\* Ready is low until the arrays are initialised after the reset, and while
\* an atomic or a cache maintenance operation is in the device.
DutReady == /\ phase = "run" /\ Len(dutQ) < DutDepth
            /\ \A i \in DOMAIN dutQ : ~IsFence(dutQ[i].op)

\* Request i can be performed: it is the oldest on its line, and a fence
\* waits until nothing else is pending.
Oldest(i) == \A j \in 1 .. i - 1 : dutQ[j].addr # dutQ[i].addr
Quiet == miss = {} /\ \A a \in Addr : wbuf[a] = None
Without(i) == [j \in 1 .. Len(dutQ) - 1 |-> IF j < i THEN dutQ[j] ELSE dutQ[j + 1]]

core_resp_to_struct(tid, data, err) == [tid |-> tid, data |-> data, error |-> err]

\* The driver passes the answer to the scoreboard at the next edge.
monitor_response(tid, data, err) == core_resp_process(core_resp_to_struct(tid, data, err))

\* The device answers: rightly, or once wrongly.
Answer(t, data, err) ==
    IF ~t.needRsp THEN UNCHANGED <<sbVars, ids, bug>>
    ELSE \/ monitor_response(t.tid, data, err) /\ UNCHANGED bug
         \/ /\ bug = None /\ "data" \in Bugs
            /\ \E d \in Val \ {data} : monitor_response(t.tid, d, err)
            /\ LET e == inflight[t.tid] IN
               bug' = [kind |-> "data",
                       seen |-> ~e.error /\ (e.op = "SC" \/ e.rdata # None)]
         \/ /\ bug = None /\ "error" \in Bugs
            /\ monitor_response(t.tid, data, ~err)
            /\ bug' = [kind |-> "error", seen |-> t.op # "STORE"]
         \/ /\ bug = None /\ "tid" \in Bugs
            /\ \E o \in Tids \ {t.tid} : monitor_response(o, data, err)
            /\ bug' = [kind |-> "tid", seen |-> TRUE]

DutHit == \E i \in DOMAIN dutQ : LET t == dutQ[i] IN
    /\ t.op \in {"LOAD", "CMO_PREFETCH"} /\ Oldest(i) /\ cache[t.addr] # None
    /\ Answer(t, cache[t.addr], FALSE)
    /\ dutQ' = Without(i)
    /\ UNCHANGED <<cache, miss, wbuf, rsv, uc, memVars>>

DutMiss == \E i \in DOMAIN dutQ : LET a == dutQ[i].addr IN
    /\ dutQ[i].op \in {"LOAD", "CMO_PREFETCH"} /\ Oldest(i) /\ cache[a] = None
    /\ a \notin miss /\ wbuf[a] = None /\ rdReq = None
    /\ rdReq' = [id |-> a, addr |-> a, cmd |-> "READ"]
    /\ miss' = miss \cup {a}
    /\ UNCHANGED <<dutQ, cache, wbuf, rsv, uc, bug, sbVars, ids, mem, rdOp,
                   rdFifo, rdResp, waReq, wdReq, waFifo, wdFifo, overrun, wrOp,
                   wrFifo, wrResp, excl>>

DutRefill == \E i \in DOMAIN dutQ : LET a == dutQ[i].addr IN
    /\ rdResp # None /\ rdResp.id = a /\ Oldest(i)
    /\ dutQ[i].op \in {"LOAD", "CMO_PREFETCH"}
    /\ cache' = IF rdResp.error THEN cache ELSE [cache EXCEPT ![a] = rdResp.data]
    /\ miss' = miss \ {a}
    /\ Answer(dutQ[i], rdResp.data, rdResp.error)
    /\ dutQ' = Without(i)
    /\ rdResp' = None
    /\ UNCHANGED <<wbuf, rsv, uc, mem, rdReq, rdOp, rdFifo, waReq, wdReq,
                   waFifo, wdFifo, overrun, wrOp, wrFifo, wrResp, excl>>

DutStore == \E i \in DOMAIN dutQ : LET t == dutQ[i] IN
    /\ t.op = "STORE" /\ Oldest(i)
    /\ wbuf[t.addr] # None => ~wbuf[t.addr].sent
    /\ wbuf' = [wbuf EXCEPT ![t.addr] = [data |-> t.data, sent |-> FALSE]]
    /\ cache' = IF cache[t.addr] = None THEN cache
                ELSE [cache EXCEPT ![t.addr] = t.data]
    /\ rsv' = IF rsv = t.addr THEN None ELSE rsv
    /\ Answer(t, 0, FALSE)
    /\ dutQ' = Without(i)
    /\ UNCHANGED <<miss, uc, memVars>>

\* Both channels are driven at once, and taken independently.
DutWrite(req, data) ==
    /\ waReq = None /\ wdReq = None
    /\ waReq' = req /\ wdReq' = [of |-> req.id, data |-> data]
    /\ UNCHANGED <<mem, rdReq, rdOp, rdFifo, rdResp, waFifo, wdFifo, overrun,
                   wrOp, wrFifo, wrResp, excl, sbVars, ids>>

DutDrain == \E a \in Addr :
    /\ wbuf[a] # None /\ ~wbuf[a].sent
    /\ DutWrite([id |-> a, addr |-> a, cmd |-> "WRITE"], wbuf[a].data)
    /\ wbuf' = [wbuf EXCEPT ![a].sent = TRUE]
    /\ UNCHANGED <<dutQ, cache, miss, rsv, uc, bug>>

\* A memory response that belongs to the write buffer or to the atomic.
DutWriteAck ==
    /\ wrResp # None /\ wrResp' = None
    /\ IF wrResp.id = UcId
       THEN uc' = [uc EXCEPT !.wr = wrResp] /\ UNCHANGED wbuf
       ELSE wbuf' = [wbuf EXCEPT ![wrResp.id] = None] /\ UNCHANGED uc
    /\ UNCHANGED <<dutQ, cache, miss, rsv, bug, sbVars, ids, mem, rdReq, rdOp,
                   rdFifo, rdResp, waReq, wdReq, waFifo, wdFifo, overrun, wrOp,
                   wrFifo, excl>>

DutUcRead ==
    /\ rdResp # None /\ rdResp.id = UcId /\ rdResp' = None
    /\ uc' = [uc EXCEPT !.rd = rdResp]
    /\ UNCHANGED <<dutQ, cache, miss, wbuf, rsv, bug, sbVars, ids, mem, rdReq,
                   rdOp, rdFifo, waReq, wdReq, waFifo, wdFifo, overrun, wrOp,
                   wrFifo, wrResp, excl>>

Ready(op) == dutQ # <<>> /\ Len(dutQ) = 1 /\ dutQ[1].op = op /\ Quiet

\* Send the atomic to the memory; a SC without reservation fails at once.
DutUcSend == LET t == dutQ[1] IN
    /\ \E op \in Ops \cup {"SC"} : IsRmw(op) /\ Ready(op)
    /\ ~uc.busy
    /\ \/ /\ t.op = "LR" /\ rdReq = None
          /\ rdReq' = [id |-> UcId, addr |-> t.addr, cmd |-> "LDEX"]
          /\ UNCHANGED <<mem, rdOp, rdFifo, rdResp, waReq, wdReq, waFifo,
                         wdFifo, overrun, wrOp, wrFifo, wrResp, excl, sbVars, ids>>
       \/ /\ t.op = "SC" /\ rsv = t.addr
          /\ DutWrite([id |-> UcId, addr |-> t.addr, cmd |-> "STEX"], t.data)
       \/ /\ t.op \in AmoOps
          /\ DutWrite([id |-> UcId, addr |-> t.addr, cmd |-> MemAtomicOf[t.op]],
                      MemDataOf(t.op, t.data))
    /\ uc' = [UcIdle EXCEPT !.busy = TRUE]
    /\ UNCHANGED <<dutQ, cache, miss, wbuf, rsv, bug>>

DutScFail == LET t == dutQ[1] IN
    /\ Ready("SC") /\ ~uc.busy /\ rsv # t.addr
    /\ Answer(t, 1, FALSE)
    /\ rsv' = None /\ dutQ' = <<>>
    /\ UNCHANGED <<cache, miss, wbuf, uc, memVars>>

DutUcDone == LET t == dutQ[1] IN
    /\ uc.busy
    /\ t.op = "SC" \/ uc.rd # None
    /\ t.op = "LR" \/ uc.wr # None
    /\ LET err == \/ (uc.rd # None /\ uc.rd.error)
                  \/ (uc.wr # None /\ uc.wr.error)
           won == t.op = "SC" /\ uc.wr.atomic /\ ~err
           new == IF t.op = "SC" THEN t.data
                  ELSE IF t.op = "LR" THEN uc.rd.data
                  ELSE ComputeAmo(t.op, uc.rd.data, t.data, FALSE)
       IN  /\ Answer(t, IF t.op = "SC" THEN (IF won THEN 0 ELSE 1) ELSE uc.rd.data, err)
           /\ cache' = IF cache[t.addr] = None \/ err \/ (t.op = "SC" /\ ~won)
                       THEN cache ELSE [cache EXCEPT ![t.addr] = new]
           /\ rsv' = IF t.op = "LR" THEN (IF err THEN None ELSE t.addr)
                     ELSE IF t.op = "SC" \/ rsv = t.addr THEN None
                     ELSE rsv
    /\ uc' = UcIdle /\ dutQ' = <<>>
    /\ UNCHANGED <<miss, wbuf, memVars>>

DutCmo == LET t == dutQ[1] IN
    /\ \E op \in CmoOps \ {"CMO_PREFETCH"} : Ready(op)
    /\ cache' = IF t.op = "CMO_FENCE" THEN cache ELSE [a \in Addr |-> None]
    /\ Answer(t, 0, FALSE)
    /\ dutQ' = <<>>
    /\ UNCHANGED <<miss, wbuf, rsv, uc, memVars>>

(***************************************************************************)
(* The driver: drive_request and the end of the simulation.                *)
(***************************************************************************)
DriverTake ==
    /\ drv.st = "idle" /\ chan # <<>>
    /\ chan' = <<>>
    /\ drv' = IF Head(chan) = Nullptr THEN [st |-> "drain", t |-> None]
              ELSE [st |-> "drive", t |-> Head(chan)]
    /\ UNCHANGED <<kind, rstN, pc, nTrans, gap, lr, ids, pool, allocated,
                   sbVars, memVars, dutVars, phase, fresh>>

\* The request is accepted; the sequence is released, then the scoreboard
\* receives a copy of the transaction.
drive_request ==
    /\ drv.st = "drive" /\ DutReady
    /\ dutQ' = Append(dutQ, drv.t)
    /\ drv' = [st |-> "idle", t |-> None]
    /\ pc' = "next" /\ release_transaction
    /\ core_req_process(drv.t)
    /\ UNCHANGED <<kind, rstN, nTrans, gap, lr, chan, memVars, cache, miss,
                   wbuf, rsv, uc, bug, phase, fresh>>

CheckInflight ==
    /\ check_inflight_requests
    /\ fresh' = (drv.st = "drain")
    /\ noInflight' # noInflight \/ fresh' # fresh
    /\ UNCHANGED <<seqVars, memVars, dutVars, phase, drv>>

\* Verilated::gotFinish(true)
DriverFinish ==
    /\ drv.st = "drain" /\ fresh /\ noInflight
    /\ drv' = [drv EXCEPT !.st = "finish"]
    /\ UNCHANGED <<seqVars, sbVars, memVars, dutVars, phase, fresh>>

SeqStep == (\/ RunStart \/ RunRandom \/ RunUniqueSet \/ RunRead \/ RunWrite
            \/ RunTrace \/ RunStop)
           /\ UNCHANGED <<sbVars, memVars, dutVars, phase, drv, fresh>>

MemStep == (\/ read_process \/ readOperation \/ read_response_process
            \/ write_address_process \/ write_data_process \/ write_process
            \/ WritePush \/ write_response_process)
           /\ UNCHANGED <<kind, rstN, pc, nTrans, gap, lr, pool, allocated, chan,
                          dutVars, phase, drv, fresh>>

DutStep == (\/ DutHit \/ DutMiss \/ DutRefill \/ DutStore \/ DutDrain
            \/ DutWriteAck \/ DutUcRead \/ DutUcSend \/ DutScFail \/ DutUcDone
            \/ DutCmo)
           /\ UNCHANGED <<kind, rstN, pc, nTrans, gap, lr, pool, allocated, chan,
                          phase, drv, fresh>>

Running == ~Exited /\ drv.st # "finish"

Next == Running /\ (\/ Simulate \/ SeqStep \/ MemStep \/ DutStep
                    \/ DriverTake \/ drive_request \/ CheckInflight
                    \/ DriverFinish)

\* The kernel advances the clock until the end of the simulation: some
\* thread that can run does run.
Spec == Init /\ [][Next]_vars /\ WF_vars(Next)
-----------------------------------------------------------------------------
(***************************************************************************)
(* Properties                                                              *)
(***************************************************************************)
\* The testbench itself did not go wrong: the memory lost no handshake, and no
\* SC matched the uninitialised reservation of the scoreboard.
Sound == ~overrun /\ ~phantom

\* A cache that answers correctly raises no SB_ERROR and gets a clean final
\* report, whatever the interleaving of the six scoreboard threads with the
\* memory and the driver: the word expected at the request, the reservation
\* and the status of the last write response are never stale.
NoFalseAlarm == (sbErrors # <<>> \/ (drv.st = "finish" /\ FinalReport # <<>>))
                => bug # None \/ ~Sound

\* A wrong answer that the scoreboard can know to be wrong (the expected
\* word was known at the request, a response error, the wrong identifier)
\* never lets the test end without a report.
NoSilentBug == (drv.st = "finish" /\ bug # None /\ bug.seen /\ Sound)
               => sbErrors \o FinalReport # <<>>

\* Every identifier in use belongs to exactly one transaction: waiting for
\* the driver or in the table of requests; none is lost or given back twice.
IdsAccounted ==
    LET waiting  == {x.tid : x \in {chan[i] : i \in DOMAIN chan} \ {Nullptr}}
                    \cup (IF drv.st = "drive" THEN {drv.t.tid} ELSE {})
    IN  bug = None /\ Sound => /\ ids = waiting \cup DOMAIN inflight
                               /\ waiting \cap DOMAIN inflight = {}

\* No request and no data beat of the cache is taken by a handshake while the
\* thread that should sample it waits for its full FIFO.
NoHandshakeLost == ~overrun

\* Each data beat that the memory pairs with an address was sent for it, as
\* long as no handshake was lost.
BeatsPaired == ~overrun =>
    \A i \in 1 .. (IF Len(waFifo) < Len(wdFifo) THEN Len(waFifo) ELSE Len(wdFifo)) :
        waFifo[i].id = wdFifo[i].of

\* The driver stops the simulation: no response, identifier or memory
\* transaction is awaited for ever.
Terminates == <>(drv.st = "finish" \/ Exited \/ bug # None \/ ~Sound)
=============================================================================
