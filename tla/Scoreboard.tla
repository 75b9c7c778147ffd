----------------------------- MODULE Scoreboard -----------------------------
(***************************************************************************)
(* The scoreboard of the HPDcache testbench                                *)
(* (include/hpdcache_test_scoreboard.h): one operator per SC_THREAD, each  *)
(* of which handles one transaction of its input FIFO from end to end.     *)
(* The threads run in the delta cycles between two clock edges, so a       *)
(* transaction is handled before the next edge: the operators are          *)
(* conjoined with the step that writes the FIFO.                           *)
(*                                                                         *)
(* A line is one word, every access is the whole word, and the bytes a     *)
(* response fills are the word (FillEnables in TbUnits models the byte     *)
(* arithmetic of lines 941-973).                                           *)
(***************************************************************************)
EXTENDS TestSequence

CONSTANTS ErrAddr,     \* addresses inside an error segment of the memory
          UcId,        \* memory identifier of the uncached and atomic requests
          AmoFifo,     \* depth of inflight_amo_req_m (16 in SystemC)
          ErrorLimit,  \* sb_error_limit_m, 0 for no limit
          LrscInit     \* the word that the uninitialised lrsc_buf_m may hold

ASSUME SbAssumption ==
    /\ ErrAddr \subseteq Addr
    /\ UcId \notin Addr /\ None \notin Addr \cup Val \cup {UcId}
    /\ AmoFifo \in Nat \ {0} /\ ErrorLimit \in Nat
    /\ LrscInit \subseteq Addr \cup {None} /\ LrscInit # {}

MemIds == Addr \cup {UcId}

VARIABLES
    inflight,     \* inflight_m: a map from identifiers to the core requests
                  \* that wait for a response
    inflightRd,   \* inflight_mem_read_m: address of each pending read, by id
    inflightWr,   \* inflight_mem_write_m
    lrsc,         \* lrsc_buf_m: the word a LR reserved, None when not valid
    lrscRaw,      \* the word it holds until it is first written: the
                  \* constructor does not initialise it
    phantom,      \* history: a SC found a reservation that no LR made
    ram,          \* ram_m: the expected words, None where bmap is clear
    amoFifo,      \* inflight_amo_req_m
    scIsAtomic,   \* sc_is_atomic: the last memory write response
    nbNeedRsp, nbResp,   \* nb_core_req_need_rsp, nb_core_resp
    sbErrors,     \* the SB_ERROR messages printed so far, in order
    noInflight    \* no_inflight_requests_o

sbVars == <<inflight, inflightRd, inflightWr, lrsc, lrscRaw, phantom, ram, amoFifo,
            scIsAtomic, nbNeedRsp, nbResp, sbErrors, noInflight>>

(***************************************************************************)
(* inflight_entry_t.  rdata is the word expected in the response (None     *)
(* when rv is clear), atomic whether a SC found a reservation.             *)
(***************************************************************************)
Entry == [op : ReqOps, addr : Addr, data : Val, rdata : Val \cup {None},
          error : BOOLEAN, atomic : BOOLEAN]

ScoreboardInit ==
    /\ inflight = [t \in {} |-> None]
    /\ inflightRd = [i \in MemIds |-> None]
    /\ inflightWr = [i \in MemIds |-> None]
    /\ lrsc = None /\ lrscRaw \in LrscInit /\ phantom = FALSE
    /\ ram = [a \in Addr |-> None]
    /\ amoFifo = <<>>
    /\ scIsAtomic = FALSE
    /\ nbNeedRsp = 0 /\ nbResp = 0
    /\ sbErrors = <<>>
    /\ noInflight = FALSE

\* print_error: std::exit(1) once the limit is reached.
print_error(msgs) == sbErrors' = sbErrors \o msgs
Exited == ErrorLimit > 0 /\ Len(sbErrors) >= ErrorLimit

If(c, msg) == IF c THEN <<msg>> ELSE <<>>

within_error_region(a) == kind = "random" /\ a \in ErrAddr

\* ram_model::read: the word, None when a byte of it is not known (valid).
ramRead(a) == ram[a]

\* The address matches the reservation (lines 563-587).
AddrMatch(req) == req.addr \in {lrsc, lrscRaw}

\* The entry built for a request (lines 486-523, 543-605): the error flag
\* of a SC and its atomicity depend on the reservation.
EntryOf(req) ==
    LET segment == (req.op \notin CmoOps \/ req.op = "CMO_PREFETCH")
                   /\ within_error_region(req.addr)
        reads   == req.op \in {"LOAD", "LR"} \cup AmoOps
    IN  [op |-> req.op, addr |-> req.addr, data |-> req.data,
         rdata |-> IF reads /\ ~segment THEN ramRead(req.addr) ELSE None,
         error |-> IF req.op = "SC" THEN segment /\ AddrMatch(req) ELSE segment,
         atomic |-> req.op = "SC" /\ AddrMatch(req)]

\* The reservation after a request (lines 543-605).
ReservationAfter(req, e) ==
    IF req.op = "LR" THEN (IF e.error THEN None ELSE req.addr)
    ELSE IF req.op = "SC" \/ (req.op \in AmoOps \cup {"STORE"} /\ AddrMatch(req)) THEN None
    ELSE lrsc

\* lrsc_buf_m is written (lines 543-605); a SC that matches what it held
\* before its first write finds a reservation that does not exist.
WritesReservation(req) ==
    req.op \in {"LR", "SC"} \/ (req.op \in AmoOps \cup {"STORE"} /\ AddrMatch(req))
FindsPhantom(req) == req.op = "SC" /\ lrscRaw = req.addr

\* The memory interface threads look for it in the AMO FIFO.
ForwardedToMem(req, e) == req.op \in AmoOps \cup {"LR"} \/ (req.op = "SC" /\ e.atomic)

\* The last steps: the written data, and the table of requests.
TrackRequest(req, e, done) ==
    /\ ram' = IF done /\ req.op = "STORE" /\ ~e.error
              THEN [ram EXCEPT ![req.addr] = req.data] ELSE ram
    /\ inflight' = IF done /\ req.needRsp
                   THEN [t \in DOMAIN inflight \cup {req.tid} |->
                            IF t = req.tid THEN e ELSE inflight[t]]
                   ELSE inflight

(***************************************************************************)
(* core_req_process: a request with an identifier in use, or that does not *)
(* fit in the AMO FIFO, is reported and dropped.                           *)
(***************************************************************************)
core_req_process(req) ==
    LET e    == EntryOf(req)
        dup  == req.tid \in DOMAIN inflight
        mute == ~dup /\ req.op \in CmoOps /\ ~req.needRsp
        full == ~dup /\ ~mute /\ ForwardedToMem(req, e) /\ Len(amoFifo) >= AmoFifo
        done == ~dup /\ ~mute /\ ~full
    IN  /\ nbNeedRsp' = nbNeedRsp + (IF req.needRsp THEN 1 ELSE 0)
        /\ print_error(If(dup, "duplicate id") \o If(full, "amo fifo full"))
        /\ lrsc' = IF dup \/ mute THEN lrsc ELSE ReservationAfter(req, e)
        /\ lrscRaw' = IF ~dup /\ ~mute /\ WritesReservation(req) THEN None ELSE lrscRaw
        /\ phantom' = (phantom \/ (~dup /\ FindsPhantom(req)))
        /\ amoFifo' = IF done /\ ForwardedToMem(req, e) THEN Append(amoFifo, e) ELSE amoFifo
        /\ TrackRequest(req, e, done)
        /\ deallocate_id(IF mute \/ (done /\ ~req.needRsp) THEN {req.tid} ELSE {})
        /\ UNCHANGED <<inflightRd, inflightWr, scIsAtomic, nbResp, noInflight>>

\* A SC is expected to succeed if it found a reservation and the last write
\* response of the memory was atomic (lines 696-719).
ScOk(e) == e.op = "SC" /\ ~e.error /\ e.atomic /\ scIsAtomic

\* Mutant: only an error that was not expected is reported.
WrongFlagMissing(e, resp) == e.op # "STORE" /\ resp.error /\ ~e.error

WrongFlag(e, resp) == e.op # "STORE" /\ resp.error # e.error

\* The checks of a response against its entry.
RespErrors(e, resp) ==
    IF WrongFlag(e, resp) THEN <<"error flag">>
    ELSE IF e.error THEN <<>>
    ELSE   If(ScOk(e) /\ resp.data # 0, "shall be SC_SUCCESS")
        \o If(e.op = "SC" /\ ~ScOk(e) /\ resp.data # 1, "shall be SC_FAILURE")
        \o If(/\ e.op \in {"LOAD", "LR"} \cup AmoOps
              /\ e.rdata # None /\ e.rdata # resp.data, "response data is wrong")

(***************************************************************************)
(* core_resp_process.  resp.data is the word read, the status of a SC (0   *)
(* for success), or anything for a store.                                  *)
(***************************************************************************)
core_resp_process(resp) ==
    LET e    == inflight[resp.tid]
        none == resp.tid \notin DOMAIN inflight
        done == ~none /\ ~WrongFlag(e, resp)
    IN  /\ nbResp' = nbResp + 1
        /\ print_error(IF none THEN <<"no inflight request">> ELSE RespErrors(e, resp))
        /\ ram' = IF done /\ ScOk(e) THEN [ram EXCEPT ![e.addr] = e.data]
                  ELSE IF done /\ e.op \in AmoOps /\ ~e.error
                  THEN [ram EXCEPT ![e.addr] =
                            ComputeAmo(e.op, resp.data, e.data, FALSE)]
                  ELSE ram
        /\ inflight' = IF done
                       THEN [t \in DOMAIN inflight \ {resp.tid} |-> inflight[t]]
                       ELSE inflight
        /\ deallocate_id(IF done THEN {resp.tid} ELSE {})
        /\ UNCHANGED <<inflightRd, inflightWr, lrsc, lrscRaw, phantom, amoFifo,
                       scIsAtomic, nbNeedRsp, noInflight>>

\* There is a core request on the line of a memory request (lines 826-840
\* and 1024-1038; the code keeps the oldest, and uses only its existence).
CoreReqOf(a) == \E t \in DOMAIN inflight : inflight[t].addr = a

(***************************************************************************)
(* mem_read_req_process                                                    *)
(***************************************************************************)
mem_read_req_process(req) ==
    LET dup  == inflightRd[req.id] # None
        ldex == ~dup /\ req.cmd = "LDEX"
    IN  /\ inflightRd' = IF dup THEN inflightRd
                         ELSE [inflightRd EXCEPT ![req.id] = req.addr]
        /\ print_error(   If(dup, "duplicate memory read id")
                       \o If(ldex /\ Len(amoFifo) > 1, "single inflight atomic")
                       \o If(ldex /\ amoFifo = <<>>, "unexpected load-exclusive"))
        /\ amoFifo' = IF ldex /\ amoFifo # <<>> THEN Tail(amoFifo) ELSE amoFifo
        /\ UNCHANGED <<inflight, inflightWr, lrsc, lrscRaw, phantom, ram, scIsAtomic,
                       nbNeedRsp, nbResp, noInflight>>

\* Mutant: the response replaces the word that a store has made known.
LearntAlways(a, resp) == IF resp.error THEN ram ELSE [ram EXCEPT ![a] = resp.data]

\* The expected words after a read response: learnt where not known.
Learnt(a, resp) ==
    IF resp.error \/ ram[a] # None THEN ram ELSE [ram EXCEPT ![a] = resp.data]

(***************************************************************************)
(* mem_read_resp_process: the word is learnt only where it is not known.   *)
(***************************************************************************)
mem_read_resp_process(resp) ==
    LET a    == inflightRd[resp.id]
        none == a = None
    IN  /\ print_error(If(none, "no inflight memory read"))
        /\ ram' = IF none THEN ram ELSE Learnt(a, resp)
        /\ inflightRd' = IF none THEN inflightRd
                         ELSE [inflightRd EXCEPT ![resp.id] = None]
        /\ UNCHANGED <<inflight, inflightWr, lrsc, lrscRaw, phantom, amoFifo,
                       scIsAtomic, nbNeedRsp, nbResp, noInflight>>

(***************************************************************************)
(* mem_write_req_process: an atomic operation also waits for a read        *)
(* response, under the same identifier.                                    *)
(***************************************************************************)
mem_write_req_process(req) ==
    LET dup  == inflightWr[req.id] # None
        amo  == ~dup /\ MemIsAmo(req.cmd)
        stex == ~dup /\ req.cmd = "STEX"
        got  == amoFifo # <<>>
        lone == ~CoreReqOf(req.addr)
    IN  /\ inflightWr' = IF dup THEN inflightWr
                         ELSE [inflightWr EXCEPT ![req.id] = req.addr]
        /\ amoFifo' = IF (amo \/ stex) /\ got THEN Tail(amoFifo) ELSE amoFifo
        /\ inflightRd' = IF amo /\ got /\ inflightRd[req.id] = None
                         THEN [inflightRd EXCEPT ![req.id] = req.addr]
                         ELSE inflightRd
        /\ print_error(   If(dup, "duplicate memory write id")
                       \o If((amo \/ stex) /\ Len(amoFifo) > 1,
                             "single inflight atomic")
                       \o If((amo \/ stex) /\ ~got, "unexpected atomic request")
                       \o If(stex /\ got /\ ~Head(amoFifo).atomic,
                             "no valid reservation")
                       \o If(got /\ lone /\ (amo \/ (stex /\ Head(amoFifo).atomic)),
                             "no associated core request"))
        /\ UNCHANGED <<inflight, lrsc, lrscRaw, phantom, ram, scIsAtomic, nbNeedRsp,
                       nbResp, noInflight>>

(***************************************************************************)
(* mem_write_resp_process                                                  *)
(***************************************************************************)
mem_write_resp_process(resp) ==
    LET none == inflightWr[resp.id] = None
    IN  /\ print_error(If(none, "no inflight memory write"))
        /\ scIsAtomic' = IF none THEN scIsAtomic ELSE resp.atomic
        /\ inflightWr' = IF none THEN inflightWr
                         ELSE [inflightWr EXCEPT ![resp.id] = None]
        /\ UNCHANGED <<inflight, inflightRd, lrsc, lrscRaw, phantom, ram, amoFifo,
                       nbNeedRsp, nbResp, noInflight>>

(***************************************************************************)
(* check_inflight_requests, on every falling edge.                         *)
(***************************************************************************)
check_inflight_requests ==
    /\ noInflight' = (/\ \A i \in MemIds : inflightRd[i] = None /\ inflightWr[i] = None
                      /\ DOMAIN inflight = {})
    /\ UNCHANGED <<inflight, inflightRd, inflightWr, lrsc, lrscRaw, phantom, ram,
                   amoFifo, scIsAtomic, nbNeedRsp, nbResp, sbErrors>>

\* The final report of the destructor.  Its two checks of the miss counters
\* compare event outputs of the cache, which the device model does not have.
FinalReport ==
    If(nbResp # nbNeedRsp, "responses differ from requests")
    \o If(ids # {}, "unresponded ids")
=============================================================================
