------------------------------ MODULE Hpdcache ------------------------------
(***************************************************************************)
(* The write-back data cache: pipeline control (hpdcache_ctrl.sv,          *)
(* hpdcache_ctrl_pe.sv), directory and victim selection                    *)
(* (hpdcache_memctrl.sv, hpdcache_victim_plru.sv, _random.sv), miss        *)
(* handler with MSHR and coalesce buffer, replay table, flush controller   *)
(* and the AMO path of the uncached handler, around the victim buffer of   *)
(* Vbuf.tla.  Ways are the ways of all cache sets; WaysOf[l] are those of  *)
(* the set that line l maps to.                                            *)
(*                                                                         *)
(* Stage 1 takes one cycle and reads what stage 0 read the cycle before.   *)
(* Every decision that changes what a following lookup reads inserts a nop *)
(* (st1_nop, st2_nop), so the lookup is part of the Stage1 actions and     *)
(* requests are accepted only while no stage 2 hazard is pending.          *)
(*                                                                         *)
(* The replay table is modelled by what its linked lists stand for: one    *)
(* FIFO of requests per line, of which only the head has dependencies, and *)
(* at most one fence.  Round-robin arbiters are nondeterministic choices.  *)
(***************************************************************************)
EXTENDS Vbuf

CONSTANTS
    Tids,          \* transaction identifiers: requests in flight
    Ops,           \* operations the core uses, subset of AllOps
    Hints,         \* write-policy hints of loads, subset of {"WT","WB","AUTO"}
    WaysOf,        \* the ways of the set of each line
    Policy,        \* victim selection: "PLRU" or "RANDOM"
    MshrEntries, CbufEntries, RtabEntries, FlushEntries, RefillDepth,
    MemErrors,     \* TRUE if the memory may answer with an error
    V0,            \* contents of RAMs and registers at power up
    None           \* an empty pipeline stage

AllOps == {"LOAD", "STORE", "PREFETCH", "AMO"}

ASSUME HpdcacheAssumption ==
    /\ Ways \subseteq Nat /\ IsFiniteSet(Ways)
    /\ Ops \subseteq AllOps
    /\ Hints \subseteq {"WT", "WB", "AUTO"} /\ Hints # {}
    /\ WaysOf \in [Lines -> (SUBSET Ways) \ {{}}]
    /\ \A k, l \in Lines :
          WaysOf[k] = WaysOf[l] \/ WaysOf[k] \cap WaysOf[l] = {}
    /\ Policy \in {"PLRU", "RANDOM"}
    /\ {MshrEntries, CbufEntries, RtabEntries, FlushEntries, RefillDepth}
           \subseteq Nat \ {0}
    /\ MemErrors \in BOOLEAN
    /\ V0 \in Vals

VARIABLES
    dirty, wback, fetch,  \* directory bits: sets of ways
    plru,                 \* plru_q: set of ways
    st1,                  \* stage 1: None or [req, replay]
    st2,                  \* stage 2: None or a pending micro-operation
    waitq,                \* replay table: FIFO of requests per line
    deps,                 \* dependencies of the head of each FIFO
    fetchWay,             \* way_fetch of that head
    rtabErr,              \* error_q of that head
    popNext,              \* POP_TRY_NEXT: list whose next entry is replayed
    fence,                \* on-hold AMO: None or its request
    fencePend,            \* its pend_trans dependency
    mshr,                 \* outstanding misses
    fifo,                 \* refill responses waiting for the pipeline
    flush,                \* flush directory: line -> None or data being written
    uc,                   \* uncached handler: None or the AMO in progress
    issued,               \* history: tids accepted and not yet answered
    latest                \* history: newest contents of every line

ctrlVars == <<dirty, wback, fetch, plru, st1, st2, waitq, deps, fetchWay,
              rtabErr, popNext, fence, fencePend, mshr, fifo, flush, uc,
              issued, latest>>
dirVars == <<dirty, wback, fetch>>
rtabVars == <<waitq, deps, fetchWay, rtabErr, popNext, fence, fencePend>>
missVars == <<mshr, fifo>>
ramVars == <<tag, data, mem>>
hpdVars == <<vbufVars, ctrlVars>>

-----------------------------------------------------------------------------
(* Requests.                                                                 *)

\* Loads and prefetches carry no data; stores and AMOs write one word.
Requests ==
    [op : Ops \cap {"LOAD", "PREFETCH"}, line : Lines, hint : Hints,
     tid : Tids, word : {0}, val : {V0}]
    \cup
    [op : Ops \cap {"STORE", "AMO"}, line : Lines, hint : {"WB"},
     tid : Tids, word : BeatIdx, val : Vals]

\* st1_fence
IsFence(r) == r.op = "AMO"

\* a line with the word of r written into it
Merge(d, r) == [d EXCEPT ![r.word] = r.val]

-----------------------------------------------------------------------------
(* Directory lookup and victim selection.                                    *)

Lowest(S) == CHOOSE w \in S : \A v \in S : w <= v

HitWays(l) == {w \in Ways : tag[w] = l}
HitWay(l) == Lowest(HitWays(l))
Hit(l) == HitWays(l) # {}

\* Mutant of VictimWays: the replacement history is ignored.
VictimAny(l) == WaysOf[l] \ fetch

\* sel_victim_way_o: the possible victims for a miss on l, none when every
\* way of its set is being fetched (st1_dir_victim_unavailable)
VictimWays(l) ==
    LET free   == WaysOf[l] \ fetch
        unused == {w \in free : tag[w] = NoLine}
        old    == free \ plru
        clean  == free \ dirty
    IN  IF free = {} THEN {}
        ELSE IF unused # {} THEN {Lowest(unused)}
        ELSE IF Policy = "RANDOM" THEN free
        ELSE IF old # {} THEN {Lowest(old)}
        ELSE IF clean # {} THEN {Lowest(clean)}
        ELSE {Lowest(free)}

\* plru_d: way w of the set of line l is accessed
PlruUpdate(l, w) ==
    LET set == WaysOf[l] IN
    plru' = IF set \subseteq plru \cup {w} THEN (plru \ set) \cup {w}
            ELSE plru \cup {w}

-----------------------------------------------------------------------------
(* Status signals of the handlers.                                           *)

MshrHit(l) == \E m \in mshr : m.req.line = l
MshrFull == Cardinality(mshr) >= MshrEntries

\* mshr_alloc_ready_o: the miss FSM is idle
MshrReady == \A m \in mshr : m.phase # "send"

CbufFull == Cardinality({m \in mshr : m.dirty}) >= CbufEntries

FlushHit(l) == flush[l] # None

\* Mutant of FlushReady: one more entry than there are.
FlushReadyLate == Cardinality({l \in Lines : FlushHit(l)}) <= FlushEntries

FlushReady == Cardinality({l \in Lines : FlushHit(l)}) < FlushEntries
FlushEmpty == \A l \in Lines : ~FlushHit(l)

\* rtab_empty_o and full_o
RtabEmpty == fence = None /\ \A l \in Lines : waitq[l] = <<>>
RtabCount ==
    LET slots == {e \in Lines \X (1 .. RtabEntries) : e[2] <= Len(waitq[e[1]])}
    IN  Cardinality(slots) + (IF fence = None THEN 0 ELSE 1)
RtabFull == RtabCount >= RtabEntries

\* ready: heads without dependencies; pop_try_valid_o
ReplayLines ==
    IF popNext # NoLine THEN {popNext}
    ELSE {l \in Lines : waitq[l] # <<>> /\ deps[l] = {}}
FenceReady == popNext = NoLine /\ fence # None /\ ~fencePend
RtabValid == ReplayLines # {} \/ FenceReady

\* st2_empty; an allocation of the victim buffer is not counted
St2Empty == st2 # None => st2.op = "VBUF"

\* st1_no_pend_trans: the victim buffer is not among the handlers checked
NoPendTrans == St2Empty /\ RtabEmpty /\ mshr = {} /\ FlushEmpty

-----------------------------------------------------------------------------
(* Stage 0: arbitration between refills, replays and the core.               *)

\* Conditions shared by replays and core requests.
Stage0Free ==
    /\ st1 = None
    /\ St2Empty
    /\ fifo = <<>>
    /\ ~CapturePending

\* core_req_ready_o
AcceptCore ==
    /\ Stage0Free
    /\ ~RtabValid /\ ~RtabFull
    /\ fence = None \/ ~fencePend
    /\ uc = None
    /\ \E r \in Requests :
          /\ r.tid \notin issued
          /\ st1' = [req |-> r, replay |-> FALSE]
          /\ issued' = issued \cup {r.tid}
    /\ UNCHANGED <<vbufVars, dirVars, plru, st2, rtabVars, missVars, flush,
                   uc, latest>>

\* rtab_req_ready_o: the head of a list, or its next entry right after it
AcceptReplay(l) ==
    /\ Stage0Free
    /\ l \in ReplayLines
    /\ st1' = [req |-> Head(waitq[l]), replay |-> TRUE]
    /\ popNext' = IF Len(waitq[l]) > 1 THEN l ELSE NoLine
    /\ UNCHANGED <<vbufVars, dirVars, plru, st2, waitq, deps, fetchWay,
                   rtabErr, fence, fencePend, missVars, flush, uc, issued,
                   latest>>

AcceptFence ==
    /\ Stage0Free
    /\ FenceReady
    /\ st1' = [req |-> fence, replay |-> TRUE]
    /\ UNCHANGED <<vbufVars, dirVars, plru, st2, rtabVars, missVars, flush,
                   uc, issued, latest>>

-----------------------------------------------------------------------------
(* Outcomes of stage 1.                                                      *)

\* The request is put on hold with dependencies d: a new entry of the replay
\* table, or a roll-back of the replayed one (st1_rtab_rback_o).
OnHold(d, w) ==
    LET r == st1.req IN
    /\ waitq' = IF st1.replay THEN waitq
                ELSE [waitq EXCEPT ![r.line] = <<r>>]
    /\ deps' = [deps EXCEPT ![r.line] = d]
    /\ fetchWay' = [fetchWay EXCEPT ![r.line] = w]
    /\ popNext' = NoLine
    /\ UNCHANGED <<rtabErr, fence, fencePend>>

\* A fence is put on hold until nothing else is pending.
FenceOnHold ==
    /\ fence' = st1.req
    /\ fencePend' = TRUE
    /\ UNCHANGED <<waitq, deps, fetchWay, rtabErr, popNext>>

\* Mutant of Commit: an AMO is never removed from the replay table.
CommitKeepsFence ==
    LET l == st1.req.line IN
    IF ~st1.replay \/ IsFence(st1.req) THEN UNCHANGED rtabVars
    ELSE /\ waitq' = [waitq EXCEPT ![l] = Tail(@)]
         /\ deps' = [deps EXCEPT ![l] = {}]
         /\ rtabErr' = [rtabErr EXCEPT ![l] = FALSE]
         /\ UNCHANGED <<fetchWay, popNext, fence, fencePend>>

\* st1_rtab_commit_o: a replayed request leaves the replay table
Commit ==
    LET l == st1.req.line IN
    IF ~st1.replay THEN UNCHANGED rtabVars
    ELSE IF IsFence(st1.req)
    THEN /\ fence' = None
         /\ UNCHANGED <<waitq, deps, fetchWay, rtabErr, popNext, fencePend>>
    ELSE /\ waitq' = [waitq EXCEPT ![l] = Tail(@)]
         /\ deps' = [deps EXCEPT ![l] = {}]
         /\ rtabErr' = [rtabErr EXCEPT ![l] = FALSE]
         /\ UNCHANGED <<fetchWay, popNext, fence, fencePend>>

\* st1_rsp_valid_o
Respond(r) == issued' = issued \ {r.tid}

Stage1Ready == st1 # None /\ st2 = None

\* Conflict with an on-hold request (rtab_check_hit): queue behind it.
Linked(r) == ~st1.replay /\ ~IsFence(r) /\ waitq[r.line] # <<>>

\* The requester aborts a request that is not replayed.
Stage1Abort ==
    /\ Stage1Ready
    /\ ~st1.replay
    /\ Respond(st1.req)
    /\ st1' = None
    /\ UNCHANGED <<vbufVars, dirVars, plru, st2, rtabVars, missVars, flush,
                   uc, latest>>

\* A write miss whose refill failed is answered with an error.
Stage1Error ==
    /\ Stage1Ready
    /\ st1.replay /\ ~IsFence(st1.req) /\ rtabErr[st1.req.line]
    /\ Commit
    /\ Respond(st1.req)
    /\ st1' = None
    /\ UNCHANGED <<vbufVars, dirVars, plru, st2, missVars, flush, uc, latest>>

Stage1Link ==
    /\ Stage1Ready
    /\ Linked(st1.req)
    /\ waitq' = [waitq EXCEPT ![st1.req.line] = Append(@, st1.req)]
    /\ st1' = None
    /\ UNCHANGED <<vbufVars, dirVars, plru, st2, deps, fetchWay, rtabErr,
                   popNext, fence, fencePend, missVars, flush, uc, issued,
                   latest>>

\* Guard of the cacheable requests below.
Stage1Op(op) ==
    /\ Stage1Ready
    /\ st1.req.op = op
    /\ ~Linked(st1.req)
    /\ ~(st1.replay /\ ~IsFence(st1.req) /\ rtabErr[st1.req.line])

\* Stage 1 ends without touching the directory, the RAM or the response.
Stage1Hold(d, w) ==
    /\ OnHold(d, w)
    /\ st1' = None
    /\ UNCHANGED <<vbufVars, dirVars, plru, st2, missVars, flush, uc, issued,
                   latest>>

-----------------------------------------------------------------------------
(* Misses: from a free victim to an MSHR allocation.                         *)

\* Mutant of CaptureVictim: the victim buffer is never allocated.
CaptureVictimNoAlloc(w) ==
    /\ w \in dirty /\ ~SafeToOverwrite(tag[w])
    /\ OnHold({}, Lowest(Ways))
    /\ st2' = None
    /\ st1' = None
    /\ UNCHANGED <<vbufVars, dirVars, plru, missVars, flush, uc, issued,
                   latest>>

\* A dirty victim that has not been captured: the request is replayed without
\* dependencies, and the victim buffer is allocated if it is idle.
CaptureVictim(w) ==
    /\ w \in dirty /\ ~SafeToOverwrite(tag[w])
    /\ OnHold({}, Lowest(Ways))
    /\ st2' = IF AllocReady
              THEN [op |-> "VBUF", line |-> tag[w], way |-> w]
              ELSE None
    /\ st1' = None
    /\ UNCHANGED <<vbufVars, dirVars, plru, missVars, flush, uc, issued,
                   latest>>

\* Otherwise the way is reserved and the miss goes to stage 2.  A write miss
\* that finds the coalesce buffer full is replayed after the refill.
SendMiss(w, isDirty, isWback) ==
    LET replayWrite == isDirty /\ CbufFull IN
    /\ w \notin dirty \/ SafeToOverwrite(tag[w])
    /\ st2' = [op |-> "MISS",
               entry |-> [req |-> st1.req, way |-> w, need |-> ~replayWrite,
                          dirty |-> isDirty /\ ~replayWrite,
                          wback |-> isWback, phase |-> "send"],
               consume |-> w \in dirty]
    /\ IF replayWrite THEN OnHold({"write_miss"}, Lowest(Ways)) ELSE Commit
    /\ st1' = None
    /\ UNCHANGED <<vbufVars, dirVars, plru, missVars, flush, uc, issued,
                   latest>>

\* st2_mshr_alloc_wback_o of a load, with cfg_default_wb_i set
LoadWback(r) == r.hint \in {"WB", "AUTO"}

\* The line is served from the victim buffer (vbuf_fwd_rsp_valid_o).
LoadForward ==
    /\ Stage1Op("LOAD")
    /\ ~Hit(st1.req.line) /\ FwdHit(st1.req.line)
    /\ Commit
    /\ Respond(st1.req)
    /\ st1' = None
    /\ UNCHANGED <<vbufVars, dirVars, plru, st2, missVars, flush, uc, latest>>

\* Why a load or prefetch miss is put on hold, in the order of the checks.
LoadMissDep(l) ==
    IF CheckHit(l) THEN {"vbuf_hit"}
    ELSE IF MshrHit(l) THEN {"mshr_hit"}
    ELSE IF MshrFull THEN {"mshr_full"}
    ELSE IF VictimWays(l) = {} THEN {"dir_unavailable"}
    ELSE IF ~MshrReady THEN {"mshr_ready"}
    ELSE IF FlushHit(l) THEN {"flush_hit"}
    ELSE {}

LoadMiss(op) ==
    LET l == st1.req.line IN
    /\ Stage1Op(op)
    /\ ~Hit(l)
    /\ ~(op = "LOAD" /\ FwdHit(l))
    /\ \/ /\ LoadMissDep(l) # {}
          /\ Stage1Hold(LoadMissDep(l), Lowest(Ways))
       \/ /\ LoadMissDep(l) = {}
          /\ \E w \in VictimWays(l) :
                \/ CaptureVictim(w)
                \/ SendMiss(w, FALSE, LoadWback(st1.req))

\* A load hit with a write-through hint turns a write-back line into a clean
\* write-through one and flushes it, one with a write-back hint does the
\* opposite; a line waiting to be replaced only forwards its data.
LoadHit(op) ==
    LET r == st1.req
        w == HitWay(r.line)
        toWT == r.hint = "WT" /\ w \in wback
        toWB == r.hint = "WB" /\ w \notin wback
    IN
    /\ Stage1Op(op)
    /\ Hit(r.line)
    /\ \/ /\ toWT /\ w \in dirty /\ ~FlushReady
          /\ Stage1Hold({"flush_not_ready"}, w)
       \/ /\ ~(toWT /\ w \in dirty /\ ~FlushReady)
          /\ Commit
          /\ Respond(r)
          /\ PlruUpdate(r.line, w)
          /\ st2' = IF w \notin fetch /\ (toWT \/ toWB)
                    THEN [op |-> "DIR", way |-> w, line |-> r.line,
                          wback |-> toWB, dirty |-> FALSE,
                          flush |-> toWT /\ w \in dirty]
                    ELSE None
          /\ st1' = None
          /\ UNCHANGED <<vbufVars, dirVars, missVars, flush, uc, latest>>

\* Mutant of StoreDep: a line held by the victim buffer is not checked.
StoreDepNoVbuf(l) ==
    IF MshrHit(l) THEN {"mshr_hit"}
    ELSE IF FlushHit(l) THEN {"flush_hit"}
    ELSE IF Hit(l) THEN (IF HitWay(l) \in fetch THEN {"dir_fetch"} ELSE {})
    ELSE IF ~MshrReady THEN {"mshr_ready"}
    ELSE IF MshrFull THEN {"mshr_full"}
    ELSE IF VictimWays(l) = {} THEN {"dir_unavailable"}
    ELSE {}

\* Why a store is put on hold.
StoreDep(l) ==
    IF CheckHit(l) THEN {"vbuf_hit"}
    ELSE IF MshrHit(l) THEN {"mshr_hit"}
    ELSE IF FlushHit(l) THEN {"flush_hit"}
    ELSE IF Hit(l) THEN (IF HitWay(l) \in fetch THEN {"dir_fetch"} ELSE {})
    ELSE IF ~MshrReady THEN {"mshr_ready"}
    ELSE IF MshrFull THEN {"mshr_full"}
    ELSE IF VictimWays(l) = {} THEN {"dir_unavailable"}
    ELSE {}

StoreHold ==
    LET l == st1.req.line IN
    /\ Stage1Op("STORE")
    /\ StoreDep(l) # {}
    /\ Stage1Hold(StoreDep(l), IF Hit(l) THEN HitWay(l) ELSE Lowest(Ways))

\* Stores are always write-back (force_cacheable_store_wb).
StoreMiss ==
    /\ Stage1Op("STORE")
    /\ StoreDep(st1.req.line) = {} /\ ~Hit(st1.req.line)
    /\ \E w \in VictimWays(st1.req.line) :
          \/ CaptureVictim(w)
          \/ SendMiss(w, TRUE, TRUE)

\* Mutant of StoreHit: the dirty bit is not set on a write-back line.
StoreHitNoDirty ==
    LET r == st1.req
        w == HitWay(r.line)
    IN
    /\ Stage1Op("STORE")
    /\ StoreDep(r.line) = {} /\ Hit(r.line)
    /\ data' = [data EXCEPT ![w] = Merge(@, r)]
    /\ latest' = [latest EXCEPT ![r.line] = Merge(@, r)]
    /\ Commit
    /\ Respond(r)
    /\ PlruUpdate(r.line, w)
    /\ st2' = None
    /\ st1' = None
    /\ UNCHANGED <<vbufRegs, tag, mem, dirVars, missVars, flush, uc>>

\* The word is written in stage 1, the dirty bit is set in stage 2.
StoreHit ==
    LET r == st1.req
        w == HitWay(r.line)
    IN
    /\ Stage1Op("STORE")
    /\ StoreDep(r.line) = {} /\ Hit(r.line)
    /\ data' = [data EXCEPT ![w] = Merge(@, r)]
    /\ latest' = [latest EXCEPT ![r.line] = Merge(@, r)]
    /\ Commit
    /\ Respond(r)
    /\ PlruUpdate(r.line, w)
    /\ st2' = IF w \in wback /\ w \in dirty THEN None
              ELSE [op |-> "DIR", way |-> w, line |-> r.line,
                    wback |-> TRUE, dirty |-> TRUE, flush |-> FALSE]
    /\ st1' = None
    /\ UNCHANGED <<vbufRegs, tag, mem, dirVars, missVars, flush, uc>>

-----------------------------------------------------------------------------
(* Cacheable AMOs go to memory when nothing else is pending.                 *)

AmoHold ==
    /\ Stage1Op("AMO")
    /\ ~NoPendTrans /\ ~st1.replay
    /\ FenceOnHold
    /\ st1' = None
    /\ UNCHANGED <<vbufVars, dirVars, plru, st2, missVars, flush, uc, issued,
                   latest>>

\* A dirty hit is flushed first; the AMO is replayed after the flush.
AmoFlush ==
    LET w == HitWay(st1.req.line) IN
    /\ Stage1Op("AMO")
    /\ NoPendTrans \/ st1.replay
    /\ Hit(st1.req.line) /\ w \in dirty
    /\ FenceOnHold
    /\ PlruUpdate(st1.req.line, w)
    /\ st2' = [op |-> "DIR", way |-> w, line |-> st1.req.line,
               wback |-> w \in wback, dirty |-> FALSE, flush |-> TRUE]
    /\ st1' = None
    /\ UNCHANGED <<vbufVars, dirVars, missVars, flush, uc, issued, latest>>

\* uc_req_valid_o
AmoIssue ==
    LET l == st1.req.line IN
    /\ Stage1Op("AMO")
    /\ NoPendTrans \/ st1.replay
    /\ Hit(l) => HitWay(l) \notin dirty
    /\ uc' = [req |-> st1.req, way |-> HitWays(l), phase |-> "mem"]
    /\ Commit
    /\ IF Hit(l) THEN PlruUpdate(l, HitWay(l)) ELSE UNCHANGED plru
    /\ st1' = None
    /\ UNCHANGED <<vbufVars, dirVars, st2, missVars, flush, issued, latest>>

\* The memory performs the AMO, or answers with an error.
UcMem ==
    /\ uc # None /\ uc.phase = "mem"
    /\ LET l == uc.req.line IN
       \/ /\ mem' = [mem EXCEPT ![l] = Merge(@, uc.req)]
          /\ latest' = [latest EXCEPT ![l] = Merge(@, uc.req)]
          /\ uc' = [uc EXCEPT !.phase = "rsp"]
       \/ /\ MemErrors
          /\ uc' = [uc EXCEPT !.phase = "rsp", !.way = {}]
          /\ UNCHANGED <<mem, latest>>
    /\ UNCHANGED <<vbufRegs, tag, data, dirVars, plru, st1, st2, rtabVars,
                   missVars, flush, issued>>

\* UC_AMO_WRITE_DATA, then UC_CORE_RSP
UcDone ==
    /\ uc # None /\ uc.phase = "rsp"
    /\ data' = [w \in Ways |-> IF w \in uc.way THEN Merge(data[w], uc.req)
                               ELSE data[w]]
    /\ Respond(uc.req)
    /\ uc' = None
    /\ UNCHANGED <<vbufRegs, tag, mem, dirVars, plru, st1, st2, rtabVars,
                   missVars, flush, latest>>

\* deps_rst.pend_trans
FenceRelease ==
    /\ fence # None /\ fencePend
    /\ st1 = None /\ St2Empty /\ mshr = {} /\ FlushEmpty
    /\ \A l \in Lines : waitq[l] = <<>>
    /\ fencePend' = FALSE
    /\ UNCHANGED <<vbufVars, dirVars, plru, st1, st2, waitq, deps, fetchWay,
                   rtabErr, popNext, fence, missVars, flush, uc, issued,
                   latest>>

-----------------------------------------------------------------------------
(* Stage 2.                                                                  *)

\* alloc_i of the victim buffer, ignored unless it is idle
Stage2Vbuf ==
    /\ st2 # None /\ st2.op = "VBUF"
    /\ IF AllocReady THEN VbufAlloc(st2.line, st2.way) ELSE UNCHANGED vbufRegs
    /\ st2' = None
    /\ UNCHANGED <<ramVars, dirVars, plru, st1, rtabVars, missVars, flush, uc,
                   issued, latest>>

\* MSHR allocation, directory entry to FETCHING, safe_consume_i
Stage2Miss ==
    /\ st2 # None /\ st2.op = "MISS"
    /\ mshr' = mshr \cup {st2.entry}
    /\ dirty' = dirty \ {st2.entry.way}
    /\ fetch' = fetch \cup {st2.entry.way}
    /\ IF st2.consume THEN VbufSafeConsume ELSE UNCHANGED vbufRegs
    /\ st2' = None
    /\ UNCHANGED <<ramVars, wback, plru, st1, rtabVars, fifo, flush, uc,
                   issued, latest>>

\* Directory update of a hit; the flush controller reads the line
Stage2Dir ==
    LET w == st2.way IN
    /\ st2 # None /\ st2.op = "DIR"
    /\ wback' = IF st2.wback THEN wback \cup {w} ELSE wback \ {w}
    /\ dirty' = IF st2.dirty THEN dirty \cup {w} ELSE dirty \ {w}
    /\ flush' = IF st2.flush THEN [flush EXCEPT ![st2.line] = data[w]]
                ELSE flush
    /\ st2' = None
    /\ UNCHANGED <<vbufVars, fetch, plru, st1, rtabVars, missVars, uc, issued,
                   latest>>

-----------------------------------------------------------------------------
(* Miss handler.                                                             *)

\* MISS_REQ_SEND: the memory accepts the read
MissSend ==
    /\ \E m \in mshr :
          /\ m.phase = "send"
          /\ mshr' = (mshr \ {m}) \cup {[m EXCEPT !.phase = "mem"]}
    /\ deps' = [l \in Lines |-> deps[l] \ {"mshr_ready"}]
    /\ UNCHANGED <<vbufVars, dirVars, plru, st1, st2, waitq, fetchWay,
                   rtabErr, popNext, fence, fencePend, fifo, flush, uc,
                   issued, latest>>

\* The memory answers, in any order, while the refill FIFO has room.
MissResp ==
    /\ Len(fifo) < RefillDepth
    /\ \E m \in mshr, err \in BOOLEAN :
          /\ m.phase = "mem"
          /\ err => MemErrors
          /\ mshr' = (mshr \ {m}) \cup {[m EXCEPT !.phase = "resp"]}
          /\ fifo' = Append(fifo, [line |-> m.req.line, err |-> err,
                                   data |-> mem[m.req.line]])
    /\ UNCHANGED <<vbufVars, dirVars, plru, st1, st2, rtabVars, flush, uc,
                   issued, latest>>

\* Of the waiters, one, chosen by a round-robin arbiter, is granted.
Grants(waiters) == IF waiters = {} THEN {{}} ELSE {{l} : l \in waiters}

\* refill_i: dependencies the refill of line l in way w resolves
RefillWakeUp(l, w, err) ==
    /\ \E full \in Grants({k \in Lines : "mshr_full" \in deps[k]}),
          unav \in Grants({k \in Lines : /\ "dir_unavailable" \in deps[k]
                                         /\ WaysOf[k] = WaysOf[l]}) :
          deps' = [k \in Lines |->
                      deps[k] \ ((IF k = l THEN {"mshr_hit", "write_miss"}
                                  ELSE {}) \cup
                                 (IF fetchWay[k] = w THEN {"dir_fetch"}
                                  ELSE {}) \cup
                                 (IF k \in full THEN {"mshr_full"}
                                  ELSE {}) \cup
                                 (IF k \in unav THEN {"dir_unavailable"}
                                  ELSE {}))]
    /\ rtabErr' = [rtabErr EXCEPT ![l] = @ \/ (err /\ "write_miss" \in deps[l])]
    /\ UNCHANGED <<waitq, fetchWay, popNext, fence, fencePend>>

\* A refill freezes the pipeline, acknowledges the MSHR, writes the line with
\* the coalesced store, and writes the directory with its last beat.
Refill ==
    /\ fifo # <<>>
    /\ st1 = None /\ St2Empty
    /\ \E m \in mshr :
          LET l == Head(fifo).line
              w == m.way
              d == IF m.dirty THEN Merge(Head(fifo).data, m.req)
                   ELSE Head(fifo).data
              err == Head(fifo).err
          IN
          /\ m.req.line = l
          /\ mshr' = mshr \ {m}
          /\ fifo' = Tail(fifo)
          /\ fetch' = fetch \ {w}
          /\ IF err
             THEN /\ tag' = [tag EXCEPT ![w] = NoLine]
                  /\ dirty' = dirty \ {w}
                  /\ wback' = wback \ {w}
                  /\ UNCHANGED <<data, plru, latest>>
             ELSE /\ tag' = [tag EXCEPT ![w] = l]
                  /\ data' = [data EXCEPT ![w] = d]
                  /\ dirty' = IF m.dirty THEN dirty \cup {w} ELSE dirty \ {w}
                  /\ wback' = IF m.wback THEN wback \cup {w} ELSE wback \ {w}
                  /\ PlruUpdate(l, w)
                  /\ latest' = IF m.dirty
                               THEN [latest EXCEPT ![l] = Merge(@, m.req)]
                               ELSE latest
          /\ IF m.need THEN Respond(m.req) ELSE UNCHANGED issued
          /\ RefillWakeUp(l, w, err)
    /\ UNCHANGED <<vbufRegs, mem, st1, st2, flush, uc>>

-----------------------------------------------------------------------------
(* Write-backs.                                                              *)

\* Mutant of FlushAck: only requests for the flushed line are woken.
FlushAckHitOnly ==
    /\ \E l \in Lines :
          /\ FlushHit(l)
          /\ mem' = [mem EXCEPT ![l] = flush[l]]
          /\ flush' = [flush EXCEPT ![l] = None]
          /\ deps' = [deps EXCEPT ![l] = @ \ {"flush_hit"}]
    /\ UNCHANGED <<vbufRegs, tag, data, dirVars, plru, st1, st2, waitq,
                   fetchWay, rtabErr, popNext, fence, fencePend, missVars, uc,
                   issued, latest>>

\* The memory has written a flushed line and acknowledges it.
FlushAck ==
    /\ \E l \in Lines :
          /\ FlushHit(l)
          /\ mem' = [mem EXCEPT ![l] = flush[l]]
          /\ flush' = [flush EXCEPT ![l] = None]
          /\ deps' = [k \in Lines |->
                         deps[k] \ ({"flush_not_ready"} \cup
                                    (IF k = l THEN {"flush_hit"} ELSE {}))]
    /\ UNCHANGED <<vbufRegs, tag, data, dirVars, plru, st1, st2, waitq,
                   fetchWay, rtabErr, popNext, fence, fencePend, missVars, uc,
                   issued, latest>>

\* wb_done_fire also wakes the requests waiting for the line (vbuf_ack_i).
VbufDone ==
    /\ VbufMemResp
    /\ deps' = [deps EXCEPT ![nline] = @ \ {"vbuf_hit"}]
    /\ UNCHANGED <<dirVars, plru, st1, st2, waitq, fetchWay, rtabErr, popNext,
                   fence, fencePend, missVars, flush, uc, issued, latest>>

\* The remaining steps of the victim buffer.  Stage 1 takes one cycle and does
\* not see which of its states a captured entry is in, so it goes first.
VbufStep ==
    /\ st1 = None
    /\ \/ VbufRead
       \/ VbufCapture
       \/ VbufStartWriteBack
       \/ VbufMemReq
       \/ VbufMemData
    /\ UNCHANGED ctrlVars

-----------------------------------------------------------------------------
Init ==
    /\ state = "IDLE" /\ nline = NoLine /\ way = Lowest(Ways)
    /\ victim = [i \in BeatIdx |-> V0] /\ beat = 0
    /\ readAccept = FALSE /\ rdata = V0 /\ wbBeat = 0
    /\ safeValid = FALSE /\ safeNline = NoLine
    /\ snap = victim /\ burst = <<>>
    /\ tag = [w \in Ways |-> NoLine]
    /\ data = [w \in Ways |-> [i \in BeatIdx |-> V0]]
    /\ mem = [l \in Lines |-> [i \in BeatIdx |-> V0]]
    /\ dirty = {} /\ wback = {} /\ fetch = {} /\ plru = {}
    /\ st1 = None /\ st2 = None
    /\ waitq = [l \in Lines |-> <<>>]
    /\ deps = [l \in Lines |-> {}]
    /\ fetchWay = [l \in Lines |-> Lowest(Ways)]
    /\ rtabErr = [l \in Lines |-> FALSE]
    /\ popNext = NoLine
    /\ fence = None /\ fencePend = FALSE
    /\ mshr = {} /\ fifo = <<>>
    /\ flush = [l \in Lines |-> None]
    /\ uc = None
    /\ issued = {}
    /\ latest = mem

Stage1 ==
    \/ Stage1Abort \/ Stage1Error \/ Stage1Link
    \/ LoadForward
    \/ \E op \in {"LOAD", "PREFETCH"} : LoadMiss(op) \/ LoadHit(op)
    \/ StoreHold \/ StoreMiss \/ StoreHit
    \/ AmoHold \/ AmoFlush \/ AmoIssue

Stage2 == Stage2Vbuf \/ Stage2Miss \/ Stage2Dir

Next ==
    \/ AcceptCore \/ AcceptFence
    \/ \E l \in Lines : AcceptReplay(l)
    \/ Stage1
    \/ Stage2
    \/ UcMem \/ UcDone \/ FenceRelease
    \/ MissSend \/ MissResp \/ Refill
    \/ FlushAck
    \/ VbufDone
    \/ VbufStep

Spec == Init /\ [][Next]_hpdVars

\* A refill grants the request on hold for line l (round robin).
RefillGrants(l) ==
    /\ Refill
    /\ \E dep \in {"mshr_full", "dir_unavailable"} :
          dep \in deps[l] /\ dep \notin deps'[l]

\* The pipeline advances, and each handler and the memory serve it, in every
\* cycle; requests that are ready to be replayed and requests waiting for a
\* refill are served in round-robin order.
Fairness ==
    /\ WF_hpdVars(Stage1 \/ Stage2 \/ AcceptFence \/ FenceRelease)
    /\ WF_hpdVars(UcMem \/ UcDone)
    /\ WF_hpdVars(MissSend \/ MissResp) /\ SF_hpdVars(Refill)
    /\ WF_hpdVars(FlushAck)
    /\ WF_hpdVars(VbufDone) /\ SF_hpdVars(VbufStep)
    /\ \A l \in Lines : SF_hpdVars(AcceptReplay(l)) /\ SF_hpdVars(RefillGrants(l))

FairSpec == Spec /\ Fairness

-----------------------------------------------------------------------------
(* Properties.                                                               *)

Deps == {"vbuf_hit", "mshr_hit", "mshr_full", "mshr_ready", "write_miss",
         "dir_unavailable", "dir_fetch", "flush_hit", "flush_not_ready"}

\* Stage 1, the entries of the MSHR, and the micro-operations of stage 2.
Stage1Ops == [req : Requests, replay : BOOLEAN]
Misses == [req : Requests, way : Ways, need : BOOLEAN, dirty : BOOLEAN,
           wback : BOOLEAN, phase : {"send", "mem", "resp"}]
Stage2Ops ==
    [op : {"VBUF"}, line : Lines, way : Ways]
    \cup [op : {"MISS"}, entry : Misses, consume : BOOLEAN]
    \cup [op : {"DIR"}, way : Ways, line : Lines, wback : BOOLEAN,
          dirty : BOOLEAN, flush : BOOLEAN]
Refills == [line : Lines, err : BOOLEAN, data : LineData]
Uncached == [req : Requests, way : SUBSET Ways, phase : {"mem", "rsp"}]

\* An empty stage or entry is told from a full one by its valid bit.
ASSUME NoneAssumption ==
    None \notin LineData \cup Requests \cup Stage1Ops \cup Stage2Ops \cup Uncached

\* Every variable holds a value of its type.
TypeOK ==
    /\ VbufTypeOK
    /\ dirty \subseteq Ways /\ wback \subseteq Ways /\ fetch \subseteq Ways
    /\ plru \subseteq Ways
    /\ st1 \in Stage1Ops \cup {None}
    /\ st2 \in Stage2Ops \cup {None}
    /\ waitq \in [Lines -> Seq(Requests)]
    /\ deps \in [Lines -> SUBSET Deps]
    /\ fetchWay \in [Lines -> Ways]
    /\ rtabErr \in [Lines -> BOOLEAN]
    /\ popNext \in Lines \cup {NoLine}
    /\ fence \in Requests \cup {None}
    /\ fencePend \in BOOLEAN
    /\ mshr \subseteq Misses
    /\ fifo \in Seq(Refills)
    /\ flush \in [Lines -> LineData \cup {None}]
    /\ uc \in Uncached \cup {None}
    /\ issued \subseteq Tids
    /\ latest \in [Lines -> LineData]

\* The directory, the MSHR and the victim buffer agree: a line is in one way
\* at most, a way is in state FETCHING exactly while one outstanding miss owns
\* it, and a line being fetched has no copy on its way to memory.
DirectoryConsistent ==
    /\ \A v, w \in Ways : tag[v] = tag[w] /\ tag[v] # NoLine => v = w
    /\ dirty \cap fetch = {}
    /\ \A w \in dirty : tag[w] # NoLine
    /\ fetch = {m.way : m \in mshr}
    /\ \A m, n \in mshr :
          m.way = n.way \/ m.req.line = n.req.line => m = n
    /\ \A m \in mshr :
          /\ ~Hit(m.req.line)
          /\ ~CheckHit(m.req.line)
          /\ ~FlushHit(m.req.line)

\* What stage 1 has promised a table and is not written there yet.
MissPending  == IF st2 # None /\ st2.op = "MISS" THEN {st2.entry} ELSE {}
FlushPending == IF st2 # None /\ st2.op = "DIR" /\ st2.flush THEN {st2.line} ELSE {}
RtabPending  == IF st1 # None /\ ~st1.replay THEN 1 ELSE 0

\* No table is written beyond its size, and no line is flushed twice at once.
\* The space is checked before it is used: that of the MSHR, the coalesce
\* buffer and the flush directory in stage 1 (an AMO does not check it at all),
\* that of the replay table when the core's request is accepted.
TablesBounded ==
    /\ Len(fifo) <= RefillDepth
    /\ Cardinality(mshr \cup MissPending) <= MshrEntries
    /\ Cardinality({m \in mshr \cup MissPending : m.dirty}) <= CbufEntries
    /\ Cardinality({l \in Lines : FlushHit(l)} \cup FlushPending) <= FlushEntries
    /\ \A l \in FlushPending : ~FlushHit(l)
    /\ RtabCount + RtabPending <= RtabEntries
    /\ \A l \in Lines : Len(waitq[l]) <= RtabEntries

\* A load returns the last store: a cached line, even one waiting to be
\* replaced, holds the newest data, and so does the copy that the victim buffer
\* forwards.
LoadsSeeLatest ==
    /\ \A w \in Ways : tag[w] # NoLine => data[w] = latest[tag[w]]
    /\ \A l \in Lines : FwdHit(l) => victim = latest[l]

\* The newest contents of a line are in a dirty way (or one about to be
\* marked dirty), in the victim buffer, in a flush, or in memory.
NoLostStore ==
    \A l \in Lines :
        \/ mem[l] = latest[l]
        \/ \E w \in HitWays(l) :
              w \in dirty \/ (st2 # None /\ st2.op = "DIR" /\ st2.way = w)
        \/ CheckHit(l)
        \/ FlushHit(l)

\* The places that hold accepted requests, each with its transaction: stage 1
\* (a replayed request stays in the replay table), a miss in stage 2, the lists
\* and the fence of the replay table, the MSHR and the uncached handler.
Held ==
    LET On(cond, place, r) == IF cond THEN {<<place, NoLine, 0, r.tid>>} ELSE {}
    IN
    On(st1 # None /\ ~st1.replay, "stage1", st1.req)
    \cup On(st2 # None /\ st2.op = "MISS" /\ st2.entry.need, "stage2", st2.entry.req)
    \cup (UNION {{<<"rtab", l, i, waitq[l][i].tid>> : i \in DOMAIN waitq[l]} :
                    l \in Lines})
    \cup On(fence # None, "fence", fence)
    \cup {<<"mshr", m.req.line, 0, m.req.tid>> : m \in {n \in mshr : n.need}}
    \cup On(uc # None, "uc", uc.req)

\* An accepted request is in exactly one place until it is answered, and no
\* other one is in flight with its identifier.
RequestConservation ==
    /\ issued = {h[4] : h \in Held}
    /\ \A g, h \in Held : g[4] = h[4] => g = h

\* A list of the replay table whose head will miss when it is replayed, and
\* then brings about a refill.
WillMiss(k) ==
    waitq[k] # <<>> /\ ~rtabErr[k] /\ ~Hit(k) /\ ~CheckHit(k)

\* Dependencies that a refill resolves for one request only, chosen by a
\* round-robin arbiter.
Arbitrated == {"mshr_full", "dir_unavailable"}

\* A miss on line l is between stage 1 and the MSHR.
MissInStage2(l) == st2 # None /\ st2.op = "MISS" /\ st2.entry.req.line = l

\* A refill is still to come, of any set or of the set of line l: a miss is
\* outstanding, or one will be, by a request that does not wait for a refill.
RefillComes ==
    \/ mshr # {}
    \/ \E k \in Lines :
          MissInStage2(k) \/ (WillMiss(k) /\ deps[k] \cap Arbitrated = {})
RefillOfSetComes(l) ==
    \/ fetch \cap WaysOf[l] # {}
    \/ \E k \in Lines :
          /\ WaysOf[k] = WaysOf[l]
          /\ MissInStage2(k) \/ (WillMiss(k) /\ "dir_unavailable" \notin deps[k])

\* No lost wake-up: the event every on-hold request waits for is still to
\* come, although it is only signalled once (pulses of refill_i, flush_ack_i,
\* vbuf_ack_i).  A request that was not chosen by the arbiter of a refill may
\* find no miss outstanding: then one that was chosen will bring about the next.
WaitersHaveCause ==
    \A l \in Lines :
        /\ deps[l] # {} => waitq[l] # <<>>
        /\ "vbuf_hit" \in deps[l] => CheckHit(l)
        /\ "mshr_hit" \in deps[l] => MshrHit(l)
        /\ "write_miss" \in deps[l] => MshrHit(l) \/ MissInStage2(l)
        /\ "mshr_full" \in deps[l] => RefillComes
        /\ "dir_unavailable" \in deps[l] => RefillOfSetComes(l)
        /\ "dir_fetch" \in deps[l] => fetchWay[l] \in fetch
        /\ "mshr_ready" \in deps[l] => ~MshrReady
        /\ "flush_hit" \in deps[l] => FlushHit(l)
        /\ "flush_not_ready" \in deps[l] => ~FlushReady

\* A dirty way is handed to a miss only if its contents are safe: captured by
\* the victim buffer or already in memory.
DirtyVictimCaptured ==
    [][\A w \in Ways :
          w \in dirty /\ w \in fetch' =>
              \/ Captured /\ nline = tag[w] /\ victim = data[w]
              \/ mem[tag[w]] = data[w]]_hpdVars

\* An AMO is issued only when no other transaction is pending.
NoPendingTransactionUnderUncached ==
    uc # None => mshr = {} /\ FlushEmpty /\ RtabEmpty /\ AllocReady

\* Every accepted request is answered (or aborted by its requester).
EveryRequestAnswered ==
    \A t \in Tids : t \in issued ~> t \notin issued

=============================================================================
