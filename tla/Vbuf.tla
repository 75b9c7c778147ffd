-------------------------------- MODULE Vbuf --------------------------------
(***************************************************************************)
(* The single-entry victim buffer of the data cache (hpdcache_vbuf.sv) in  *)
(* the configuration the cache instantiates, "replacement owner" mode      *)
(* (hpdcache.sv: VBUF_REPLACEMENT_OWNER_EN = 1): it copies a dirty victim  *)
(* line out of the data RAM beat by beat, tells the controller that the    *)
(* way may be overwritten, and writes the copy back to memory.             *)
(*                                                                         *)
(* An action is one thing that happens in one clock cycle; two actions the *)
(* hardware performs in the same cycle touch different registers and are   *)
(* interleaved.  The last section is the rest of the cache as the buffer   *)
(* sees it: the ways of the data RAM, which stores and refills change.     *)
(* Hpdcache.tla extends this module with the controller itself and shows   *)
(* that it stays within that environment.                                  *)
(***************************************************************************)
EXTENDS Integers, Sequences, FiniteSets

CONSTANTS
    Lines,   \* cache lines (hpdcache_nline_t) competing for one cache set
    Ways,    \* ways of that set
    Beats,   \* VbufLineBeats: RAM accesses needed for one line
    Vals,    \* contents of one beat
    NoLine   \* tag of an invalid way

ASSUME VbufAssumption ==
    /\ Beats \in Nat \ {0}
    /\ Ways # {} /\ Vals # {}
    /\ NoLine \notin Lines

VARIABLES
    state,      \* state_q
    nline,      \* nline_q
    way,        \* way_q
    victim,     \* victim_line_q
    beat,       \* beat_count_q
    readAccept, \* data_read_accept_q: a RAM read was accepted last cycle
    rdata,      \* output register of the data RAM for that read
    wbBeat,     \* wb_beat_count_q
    safeValid,  \* safe_valid_q
    safeNline,  \* safe_nline_q
    snap,       \* history: contents of the last victim when it was allocated
    burst,      \* beats of the current write the memory has received
    tag,        \* directory: the line held by each way, or NoLine
    data,       \* data RAM
    mem         \* next memory level

vbufRegs == <<state, nline, way, victim, beat, readAccept, rdata, wbBeat,
              safeValid, safeNline, snap, burst>>
vbufVars == <<state, nline, way, victim, beat, readAccept, rdata, wbBeat,
              safeValid, safeNline, snap, burst, tag, data, mem>>

BeatIdx == 0 .. Beats - 1
LineData == [BeatIdx -> Vals]
VbufStates == {"IDLE", "CAPTURE", "READY", "MEM_REQ", "MEM_DATA", "WAIT_RESP"}

-----------------------------------------------------------------------------
(* Outputs of the buffer.  valid_q is set exactly when the FSM leaves IDLE   *)
(* and cleared exactly when it returns there.                                *)

valid == state # "IDLE"

\* alloc_ready_o
AllocReady == state = "IDLE"

\* capture_pending_o: blocks the pipeline's stage 0
CapturePending == state = "CAPTURE"

\* Mutant of CheckHit: the line is protected only while it is captured.
CheckHitCapturing(l) == state = "CAPTURE" /\ nline = l

\* check_hit_o (a write-back completing in the same cycle is MemResp first)
CheckHit(l) == valid /\ nline = l

\* the line is in the buffer in full: fwd_entry_valid
Captured == state \notin {"IDLE", "CAPTURE"}

\* fwd_hit_o
FwdHit(l) == Captured /\ nline = l

\* safe_to_overwrite_o qualified by safe_nline_o
SafeToOverwrite(l) == safeValid /\ safeNline = l

-----------------------------------------------------------------------------
(* Operations of the buffer.                                                 *)

\* alloc_i accepted in VBUF_IDLE
VbufAlloc(l, w) ==
    /\ AllocReady
    /\ state' = "CAPTURE"
    /\ nline' = l
    /\ way' = w
    /\ beat' = 0
    /\ snap' = data[w]
    /\ UNCHANGED <<victim, readAccept, rdata, wbBeat, safeValid, safeNline,
                   burst>>

\* Mutant of VbufRead: the word offset of the read is not advanced.
VbufReadFirstBeat ==
    /\ state = "CAPTURE"
    /\ ~readAccept
    /\ readAccept' = TRUE
    /\ rdata' = data[way][0]
    /\ UNCHANGED <<state, nline, way, victim, beat, wbBeat, safeValid,
                   safeNline, snap, burst, tag, data, mem>>

\* data_read_o granted by the RAM arbiter; one read is outstanding at a time
VbufRead ==
    /\ state = "CAPTURE"
    /\ ~readAccept
    /\ readAccept' = TRUE
    /\ rdata' = data[way][beat]
    /\ UNCHANGED <<state, nline, way, victim, beat, wbBeat, safeValid,
                   safeNline, snap, burst, tag, data, mem>>

\* Mutant of CaptureLastBeat: one beat too many.
CaptureExtraBeat == beat = Beats

\* capture_last_beat
CaptureLastBeat == beat = Beats - 1

\* Mutant of VbufCapture: the safe flag is raised by the first beat.
VbufCaptureEarlySafe ==
    /\ state = "CAPTURE"
    /\ readAccept
    /\ readAccept' = FALSE
    /\ victim' = [victim EXCEPT ![beat] = rdata]
    /\ safeValid' = TRUE
    /\ safeNline' = nline
    /\ state' = IF CaptureLastBeat THEN "READY" ELSE state
    /\ beat' = IF CaptureLastBeat THEN beat ELSE beat + 1
    /\ UNCHANGED <<nline, way, rdata, wbBeat, snap, burst, tag, data, mem>>

\* capture_fire: the cycle after an accepted read
VbufCapture ==
    /\ state = "CAPTURE"
    /\ readAccept
    /\ readAccept' = FALSE
    /\ victim' = [victim EXCEPT ![beat] = rdata]
    /\ \/ /\ CaptureLastBeat
          /\ state' = "READY"
          /\ safeValid' = TRUE
          /\ safeNline' = nline
          /\ UNCHANGED beat
       \/ /\ ~CaptureLastBeat
          /\ beat' = beat + 1
          /\ UNCHANGED <<state, safeValid, safeNline>>
    /\ UNCHANGED <<nline, way, rdata, wbBeat, snap, burst, tag, data, mem>>

\* VBUF_READY: wb_enable_i is tied to 1
VbufStartWriteBack ==
    /\ state = "READY"
    /\ state' = "MEM_REQ"
    /\ wbBeat' = 0
    /\ UNCHANGED <<nline, way, victim, beat, readAccept, rdata, safeValid,
                   safeNline, snap, burst, tag, data, mem>>

\* VBUF_MEM_REQ: the write arbiter accepts the request
VbufMemReq ==
    /\ state = "MEM_REQ"
    /\ state' = "MEM_DATA"
    /\ UNCHANGED <<nline, way, victim, beat, readAccept, rdata, wbBeat,
                   safeValid, safeNline, snap, burst, tag, data, mem>>

\* Mutant of WbLastBeat: the burst ends one beat early.
WbShortBurst == wbBeat + 1 = Beats - 1

\* wb_last_beat
WbLastBeat == wbBeat = Beats - 1

\* wb_data_fire: the write arbiter accepts one beat
VbufMemData ==
    /\ state = "MEM_DATA"
    /\ burst' = Append(burst, victim[wbBeat])
    /\ \/ /\ WbLastBeat
          /\ state' = "WAIT_RESP"
          /\ wbBeat' = 0
       \/ /\ ~WbLastBeat
          /\ wbBeat' = wbBeat + 1
          /\ UNCHANGED state
    /\ UNCHANGED <<nline, way, victim, beat, readAccept, rdata, safeValid,
                   safeNline, snap, tag, data, mem>>

\* wb_done_fire: the entry is freed, the safe flag is left alone
VbufRelease ==
    /\ state = "WAIT_RESP"
    /\ state' = "IDLE"
    /\ wbBeat' = 0
    /\ readAccept' = FALSE
    /\ burst' = <<>>
    /\ UNCHANGED <<nline, way, victim, beat, rdata, safeValid, safeNline,
                   snap>>

\* safe_consume_i
VbufSafeConsume ==
    /\ safeValid' = FALSE
    /\ UNCHANGED <<state, nline, way, victim, beat, readAccept, rdata, wbBeat,
                   safeNline, snap, burst>>

\* the memory has written the burst and acknowledges it
VbufMemResp ==
    /\ VbufRelease
    /\ mem' = [mem EXCEPT ![nline] = [i \in BeatIdx |-> burst[i + 1]]]
    /\ UNCHANGED <<tag, data>>

-----------------------------------------------------------------------------
(* The rest of the cache, as the buffer relies on it.                        *)

Cached(l) == \E w \in Ways : tag[w] = l

\* A line is chosen as victim only while it is cached and not flagged safe.
EnvAlloc ==
    \E w \in Ways :
        /\ tag[w] # NoLine
        /\ ~SafeToOverwrite(tag[w])
        /\ VbufAlloc(tag[w], w)
        /\ UNCHANGED <<tag, data, mem>>

\* A store writes the data RAM only for lines the buffer does not hold.
EnvStore ==
    \E w \in Ways, b \in BeatIdx, v \in Vals :
        /\ tag[w] # NoLine
        /\ ~CheckHit(tag[w])
        /\ data' = [data EXCEPT ![w][b] = v]
        /\ UNCHANGED <<vbufRegs, tag, mem>>

\* A refill brings in a line that is neither cached nor in the buffer, and
\* never lands in the way that is being captured.
EnvRefill ==
    \E w \in Ways, l \in Lines, d \in LineData :
        /\ ~Cached(l)
        /\ ~CheckHit(l)
        /\ ~(state = "CAPTURE" /\ way = w)
        /\ tag' = [tag EXCEPT ![w] = l]
        /\ data' = [data EXCEPT ![w] = d]
        /\ UNCHANGED <<vbufRegs, mem>>

\* A failed refill or an invalidation drops a line.
EnvInvalidate ==
    \E w \in Ways :
        /\ ~(state = "CAPTURE" /\ way = w)
        /\ tag' = [tag EXCEPT ![w] = NoLine]
        /\ UNCHANGED <<vbufRegs, data, mem>>

\* The way of a captured victim is reserved for a refill.
EnvConsume == VbufSafeConsume /\ UNCHANGED <<tag, data, mem>>

\* Other writers of the memory (flush controller, uncached requests).
EnvMemWrite ==
    \E l \in Lines, d \in LineData :
        /\ mem' = [mem EXCEPT ![l] = d]
        /\ UNCHANGED <<vbufRegs, tag, data>>

VbufInit ==
    /\ state = "IDLE"
    /\ nline \in Lines \cup {NoLine}
    /\ way \in Ways
    /\ victim \in LineData
    /\ beat = 0
    /\ readAccept = FALSE
    /\ rdata \in Vals
    /\ wbBeat = 0
    /\ safeValid = FALSE
    /\ safeNline \in Lines \cup {NoLine}
    /\ snap = victim
    /\ burst = <<>>
    /\ tag = [w \in Ways |-> NoLine]
    /\ data \in [Ways -> LineData]
    /\ mem \in [Lines -> LineData]

VbufNext ==
    \/ VbufRead
    \/ VbufCapture
    \/ VbufStartWriteBack
    \/ VbufMemReq
    \/ VbufMemData
    \/ VbufMemResp
    \/ EnvAlloc
    \/ EnvStore
    \/ EnvRefill
    \/ EnvInvalidate
    \/ EnvConsume
    \/ EnvMemWrite

VbufSpec == VbufInit /\ [][VbufNext]_vbufVars

-----------------------------------------------------------------------------
(* Properties.                                                               *)

\* Every register holds a value of its type.
VbufTypeOK ==
    /\ state \in VbufStates
    /\ nline \in Lines \cup {NoLine}
    /\ valid => nline \in Lines
    /\ way \in Ways
    /\ victim \in LineData
    /\ beat \in BeatIdx
    /\ readAccept \in BOOLEAN
    /\ rdata \in Vals
    /\ wbBeat \in BeatIdx
    /\ safeValid \in BOOLEAN
    /\ safeNline \in Lines \cup {NoLine}
    /\ snap \in LineData
    /\ burst \in Seq(Vals)
    /\ tag \in [Ways -> Lines \cup {NoLine}]
    /\ data \in [Ways -> LineData]
    /\ mem \in [Lines -> LineData]

\* While the victim is being captured (capture_pending_o) its way keeps the
\* line and the contents it had at allocation, the beats copied so far are
\* those contents, and the read in flight returns the next of them.
CaptureConsistent ==
    /\ state = "CAPTURE" =>
           /\ tag[way] = nline
           /\ data[way] = snap
           /\ \A i \in BeatIdx : i < beat => victim[i] = snap[i]
    /\ readAccept => state = "CAPTURE" /\ rdata = snap[beat]

\* Once captured, the entry is the victim as it was at allocation, and any
\* way that still holds the line agrees with it: a load served by the data
\* RAM and one served by VBUF forwarding (fwd_data_o) see the same data.
CapturedCopyAgrees ==
    Captured =>
        /\ victim = snap
        /\ \A w \in Ways : tag[w] = nline => data[w] = victim

\* The beats handed to the memory are the victim's, each once and in order,
\* and the acknowledged burst is complete.
BurstFollowsVictim ==
    /\ state \notin {"MEM_DATA", "WAIT_RESP"} => burst = <<>>
    /\ state \in {"MEM_REQ", "MEM_DATA"} => Len(burst) = wbBeat
    /\ state = "WAIT_RESP" => Len(burst) = Beats
    /\ \A i \in 1 .. Len(burst) : i <= Beats /\ burst[i] = victim[i - 1]

\* A line is in one way at most, and a new victim is never chosen while its
\* previous capture is still flagged as safe to overwrite.
NoStaleSafeFlag ==
    /\ \A v, w \in Ways : tag[v] = tag[w] /\ tag[v] # NoLine => v = w
    /\ state = "CAPTURE" => ~SafeToOverwrite(nline)

\* The step that frees the entry (wb_done_fire) leaves in memory exactly the
\* line that was evicted.
WriteBackIsVictim ==
    [][state = "WAIT_RESP" /\ state' = "IDLE" => mem'[nline] = snap]_vbufVars

=============================================================================
