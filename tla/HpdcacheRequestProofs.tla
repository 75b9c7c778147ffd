----------------------- MODULE HpdcacheRequestProofs -----------------------
(***************************************************************************)
(* Proofs about the requests of the write-back cache, with any operations: *)
(* each accepted request is in one place until it is answered, what an     *)
(* on-hold request waits for is still to come, an AMO runs alone but for   *)
(* the victim buffer, and no table is written beyond its size.             *)
(***************************************************************************)
EXTENDS HpdcacheProofs, FiniteSetTheorems

-----------------------------------------------------------------------------
(* What becomes of the request in stage 1.                                   *)

\* No miss goes to stage 2.
NoMissSent == st2' = None \/ st2'.op # "MISS"

\* A miss for the request goes to stage 2; need tells who answers it.
MissSent(need) ==
    /\ st2' # None /\ st2'.op = "MISS"
    /\ st2'.entry.req = st1.req /\ st2'.entry.need = need
    /\ st2'.entry.way \in WaysOf[st1.req.line]

\* The line of the request is neither cached, held nor being fetched.
Absent(l) == ~Hit(l) /\ ~CheckHit(l) /\ ~MshrHit(l)

\* What a request put on hold with dependencies d waits for.
HoldCause(d, w) ==
    LET l == st1.req.line IN
    \/ d = {}
    \/ d = {"vbuf_hit"} /\ CheckHit(l)
    \/ d = {"mshr_hit"} /\ MshrHit(l)
    \/ d = {"mshr_full"} /\ MshrFull /\ Absent(l)
    \/ d = {"dir_unavailable"} /\ VictimWays(l) = {} /\ Absent(l)
    \/ d = {"mshr_ready"} /\ ~MshrReady
    \/ d = {"flush_hit"} /\ FlushHit(l)
    \/ d = {"dir_fetch"} /\ w \in fetch
    \/ d = {"flush_not_ready"} /\ ~FlushReady

\* The request is answered, and leaves the replay table if it was there.
Answered ==
    LET l == st1.req.line IN
    /\ Commit /\ Respond(st1.req) /\ NoMissSent /\ uc' = uc
    /\ st1.replay => ~IsFence(st1.req) /\ (rtabErr[l] \/ Hit(l) \/ CheckHit(l))

\* The guard of the requests that go on hold or miss.
Proceeds ==
    LET r == st1.req IN
    ~IsFence(r) /\ ~Linked(r) /\ (st1.replay => ~rtabErr[r.line])

\* The request stays in, or enters, the replay table.
KeptOnHold ==
    /\ Proceeds /\ UNCHANGED <<issued, uc>>
    /\ \E d \in SUBSET Deps, w \in Ways :
          /\ OnHold(d, w)
          /\ \/ HoldCause(d, w) /\ NoMissSent
             \/ d = {"write_miss"} /\ MissSent(FALSE)

\* The request goes to the MSHR, which will answer it.
HandedOver == Proceeds /\ Commit /\ MissSent(TRUE) /\ UNCHANGED <<issued, uc>>

QueuedBehind ==
    /\ Linked(st1.req) /\ NoMissSent /\ UNCHANGED <<issued, uc>>
    /\ waitq' = [waitq EXCEPT ![st1.req.line] = Append(@, st1.req)]
    /\ UNCHANGED <<deps, fetchWay, rtabErr, popNext, fence, fencePend>>

FenceKept ==
    /\ IsFence(st1.req) /\ FenceOnHold
    /\ NoMissSent /\ UNCHANGED <<issued, uc>>

FenceIssued ==
    /\ IsFence(st1.req) /\ Commit /\ (NoPendTrans \/ st1.replay)
    /\ st2' = None /\ issued' = issued
    /\ uc' # None /\ uc'.req = st1.req

RequestOutcome ==
    \/ Answered \/ KeptOnHold \/ HandedOver
    \/ QueuedBehind \/ FenceKept \/ FenceIssued

\* A victim is a way of the set of the line.
LEMMA VictimOfSet ==
    ASSUME NEW l \in Lines, NEW w \in VictimWays(l)
    PROVE  w \in WaysOf[l]
<1> DEFINE free == WaysOf[l] \ fetch
           unused == {v \in free : tag[v] = NoLine}
<1>1. free \subseteq Ways
  BY HpdcacheAssumption
<1>2. \/ unused # {} /\ w = Lowest(unused)
      \/ w \in free
      \/ free \ plru # {} /\ w = Lowest(free \ plru)
      \/ free \ dirty # {} /\ w = Lowest(free \ dirty)
      \/ free # {} /\ w = Lowest(free)
  BY DEF VictimWays
<1>3. unused # {} => Lowest(unused) \in unused
  BY <1>1, LowestIn
<1>4. free \ plru # {} => Lowest(free \ plru) \in free
  BY <1>1, LowestIn
<1>5. free \ dirty # {} => Lowest(free \ dirty) \in free
  BY <1>1, LowestIn
<1>6. free # {} => Lowest(free) \in free
  BY <1>1, LowestIn
<1> QED
  BY <1>2, <1>3, <1>4, <1>5, <1>6

\* There is no victim only if the whole set is being fetched.
LEMMA NoVictim ==
    ASSUME NEW l \in Lines, VictimWays(l) = {}
    PROVE  WaysOf[l] \subseteq fetch /\ WaysOf[l] # {}
BY HpdcacheAssumption DEF VictimWays

\* The checks of a load or prefetch miss, and of a store.
LEMMA LoadCause ==
    ASSUME ~Hit(st1.req.line), LoadMissDep(st1.req.line) # {}, NEW w
    PROVE  HoldCause(LoadMissDep(st1.req.line), w)
BY DEF LoadMissDep, HoldCause, Absent

LEMMA StoreCause ==
    ASSUME StoreDep(st1.req.line) # {}, NEW w,
           Hit(st1.req.line) => w = HitWay(st1.req.line)
    PROVE  HoldCause(StoreDep(st1.req.line), w)
BY DEF StoreDep, HoldCause, Absent

\* A miss with a victim ends in a capture, a write-miss hold or a hand-over.
LEMMA MissOutcome ==
    ASSUME TypeOK, Stage1Ready, Proceeds,
           NEW w \in WaysOf[st1.req.line], NEW isDirty \in BOOLEAN,
           NEW isWback \in BOOLEAN,
           CaptureVictim(w) \/ SendMiss(w, isDirty, isWback)
    PROVE  RequestOutcome
<1>1. CASE CaptureVictim(w)
  <2>1. OnHold({}, Lowest(Ways)) /\ UNCHANGED <<issued, uc>>
    BY <1>1 DEF CaptureVictim
  <2>2. NoMissSent
    BY <1>1 DEF CaptureVictim, NoMissSent
  <2>3. HoldCause({}, Lowest(Ways)) /\ {} \in SUBSET Deps
    BY DEF HoldCause
  <2> QED
    BY <2>1, <2>2, <2>3, WaysType DEF RequestOutcome, KeptOnHold
<1>2. CASE SendMiss(w, isDirty, isWback)
  <2>1. UNCHANGED <<issued, uc>>
    BY <1>2 DEF SendMiss
  <2>2. st2' = [op |-> "MISS",
                entry |-> [req |-> st1.req, way |-> w,
                           need |-> ~(isDirty /\ CbufFull),
                           dirty |-> isDirty /\ ~(isDirty /\ CbufFull),
                           wback |-> isWback, phase |-> "send"],
                consume |-> w \in dirty]
    BY <1>2 DEF SendMiss
  <2>3. st2' # None
    <3>1. /\ st1.req \in Requests /\ w \in Ways
          /\ (~(isDirty /\ CbufFull)) \in BOOLEAN
          /\ (isDirty /\ ~(isDirty /\ CbufFull)) \in BOOLEAN
          /\ (w \in dirty) \in BOOLEAN
      BY Stage1Request, HpdcacheAssumption DEF Stage1Ready
    <3>2. st2' \in Stage2Ops
      BY <2>2, <3>1 DEF Stage2Ops, Misses
    <3> QED
      BY <3>2, NoneAssumption
  <2>4. MissSent(~(isDirty /\ CbufFull))
    BY <2>2, <2>3 DEF MissSent
  <2>5. CASE isDirty /\ CbufFull
    <3>1. OnHold({"write_miss"}, Lowest(Ways)) /\ MissSent(FALSE)
      BY <1>2, <2>4, <2>5 DEF SendMiss
    <3>2. {"write_miss"} \in SUBSET Deps
      BY DEF Deps
    <3> QED
      BY <2>1, <3>1, <3>2, WaysType DEF RequestOutcome, KeptOnHold
  <2>6. CASE ~(isDirty /\ CbufFull)
    <3>1. Commit /\ MissSent(TRUE)
      BY <1>2, <2>4, <2>6 DEF SendMiss
    <3> QED
      BY <2>1, <3>1 DEF RequestOutcome, HandedOver
  <2> QED
    BY <2>5, <2>6
<1> QED
  BY <1>1, <1>2

\* Every step of stage 1 is one of these.
LEMMA Stage1RequestOutcome ==
    ASSUME TypeOK, Stage1
    PROVE  RequestOutcome
<1> DEFINE r == st1.req
           l == st1.req.line
<1>1. Stage1Ready
  BY DEF Stage1, Stage1Abort, Stage1Error, Stage1Link, Stage1Op, LoadForward,
         LoadMiss, LoadHit, StoreHold, StoreMiss, StoreHit, AmoHold, AmoFlush,
         AmoIssue
<1>2. r \in Requests /\ l \in Lines /\ st1.replay \in BOOLEAN
  BY <1>1, Stage1Request DEF Stage1Ready
<1>3. st2 = None
  BY <1>1 DEF Stage1Ready
<1>4. Hit(l) => HitWay(l) \in Ways
  BY <1>2, HitWayIn
<1>5. CASE Stage1Abort
  BY <1>3, <1>5 DEF Stage1Abort, RequestOutcome, Answered, Commit, NoMissSent
<1>6. CASE Stage1Error
  BY <1>3, <1>6 DEF Stage1Error, RequestOutcome, Answered, NoMissSent
<1>7. CASE Stage1Link
  BY <1>3, <1>7 DEF Stage1Link, RequestOutcome, QueuedBehind, NoMissSent
<1>8. CASE LoadForward
  <2>1. CheckHit(l) /\ ~IsFence(r)
    BY <1>8 DEF LoadForward, FwdHit, Captured, CheckHit, valid, Stage1Op, IsFence
  <2> QED
    BY <1>3, <1>8, <2>1 DEF LoadForward, RequestOutcome, Answered, NoMissSent
<1>9. ASSUME NEW d \in SUBSET Deps, NEW w \in Ways, Proceeds, Stage1Hold(d, w),
             HoldCause(d, w)
      PROVE  RequestOutcome
  <2>1. OnHold(d, w) /\ UNCHANGED <<issued, uc>> /\ NoMissSent
    BY <1>3, <1>9 DEF Stage1Hold, NoMissSent
  <2> QED
    BY <1>9, <2>1 DEF RequestOutcome, KeptOnHold
<1>10. ASSUME NEW op \in {"LOAD", "PREFETCH"}, LoadMiss(op)
       PROVE  RequestOutcome
  <2>1. Proceeds /\ ~Hit(l)
    BY <1>10 DEF LoadMiss, Stage1Op, IsFence, Proceeds
  <2>2. CASE LoadMissDep(l) # {} /\ Stage1Hold(LoadMissDep(l), Lowest(Ways))
    <3>1. HoldCause(LoadMissDep(l), Lowest(Ways))
      BY <2>1, <2>2, LoadCause
    <3> QED
      BY <1>2, <1>9, <2>1, <2>2, <3>1, DepTypes, WaysType
  <2>3. CASE \E w \in VictimWays(l) :
                CaptureVictim(w) \/ SendMiss(w, FALSE, LoadWback(r))
    <3>1. PICK w \in VictimWays(l) :
              CaptureVictim(w) \/ SendMiss(w, FALSE, LoadWback(r))
      BY <2>3
    <3>2. w \in WaysOf[l]
      BY <1>2, VictimOfSet
    <3>3. LoadWback(r) \in BOOLEAN
      BY DEF LoadWback
    <3> QED
      BY <1>1, <2>1, <3>1, <3>2, <3>3, MissOutcome
  <2> QED
    BY <1>10, <2>2, <2>3 DEF LoadMiss
<1>11. ASSUME NEW op \in {"LOAD", "PREFETCH"}, LoadHit(op)
       PROVE  RequestOutcome
  <2> DEFINE w == HitWay(l)
             toWT == r.hint = "WT" /\ w \in wback
             toWB == r.hint = "WB" /\ w \notin wback
  <2>1. Proceeds /\ Hit(l) /\ w \in Ways
    BY <1>4, <1>11 DEF LoadHit, Stage1Op, IsFence, Proceeds
  <2>2. CASE ~FlushReady /\ Stage1Hold({"flush_not_ready"}, w)
    <3>1. {"flush_not_ready"} \in SUBSET Deps /\ HoldCause({"flush_not_ready"}, w)
      BY <2>2 DEF Deps, HoldCause
    <3> QED
      BY <1>9, <2>1, <2>2, <3>1
  <2>3. CASE ~(~FlushReady /\ Stage1Hold({"flush_not_ready"}, w))
    <3>1. /\ Commit /\ Respond(r) /\ UNCHANGED uc
          /\ st2' = IF w \notin fetch /\ (toWT \/ toWB)
                    THEN [op |-> "DIR", way |-> w, line |-> l,
                          wback |-> toWB, dirty |-> FALSE,
                          flush |-> toWT /\ w \in dirty]
                    ELSE None
      BY <1>11, <2>3 DEF LoadHit
    <3>2. NoMissSent
      BY <3>1 DEF NoMissSent
    <3> QED
      BY <2>1, <3>1, <3>2 DEF RequestOutcome, Answered, Proceeds
  <2> QED
    BY <2>2, <2>3
<1>12. CASE StoreHold
  <2> DEFINE w == IF Hit(l) THEN HitWay(l) ELSE Lowest(Ways)
  <2>1. Proceeds /\ StoreDep(l) # {} /\ Stage1Hold(StoreDep(l), w)
    BY <1>12 DEF StoreHold, Stage1Op, IsFence, Proceeds
  <2>2. w \in Ways
    BY <1>4, WaysType
  <2>3. HoldCause(StoreDep(l), w)
    BY <2>1, StoreCause
  <2> HIDE DEF w
  <2> QED
    BY <1>2, <1>9, <2>1, <2>2, <2>3, DepTypes
<1>13. CASE StoreMiss
  <2>1. Proceeds
    BY <1>13 DEF StoreMiss, Stage1Op, IsFence, Proceeds
  <2>2. PICK w \in VictimWays(l) : CaptureVictim(w) \/ SendMiss(w, TRUE, TRUE)
    BY <1>13 DEF StoreMiss
  <2>3. w \in WaysOf[l]
    BY <1>2, VictimOfSet
  <2> QED
    BY <1>1, <2>1, <2>2, <2>3, MissOutcome
<1>14. CASE StoreHit
  <2>1. Proceeds /\ Hit(l) /\ Commit /\ Respond(r) /\ UNCHANGED uc
    BY <1>14 DEF StoreHit, Stage1Op, IsFence, Proceeds
  <2>2. NoMissSent
    BY <1>14 DEF StoreHit, NoMissSent
  <2> QED
    BY <2>1, <2>2 DEF RequestOutcome, Answered, Proceeds
<1>15. CASE AmoHold
  BY <1>3, <1>15 DEF AmoHold, Stage1Op, IsFence, RequestOutcome, FenceKept, NoMissSent
<1>16. CASE AmoFlush
  BY <1>16 DEF AmoFlush, Stage1Op, IsFence, RequestOutcome, FenceKept, NoMissSent
<1>17. CASE AmoIssue
  <2>1. /\ IsFence(r) /\ Commit /\ (NoPendTrans \/ st1.replay)
        /\ st2' = st2 /\ issued' = issued
        /\ uc' = [req |-> r, way |-> HitWays(l), phase |-> "mem"]
    BY <1>17 DEF AmoIssue, Stage1Op, IsFence
  <2>2. uc' \in Uncached
    BY <1>2, <2>1 DEF Uncached, HitWays
  <2>3. uc' # None /\ uc'.req = r
    BY <2>1, <2>2, NoneAssumption
  <2> QED
    BY <1>3, <2>1, <2>3 DEF RequestOutcome, FenceIssued
<1> QED
  BY <1>5, <1>6, <1>7, <1>8, <1>10, <1>11, <1>12, <1>13, <1>14, <1>15, <1>16,
     <1>17 DEF Stage1

-----------------------------------------------------------------------------
(* Requests are neither lost nor duplicated.                                 *)

\* Which requests can be in stage 1 together with an on-hold fence or an AMO
\* in the uncached handler, and what a replay replays.
HoldOK ==
    /\ st1 # None /\ ~st1.replay => fence = None
    /\ st1 # None /\ st1.replay /\ IsFence(st1.req) =>
          fence = st1.req /\ ~fencePend
    /\ st1 # None /\ st1.replay /\ ~IsFence(st1.req) =>
          st1.req = Head(waitq[st1.req.line])
    /\ fence # None /\ ~fencePend =>
          /\ \A l \in Lines : waitq[l] = <<>>
          /\ st1 # None => st1.replay /\ IsFence(st1.req)
    /\ uc # None =>
          st1 = None /\ fence = None /\ \A l \in Lines : waitq[l] = <<>>

LEMMA HoldStep ==
    ASSUME ControlInv, HoldOK, Next
    PROVE  HoldOK'
<1>1. QueueOK /\ TypeOK
  BY DEF ControlInv
<1>2. CASE AcceptCore
  <2>1. popNext = NoLine /\ fence = None /\ uc = None
    BY <1>2 DEF AcceptCore, RtabValid, ReplayLines, FenceReady
  <2>2. PICK r \in Requests : st1' = [req |-> r, replay |-> FALSE]
    BY <1>2 DEF AcceptCore
  <2>3. ~st1'.replay
    BY <2>2
  <2>4. UNCHANGED <<waitq, fence, uc>>
    BY <1>2 DEF AcceptCore, rtabVars
  <2> QED
    BY <2>1, <2>3, <2>4 DEF HoldOK
<1>3. CASE AcceptFence
  <2>1. fence # None /\ ~fencePend /\ IsFence(fence)
    BY <1>1, <1>3 DEF AcceptFence, FenceReady, QueueOK
  <2>2. st1'.req = fence /\ st1'.replay = TRUE
    BY <1>3 DEF AcceptFence
  <2>3. UNCHANGED <<waitq, fence, fencePend, uc>>
    BY <1>3 DEF AcceptFence, rtabVars
  <2> QED
    BY <2>1, <2>2, <2>3 DEF HoldOK, IsFence
<1>4. ASSUME NEW l \in Lines, AcceptReplay(l)
      PROVE  HoldOK'
  <2>1. waitq[l] # <<>>
    BY <1>1, <1>4 DEF AcceptReplay, Stage0Free, ReplayLines, QueueOK
  <2>2. waitq[l] \in Seq(Requests) /\ Len(waitq[l]) \in Nat
    BY <1>1 DEF TypeOK
  <2>3. 1 \in 1 .. Len(waitq[l]) /\ Head(waitq[l]) = waitq[l][1]
    BY <2>1, <2>2
  <2>4. Head(waitq[l]).line = l /\ ~IsFence(Head(waitq[l]))
    BY <1>1, <2>3 DEF QueueOK
  <2>5. st1'.req = Head(waitq[l]) /\ st1'.replay = TRUE
    BY <1>4 DEF AcceptReplay
  <2>6. UNCHANGED <<waitq, fence, fencePend, uc>>
    BY <1>4 DEF AcceptReplay
  <2> QED
    BY <2>1, <2>4, <2>5, <2>6 DEF HoldOK, IsFence
<1>5. CASE Stage1
  <2> DEFINE r == st1.req
             l == st1.req.line
  <2>1. RequestOutcome
    BY <1>1, <1>5, Stage1RequestOutcome
  <2>2. st1 # None /\ st1' = None
    BY <1>5, Stage1Outcome DEF Outcome, Stage1Frame, ControlInv, DirectoryConsistent
  <2>3. /\ r \in Requests /\ l \in Lines /\ st1.replay \in BOOLEAN
        /\ waitq \in [Lines -> Seq(Requests)] /\ fencePend \in BOOLEAN
    BY <1>1, <2>2, Stage1Request DEF TypeOK
  <2>4. uc = None
    BY <2>2 DEF HoldOK
  <2>5. SUFFICES /\ fence' # None /\ ~fencePend' =>
                       \A k \in Lines : waitq'[k] = <<>>
                 /\ uc' # None =>
                       fence' = None /\ \A k \in Lines : waitq'[k] = <<>>
    BY <2>2 DEF HoldOK
  <2>6. CASE Commit /\ ~IsFence(r) /\ uc' = uc
    <3>1. fence = None \/ fencePend
      BY <2>2, <2>6 DEF HoldOK
    <3>2. UNCHANGED <<fence, fencePend>>
      BY <2>6 DEF Commit, rtabVars
    <3> QED
      BY <2>4, <2>6, <3>1, <3>2
  <2>7. CASE Answered
    <3>1. CASE ~st1.replay
      <4>1. fence = None /\ fence' = None /\ uc' = None
        BY <2>2, <2>4, <2>7, <3>1 DEF Answered, Commit, rtabVars, HoldOK
      <4> QED
        BY <4>1
    <3> QED
      BY <2>3, <2>6, <2>7, <3>1 DEF Answered
  <2>8. CASE KeptOnHold
    <3>1. ~IsFence(r) /\ uc' = uc /\ UNCHANGED <<fence, fencePend>>
      BY <2>8 DEF KeptOnHold, Proceeds, OnHold
    <3>2. fence = None \/ fencePend
      BY <2>2, <3>1 DEF HoldOK
    <3> QED
      BY <2>4, <3>1, <3>2
  <2>9. CASE HandedOver
    BY <2>6, <2>9 DEF HandedOver, Proceeds
  <2>10. CASE QueuedBehind
    <3>1. fence = None /\ UNCHANGED <<fence, uc>>
      BY <2>2, <2>10 DEF QueuedBehind, Linked, HoldOK
    <3> QED
      BY <2>4, <3>1
  <2>11. CASE FenceKept
    BY <2>4, <2>11 DEF FenceKept, FenceOnHold
  <2>12. CASE FenceIssued
    <3>1. CASE ~st1.replay
      <4>1. RtabEmpty /\ UNCHANGED <<fence, waitq>>
        BY <2>12, <3>1 DEF FenceIssued, NoPendTrans, Commit, rtabVars
      <4> QED
        BY <4>1 DEF RtabEmpty
    <3>2. CASE st1.replay
      <4>1. fence' = None /\ waitq' = waitq
        BY <2>12, <3>2 DEF FenceIssued, Commit
      <4>2. fence = r /\ ~fencePend
        BY <2>2, <2>12, <3>2 DEF HoldOK, FenceIssued
      <4>3. fence # None
        BY <2>3, <4>2, NoneAssumption
      <4>4. \A k \in Lines : waitq[k] = <<>>
        BY <4>2, <4>3 DEF HoldOK
      <4> QED
        BY <4>1, <4>4
    <3> QED
      BY <2>3, <3>1, <3>2
  <2> QED
    BY <2>1, <2>7, <2>8, <2>9, <2>10, <2>11, <2>12 DEF RequestOutcome
<1>6. CASE FenceRelease
  BY <1>6 DEF FenceRelease, HoldOK
<1>7. CASE UcMem
  BY <1>7 DEF UcMem, rtabVars, HoldOK, IsFence
<1>8. CASE Refill
  <2>1. UNCHANGED <<st1, uc>>
    BY <1>8 DEF Refill
  <2>2. UNCHANGED <<waitq, fence, fencePend>>
    BY <1>8, RefillStep DEF RefillWakeUp
  <2> QED
    BY <2>1, <2>2 DEF HoldOK, IsFence
<1>9. CASE UcDone \/ MissSend \/ MissResp \/ FlushAck \/ VbufDone \/ VbufStep
           \/ Stage2
  <2>1. UNCHANGED <<st1, waitq, fence, fencePend>> /\ (uc' = uc \/ uc' = None)
    BY <1>9 DEF UcDone, MissSend, MissResp, FlushAck, VbufDone, VbufStep, Stage2,
       Stage2Vbuf, Stage2Miss, Stage2Dir, rtabVars, ctrlVars
  <2> QED
    BY <2>1 DEF HoldOK, IsFence
<1> QED
  BY <1>2, <1>3, <1>4, <1>5, <1>6, <1>7, <1>8, <1>9 DEF Next

\* The transactions in stage 1, in stage 2, in the lists of the replay table,
\* in its fence, in the MSHR and in the uncached handler.
InStage1 == IF st1 # None /\ ~st1.replay THEN {st1.req.tid} ELSE {}
InStage2 ==
    IF st2 # None /\ st2.op = "MISS" /\ st2.entry.need THEN {st2.entry.req.tid}
    ELSE {}
InLists == UNION {{waitq[l][i].tid : i \in 1 .. Len(waitq[l])} : l \in Lines}
InFence == IF fence # None THEN {fence.tid} ELSE {}
InMshr == {m.req.tid : m \in {n \in mshr : n.need}}
InUc == IF uc # None THEN {uc.req.tid} ELSE {}

\* No two entries of the lists, or of the MSHR, hold the same transaction.
ListsInjective ==
    \A k, l \in Lines : \A i \in 1 .. Len(waitq[k]), j \in 1 .. Len(waitq[l]) :
        waitq[k][i].tid = waitq[l][j].tid => k = l /\ i = j
MshrInjective ==
    \A m, n \in mshr : m.need /\ n.need /\ m.req.tid = n.req.tid => m = n

\* Six sets of transactions partition the issued ones.
Partition(A, B, C, D, E, F) ==
    /\ issued = A \cup B \cup C \cup D \cup E \cup F
    /\ A \cap (B \cup C \cup D \cup E \cup F) = {}
    /\ B \cap (C \cup D \cup E \cup F) = {}
    /\ C \cap (D \cup E \cup F) = {}
    /\ D \cap (E \cup F) = {}
    /\ E \cap F = {}

Accounted ==
    /\ Partition(InStage1, InStage2, InLists, InFence, InMshr, InUc)
    /\ ListsInjective
    /\ MshrInjective

LEMMA InListsMember ==
    ASSUME NEW l \in Lines, NEW i \in 1 .. Len(waitq[l])
    PROVE  waitq[l][i].tid \in InLists
BY DEF InLists

\* The head of a list leaves it.
LEMMA ListPop ==
    ASSUME waitq \in [Lines -> Seq(Requests)], ListsInjective,
           NEW l \in Lines, waitq[l] # <<>>,
           waitq' = [waitq EXCEPT ![l] = Tail(@)]
    PROVE  /\ Head(waitq[l]).tid \in InLists
           /\ InLists' = InLists \ {Head(waitq[l]).tid}
           /\ ListsInjective'
<1> DEFINE q == waitq[l]
<1>1. q \in Seq(Requests) /\ Len(q) \in Nat /\ Len(q) >= 1
  OBVIOUS
<1>2. 1 \in 1 .. Len(q) /\ Head(q) = q[1]
  BY <1>1
<1>3. waitq'[l] = Tail(q) /\ \A k \in Lines \ {l} : waitq'[k] = waitq[k]
  OBVIOUS
<1>4. /\ Len(waitq'[l]) = Len(q) - 1
      /\ \A i \in 1 .. Len(q) - 1 :
            i + 1 \in 2 .. Len(q) /\ waitq'[l][i] = q[i + 1]
  BY <1>1, <1>3
<1>5. Head(q).tid \in InLists
  BY <1>2, InListsMember
<1>6. ASSUME NEW k \in Lines, NEW i \in 1 .. Len(waitq'[k])
      PROVE  \E j \in 1 .. Len(waitq[k]) :
                /\ waitq[k][j] = waitq'[k][i]
                /\ j = IF k = l THEN i + 1 ELSE i
  <2>1. CASE k = l
    BY <1>1, <1>4, <2>1
  <2>2. CASE k # l
    BY <1>3, <2>2
  <2> QED
    BY <2>1, <2>2
<1>7. ListsInjective'
  <2> SUFFICES ASSUME NEW k \in Lines, NEW n \in Lines,
                      NEW i \in 1 .. Len(waitq'[k]), NEW j \in 1 .. Len(waitq'[n]),
                      waitq'[k][i].tid = waitq'[n][j].tid
               PROVE  k = n /\ i = j
    BY DEF ListsInjective
  <2>1. PICK a \in 1 .. Len(waitq[k]) :
            waitq[k][a] = waitq'[k][i] /\ a = IF k = l THEN i + 1 ELSE i
    BY <1>6
  <2>2. PICK b \in 1 .. Len(waitq[n]) :
            waitq[n][b] = waitq'[n][j] /\ b = IF n = l THEN j + 1 ELSE j
    BY <1>6
  <2>3. k = n /\ a = b
    BY <2>1, <2>2 DEF ListsInjective
  <2>4. i \in Int /\ j \in Int
    OBVIOUS
  <2> QED
    BY <2>1, <2>2, <2>3, <2>4
<1>8. ASSUME NEW t \in InLists', t = Head(q).tid
      PROVE  FALSE
  <2> PICK k \in Lines : \E i \in 1 .. Len(waitq'[k]) : t = waitq'[k][i].tid
    BY DEF InLists
  <2>1. PICK i \in 1 .. Len(waitq'[k]) : t = waitq'[k][i].tid
    OBVIOUS
  <2>2. PICK a \in 1 .. Len(waitq[k]) :
            waitq[k][a] = waitq'[k][i] /\ a = IF k = l THEN i + 1 ELSE i
    BY <1>6
  <2>3. k = l /\ a = 1
    BY <1>2, <1>8, <2>1, <2>2 DEF ListsInjective
  <2>4. i \in Int /\ i >= 1
    OBVIOUS
  <2> QED
    BY <2>2, <2>3, <2>4
<1>9. InLists' \subseteq InLists
  <2> SUFFICES ASSUME NEW t \in InLists'
               PROVE  t \in InLists
    OBVIOUS
  <2> PICK k \in Lines : \E i \in 1 .. Len(waitq'[k]) : t = waitq'[k][i].tid
    BY DEF InLists
  <2>1. PICK i \in 1 .. Len(waitq'[k]) : t = waitq'[k][i].tid
    OBVIOUS
  <2> QED
    BY <1>6, <2>1, InListsMember
<1>10. \A k \in Lines : \A i \in 1 .. Len(waitq'[k]) : waitq'[k][i].tid \in InLists'
  BY DEF InLists
<1>11. ASSUME NEW t \in InLists, t # Head(q).tid
       PROVE  t \in InLists'
  <2> PICK k \in Lines : \E i \in 1 .. Len(waitq[k]) : t = waitq[k][i].tid
    BY DEF InLists
  <2>1. PICK i \in 1 .. Len(waitq[k]) : t = waitq[k][i].tid
    OBVIOUS
  <2>2. CASE k # l
    BY <1>3, <2>1, <2>2 DEF InLists
  <2>3. CASE k = l
    <3>1. i # 1
      BY <1>2, <1>11, <2>1, <2>3
    <3>2. i - 1 \in 1 .. Len(q) - 1 /\ (i - 1) + 1 = i
      <4>1. i \in 1 .. Len(q)
        BY <2>3
      <4> HIDE DEF q
      <4> QED
        BY <1>1, <3>1, <4>1
    <3>3. waitq'[l][i - 1] = q[i] /\ i - 1 \in 1 .. Len(waitq'[l])
      BY <1>4, <3>2
    <3> QED
      BY <1>10, <2>1, <2>3, <3>3
  <2> QED
    BY <2>2, <2>3
<1> QED
  BY <1>5, <1>7, <1>8, <1>9, <1>11

\* A request is appended to a list.
LEMMA ListPush ==
    ASSUME waitq \in [Lines -> Seq(Requests)], ListsInjective,
           NEW l \in Lines, NEW r \in Requests, r.tid \notin InLists,
           waitq' = [waitq EXCEPT ![l] = Append(@, r)]
    PROVE  InLists' = InLists \cup {r.tid} /\ ListsInjective'
<1> DEFINE q == waitq[l]
           n == Len(waitq[l])
<1>1. q \in Seq(Requests) /\ n \in Nat
  OBVIOUS
<1>2. waitq'[l] = Append(q, r) /\ \A k \in Lines \ {l} : waitq'[k] = waitq[k]
  OBVIOUS
<1>3. /\ Len(waitq'[l]) = n + 1 /\ waitq'[l][n + 1] = r
      /\ \A i \in 1 .. n : waitq'[l][i] = q[i]
  BY <1>1, <1>2
<1>4. ASSUME NEW k \in Lines, NEW i \in 1 .. Len(waitq'[k])
      PROVE  \/ i \in 1 .. Len(waitq[k]) /\ waitq'[k][i] = waitq[k][i]
             \/ k = l /\ i = n + 1 /\ waitq'[k][i] = r
  <2>1. CASE k = l
    BY <1>1, <1>3, <2>1
  <2>2. CASE k # l
    BY <1>2, <2>2
  <2> QED
    BY <2>1, <2>2
<1>5. ASSUME NEW k \in Lines, NEW i \in 1 .. Len(waitq[k])
      PROVE  i \in 1 .. Len(waitq'[k]) /\ waitq'[k][i] = waitq[k][i]
  <2>1. CASE k = l
    BY <1>1, <1>3, <2>1
  <2>2. CASE k # l
    BY <1>2, <2>2
  <2> QED
    BY <2>1, <2>2
<1>6. ListsInjective'
  <2> SUFFICES ASSUME NEW k \in Lines, NEW m \in Lines,
                      NEW i \in 1 .. Len(waitq'[k]), NEW j \in 1 .. Len(waitq'[m]),
                      waitq'[k][i].tid = waitq'[m][j].tid
               PROVE  k = m /\ i = j
    BY DEF ListsInjective
  <2>1. \/ i \in 1 .. Len(waitq[k]) /\ waitq'[k][i] = waitq[k][i]
        \/ k = l /\ i = n + 1 /\ waitq'[k][i] = r
    BY <1>4
  <2>2. \/ j \in 1 .. Len(waitq[m]) /\ waitq'[m][j] = waitq[m][j]
        \/ m = l /\ j = n + 1 /\ waitq'[m][j] = r
    BY <1>4
  <2> QED
    BY <2>1, <2>2, InListsMember DEF ListsInjective
<1>7. InLists' \subseteq InLists \cup {r.tid}
  <2> SUFFICES ASSUME NEW t \in InLists'
               PROVE  t \in InLists \cup {r.tid}
    OBVIOUS
  <2> PICK k \in Lines : \E i \in 1 .. Len(waitq'[k]) : t = waitq'[k][i].tid
    BY DEF InLists
  <2>1. PICK i \in 1 .. Len(waitq'[k]) : t = waitq'[k][i].tid
    OBVIOUS
  <2> QED
    BY <1>4, <2>1, InListsMember
<1>8. InLists \subseteq InLists'
  <2> SUFFICES ASSUME NEW t \in InLists
               PROVE  t \in InLists'
    OBVIOUS
  <2> PICK k \in Lines : \E i \in 1 .. Len(waitq[k]) : t = waitq[k][i].tid
    BY DEF InLists
  <2>1. PICK i \in 1 .. Len(waitq[k]) : t = waitq[k][i].tid
    OBVIOUS
  <2>2. \E j \in 1 .. Len(waitq'[k]) : t = waitq'[k][j].tid
    BY <1>5, <2>1
  <2> QED
    BY <2>2 DEF InLists
<1>9. r.tid \in InLists'
  <2>1. n + 1 \in 1 .. Len(waitq'[l]) /\ waitq'[l][n + 1] = r
    BY <1>1, <1>3
  <2>2. \E j \in 1 .. Len(waitq'[l]) : r.tid = waitq'[l][j].tid
    BY <2>1
  <2> QED
    BY <2>2 DEF InLists
<1> QED
  BY <1>6, <1>7, <1>8, <1>9

\* A new list is a push on an empty one.
LEMMA ListNew ==
    ASSUME waitq \in [Lines -> Seq(Requests)], NEW l \in Lines, waitq[l] = <<>>,
           NEW r \in Requests, waitq' = [waitq EXCEPT ![l] = <<r>>]
    PROVE  waitq' = [waitq EXCEPT ![l] = Append(@, r)]
OBVIOUS

\* A miss changes its phase.
LEMMA MshrPhase ==
    ASSUME mshr \subseteq Misses, MshrInjective, NEW m \in mshr,
           NEW p \in {"mem", "resp"},
           mshr' = (mshr \ {m}) \cup {[m EXCEPT !.phase = p]}
    PROVE  InMshr' = InMshr /\ MshrInjective'
<1> DEFINE n == [m EXCEPT !.phase = p]
<1>1. n.req = m.req /\ n.need = m.need /\ n \in mshr'
  BY DEF Misses
<1>2. mshr' = (mshr \ {m}) \cup {n}
  OBVIOUS
<1> HIDE DEF n
<1>3. InMshr' = InMshr
  BY <1>1, <1>2 DEF InMshr
<1>4. MshrInjective'
  BY <1>1, <1>2 DEF MshrInjective
<1> QED
  BY <1>3, <1>4

\* A request that is committed leaves stage 1 and the replay table.
LEMMA CommitLeaves ==
    ASSUME ControlInv, HoldOK, Accounted, st1 # None, st1' = None, Commit
    PROVE  /\ ListsInjective'
           /\ InLists' \subseteq InLists /\ InFence' \subseteq InFence
           /\ st1.req.tid \in InStage1 \cup InLists \cup InFence
           /\ (InStage1 \cup InLists \cup InFence) \ {st1.req.tid}
                  = InLists' \cup InFence'
<1> DEFINE r == st1.req
           l == st1.req.line
<1>1. /\ r \in Requests /\ l \in Lines /\ st1.replay \in BOOLEAN
      /\ waitq \in [Lines -> Seq(Requests)] /\ ListsInjective
      /\ Partition(InStage1, InStage2, InLists, InFence, InMshr, InUc)
  BY Stage1Request DEF ControlInv, TypeOK, Accounted
<1>2. CASE ~st1.replay
  <2>1. UNCHANGED <<waitq, fence>>
    BY <1>2 DEF Commit, rtabVars
  <2>2. InLists' = InLists /\ InFence' = InFence /\ ListsInjective'
    BY <1>1, <2>1 DEF InLists, InFence, ListsInjective
  <2>3. InStage1 = {r.tid}
    BY <1>2 DEF InStage1
  <2> QED
    BY <1>1, <2>2, <2>3 DEF Partition
<1>3. CASE st1.replay /\ IsFence(r)
  <2>1. fence' = None /\ waitq' = waitq
    BY <1>3 DEF Commit
  <2>2. fence = r /\ fence # None
    BY <1>1, <1>3, NoneAssumption DEF HoldOK
  <2>3. InLists' = InLists /\ InFence' = {} /\ ListsInjective'
    <3>1. InLists' = InLists /\ ListsInjective'
      BY <1>1, <2>1 DEF InLists, ListsInjective
    <3>2. InFence' = {}
      BY <2>1 DEF InFence
    <3> QED
      BY <3>1, <3>2
  <2>4. InStage1 = {} /\ InFence = {r.tid}
    BY <1>3, <2>2 DEF InStage1, InFence
  <2> QED
    BY <1>1, <2>3, <2>4 DEF Partition
<1>4. CASE st1.replay /\ ~IsFence(r)
  <2>1. fence' = fence /\ waitq' = [waitq EXCEPT ![l] = Tail(@)]
    BY <1>4 DEF Commit
  <2>2. waitq[l] # <<>> /\ r = Head(waitq[l])
    BY <1>4 DEF HoldOK, ControlInv, QueueOK
  <2>3. r.tid \in InLists /\ InLists' = InLists \ {r.tid} /\ ListsInjective'
    BY <1>1, <2>1, <2>2, ListPop
  <2>4. InStage1 = {} /\ InFence' = InFence
    BY <1>4, <2>1 DEF InStage1, InFence
  <2> QED
    BY <1>1, <2>3, <2>4 DEF Partition
<1> QED
  BY <1>1, <1>2, <1>3, <1>4

\* Stage 1 moves its request to one other place, or answers it.
LEMMA AccountStage1 ==
    ASSUME ControlInv, HoldOK, Accounted, Stage1
    PROVE  Accounted'
<1> DEFINE r == st1.req
           l == st1.req.line
           t == st1.req.tid
<1>1. RequestOutcome
  BY Stage1RequestOutcome DEF ControlInv
<1>2. Stage1Frame
  BY Stage1Outcome DEF Outcome, ControlInv, DirectoryConsistent
<1>3. st1 # None /\ st1' = None /\ st2 = None /\ mshr' = mshr
  BY <1>2 DEF Stage1Frame
<1>4. /\ r \in Requests /\ l \in Lines /\ st1.replay \in BOOLEAN
      /\ waitq \in [Lines -> Seq(Requests)] /\ ListsInjective
      /\ Partition(InStage1, InStage2, InLists, InFence, InMshr, InUc)
  BY <1>3, Stage1Request DEF ControlInv, TypeOK, Accounted
<1>5. r # None
  BY <1>4, NoneAssumption
<1>6. uc = None
  BY <1>3 DEF HoldOK
<1>7. InStage1' = {} /\ InStage2 = {} /\ InUc = {}
  BY <1>3, <1>6 DEF InStage1, InStage2, InUc
<1>8. InMshr' = InMshr /\ MshrInjective'
  BY <1>3 DEF InMshr, MshrInjective, Accounted
<1>9. ~st1.replay => InStage1 = {t} /\ t \notin InLists
  BY <1>3, <1>4 DEF InStage1, Partition
<1>10. st1.replay => InStage1 = {}
  BY DEF InStage1
<1>11. NoMissSent => InStage2' = {}
  BY DEF NoMissSent, InStage2
<1>12. uc' = uc => InUc' = {}
  BY <1>6 DEF InUc
<1>13. CASE Answered
  <2>1. Commit /\ issued' = issued \ {t} /\ InStage2' = {} /\ InUc' = {}
    BY <1>11, <1>12, <1>13 DEF Answered, Respond
  <2> QED
    BY <1>3, <1>4, <1>7, <1>8, <2>1, CommitLeaves DEF Partition, Accounted
<1>14. CASE KeptOnHold
  <2>1. PICK d \in SUBSET Deps, w \in Ways :
            OnHold(d, w) /\ (NoMissSent \/ MissSent(FALSE))
    BY <1>14 DEF KeptOnHold
  <2>2. fence' = fence /\ waitq' = IF st1.replay THEN waitq
                                   ELSE [waitq EXCEPT ![l] = <<r>>]
    BY <2>1 DEF OnHold
  <2>3. InFence' = InFence
    BY <2>2 DEF InFence
  <2>4. InStage2' = {} /\ InUc' = {} /\ issued' = issued
    BY <1>11, <1>12, <1>14, <2>1 DEF KeptOnHold, MissSent, InStage2
  <2>5. CASE st1.replay
    <3>1. InLists' = InLists /\ ListsInjective'
      BY <1>4, <2>2, <2>5 DEF InLists, ListsInjective
    <3> QED
      BY <1>4, <1>7, <1>8, <1>10, <2>3, <2>4, <2>5, <3>1 DEF Partition, Accounted
  <2>6. CASE ~st1.replay
    <3>1. waitq[l] = <<>>
      BY <1>14, <2>6 DEF KeptOnHold, Proceeds, Linked
    <3>2. waitq' = [waitq EXCEPT ![l] = Append(@, r)]
      BY <1>4, <2>2, <2>6, <3>1, ListNew
    <3>3. InLists' = InLists \cup {t} /\ ListsInjective'
      BY <1>4, <1>9, <2>6, <3>2, ListPush
    <3> QED
      BY <1>4, <1>7, <1>8, <1>9, <2>3, <2>4, <2>6, <3>3 DEF Partition, Accounted
  <2> QED
    BY <1>4, <2>5, <2>6
<1>15. CASE HandedOver
  <2>1. Commit /\ issued' = issued /\ InUc' = {}
    BY <1>12, <1>15 DEF HandedOver
  <2>2. InStage2' = {t}
    BY <1>15 DEF HandedOver, MissSent, InStage2
  <2> QED
    BY <1>3, <1>4, <1>7, <1>8, <2>1, <2>2, CommitLeaves DEF Partition, Accounted
<1>16. CASE QueuedBehind
  <2>1. ~st1.replay /\ issued' = issued /\ InUc' = {} /\ InStage2' = {}
    BY <1>11, <1>12, <1>16 DEF QueuedBehind, Linked
  <2>2. fence' = fence /\ waitq' = [waitq EXCEPT ![l] = Append(@, r)]
    BY <1>16 DEF QueuedBehind
  <2>3. InLists' = InLists \cup {t} /\ ListsInjective'
    BY <1>4, <1>9, <2>1, <2>2, ListPush
  <2>4. InFence' = InFence
    BY <2>2 DEF InFence
  <2> QED
    BY <1>4, <1>7, <1>8, <1>9, <2>1, <2>3, <2>4 DEF Partition, Accounted
<1>17. CASE FenceKept
  <2>1. issued' = issued /\ InUc' = {} /\ InStage2' = {} /\ IsFence(r)
    BY <1>11, <1>12, <1>17 DEF FenceKept
  <2>2. fence' = r /\ waitq' = waitq
    BY <1>17 DEF FenceKept, FenceOnHold
  <2>3. InLists' = InLists /\ ListsInjective' /\ InFence' = {t}
    BY <1>4, <1>5, <2>2 DEF InLists, ListsInjective, InFence
  <2>4. CASE st1.replay
    <3>1. InFence = {t}
      BY <1>3, <1>5, <2>1, <2>4 DEF HoldOK, InFence
    <3> QED
      BY <1>4, <1>7, <1>8, <1>10, <2>1, <2>3, <2>4, <3>1 DEF Partition, Accounted
  <2>5. CASE ~st1.replay
    <3>1. InFence = {}
      BY <1>3, <2>5 DEF HoldOK, InFence
    <3> QED
      BY <1>4, <1>7, <1>8, <1>9, <2>1, <2>3, <2>5, <3>1 DEF Partition, Accounted
  <2> QED
    BY <1>4, <2>4, <2>5
<1>18. CASE FenceIssued
  <2>1. Commit /\ issued' = issued /\ InStage2' = {}
    BY <1>11, <1>18 DEF FenceIssued, NoMissSent
  <2>2. InUc' = {t}
    BY <1>18 DEF FenceIssued, InUc
  <2> QED
    BY <1>3, <1>4, <1>7, <1>8, <2>1, <2>2, CommitLeaves DEF Partition, Accounted
<1> QED
  BY <1>1, <1>13, <1>14, <1>15, <1>16, <1>17, <1>18 DEF RequestOutcome

\* So does every other step.
LEMMA AccountStep ==
    ASSUME ControlInv, HoldOK, Accounted, Next
    PROVE  Accounted'
<1>1. TypeOK /\ DirectoryConsistent
  BY DEF ControlInv
<1>2. /\ Partition(InStage1, InStage2, InLists, InFence, InMshr, InUc)
      /\ ListsInjective /\ MshrInjective
  BY DEF Accounted
<1>3. UNCHANGED waitq => InLists' = InLists /\ ListsInjective'
  BY <1>2 DEF InLists, ListsInjective
<1>4. UNCHANGED mshr => InMshr' = InMshr /\ MshrInjective'
  BY <1>2 DEF InMshr, MshrInjective
<1>5. /\ UNCHANGED st1 => InStage1' = InStage1
      /\ UNCHANGED st2 => InStage2' = InStage2
      /\ UNCHANGED fence => InFence' = InFence
      /\ UNCHANGED uc => InUc' = InUc
  BY DEF InStage1, InStage2, InFence, InUc
<1>6. CASE AcceptCore
  <2>1. PICK r \in Requests :
            /\ r.tid \notin issued
            /\ st1' = [req |-> r, replay |-> FALSE]
            /\ issued' = issued \cup {r.tid}
    BY <1>6 DEF AcceptCore
  <2>2. st1 = None /\ UNCHANGED <<st2, waitq, fence, mshr, uc>>
    BY <1>6 DEF AcceptCore, Stage0Free, rtabVars, missVars
  <2>3. st1' # None
    <3>1. st1' \in Stage1Ops
      BY <2>1 DEF Stage1Ops
    <3> QED
      BY <3>1, NoneAssumption
  <2>4. InStage1 = {} /\ InStage1' = {r.tid}
    BY <2>1, <2>2, <2>3 DEF InStage1
  <2> QED
    BY <1>2, <1>3, <1>4, <1>5, <2>1, <2>2, <2>4 DEF Partition, Accounted
<1>7. CASE AcceptFence \/ \E l \in Lines : AcceptReplay(l)
  <2>1. st1 = None /\ st1'.replay /\ UNCHANGED <<st2, waitq, fence, mshr, uc, issued>>
    BY <1>7 DEF AcceptFence, AcceptReplay, Stage0Free, rtabVars, missVars
  <2>2. InStage1 = {} /\ InStage1' = {}
    BY <2>1 DEF InStage1
  <2> QED
    BY <1>2, <1>3, <1>4, <1>5, <2>1, <2>2 DEF Partition, Accounted
<1>8. CASE Stage1
  BY <1>8, AccountStage1
<1>9. CASE Stage2Miss
  <2> DEFINE e == st2.entry
  <2>1. /\ st2 # None /\ st2.op = "MISS" /\ st2' = None /\ mshr' = mshr \cup {e}
        /\ UNCHANGED <<st1, waitq, fence, uc, issued>>
    BY <1>9 DEF Stage2Miss, rtabVars
  <2>2. e \in Misses
    BY <1>1, <2>1, Stage2Fields DEF TypeOK
  <2>3. e.need \in BOOLEAN
    BY <2>2 DEF Misses
  <2>4. InStage2' = {}
    BY <2>1 DEF InStage2
  <2>5. CASE e.need
    <3>1. InStage2 = {e.req.tid}
      BY <2>1, <2>5 DEF InStage2
    <3>2. InMshr' = InMshr \cup {e.req.tid}
      BY <2>1, <2>5 DEF InMshr
    <3>3. e.req.tid \notin InMshr
      BY <1>2, <3>1 DEF Partition
    <3>4. MshrInjective'
      BY <1>2, <2>1, <3>3 DEF MshrInjective, InMshr
    <3> QED
      BY <1>2, <1>3, <1>5, <2>1, <2>4, <3>1, <3>2, <3>4 DEF Partition, Accounted
  <2>6. CASE ~e.need
    <3>1. InStage2 = {} /\ InMshr' = InMshr
      BY <2>1, <2>6 DEF InStage2, InMshr
    <3>2. MshrInjective'
      BY <1>2, <2>1, <2>6 DEF MshrInjective
    <3> QED
      BY <1>2, <1>3, <1>5, <2>1, <2>4, <3>1, <3>2 DEF Partition, Accounted
  <2> QED
    BY <2>3, <2>5, <2>6
<1>10. CASE Stage2Vbuf \/ Stage2Dir
  <2>1. /\ st2.op # "MISS" /\ st2' = None
        /\ UNCHANGED <<st1, waitq, fence, mshr, uc, issued>>
    BY <1>10 DEF Stage2Vbuf, Stage2Dir, rtabVars, missVars
  <2>2. InStage2 = {} /\ InStage2' = {}
    BY <2>1 DEF InStage2
  <2> QED
    BY <1>2, <1>3, <1>4, <1>5, <2>1, <2>2 DEF Partition, Accounted
<1>11. CASE UcMem
  <2>1. uc # None /\ UNCHANGED <<st1, st2, waitq, fence, mshr, issued>>
    BY <1>11 DEF UcMem, rtabVars, missVars
  <2>2. uc \in Uncached
    BY <1>1, <2>1 DEF TypeOK
  <2>3. uc' \in Uncached /\ uc'.req = uc.req
    BY <1>11, <2>2 DEF UcMem, Uncached
  <2>4. InUc' = InUc
    BY <2>1, <2>3, NoneAssumption DEF InUc
  <2> QED
    BY <1>2, <1>3, <1>4, <1>5, <2>1, <2>4 DEF Partition, Accounted
<1>12. CASE UcDone
  <2>1. /\ uc # None /\ uc' = None /\ issued' = issued \ {uc.req.tid}
        /\ UNCHANGED <<st1, st2, waitq, fence, mshr>>
    BY <1>12 DEF UcDone, Respond, rtabVars, missVars
  <2>2. InUc = {uc.req.tid} /\ InUc' = {}
    BY <2>1 DEF InUc
  <2> QED
    BY <1>2, <1>3, <1>4, <1>5, <2>1, <2>2 DEF Partition, Accounted
<1>13. CASE MissSend \/ MissResp
  <2>1. /\ \E m \in mshr, p \in {"mem", "resp"} :
              mshr' = (mshr \ {m}) \cup {[m EXCEPT !.phase = p]}
        /\ UNCHANGED <<st1, st2, waitq, fence, uc, issued>>
    BY <1>13 DEF MissSend, MissResp, rtabVars
  <2>2. InMshr' = InMshr /\ MshrInjective'
    BY <1>1, <1>2, <2>1, MshrPhase DEF TypeOK
  <2> QED
    BY <1>2, <1>3, <1>5, <2>1, <2>2 DEF Partition, Accounted
<1>14. CASE Refill
  <2>1. PICK m \in mshr :
            /\ mshr' = mshr \ {m}
            /\ IF m.need THEN Respond(m.req) ELSE UNCHANGED issued
            /\ RefillWakeUp(m.req.line, m.way, Head(fifo).err)
    BY <1>14, RefillStep
  <2>2. UNCHANGED <<st1, st2, waitq, fence, uc>>
    BY <1>14, <2>1 DEF Refill, RefillWakeUp
  <2>3. MshrInjective'
    BY <1>2, <2>1 DEF MshrInjective
  <2>4. CASE m.need
    <3>1. m.req.tid \in InMshr /\ issued' = issued \ {m.req.tid}
      BY <2>1, <2>4 DEF InMshr, Respond
    <3>2. InMshr' = InMshr \ {m.req.tid}
      BY <1>2, <2>1, <2>4 DEF InMshr, MshrInjective
    <3> QED
      BY <1>2, <1>3, <1>5, <2>2, <2>3, <3>1, <3>2 DEF Partition, Accounted
  <2>5. CASE ~m.need
    <3>1. InMshr' = InMshr /\ issued' = issued
      BY <2>1, <2>5 DEF InMshr
    <3> QED
      BY <1>2, <1>3, <1>5, <2>2, <2>3, <3>1 DEF Partition, Accounted
  <2> QED
    BY <2>4, <2>5
<1>15. CASE FenceRelease \/ FlushAck \/ VbufDone \/ VbufStep
  <2>1. UNCHANGED <<st1, st2, waitq, fence, mshr, uc, issued>>
    BY <1>15 DEF FenceRelease, FlushAck, VbufDone, VbufStep, missVars, ctrlVars
  <2> QED
    BY <1>2, <1>3, <1>4, <1>5, <2>1 DEF Partition, Accounted
<1> QED
  BY <1>6, <1>7, <1>8, <1>9, <1>10, <1>11, <1>12, <1>13, <1>14, <1>15
     DEF Next, Stage2

\* The sets of transactions are those of the places that hold requests.
LEMMA AccountedIsHeld ==
    ASSUME TypeOK, Accounted
    PROVE  RequestConservation
<1>1. /\ Partition(InStage1, InStage2, InLists, InFence, InMshr, InUc)
      /\ ListsInjective /\ MshrInjective
  BY DEF Accounted
<1>2. \A l \in Lines : DOMAIN waitq[l] = 1 .. Len(waitq[l])
  BY DEF TypeOK
<1>3. ASSUME NEW h \in Held
      PROVE  \/ h[4] \in InStage1 /\ h = <<"stage1", NoLine, 0, st1.req.tid>>
             \/ h[4] \in InStage2 /\ h = <<"stage2", NoLine, 0, st2.entry.req.tid>>
             \/ /\ h[4] \in InLists
                /\ \E l \in Lines : \E i \in 1 .. Len(waitq[l]) :
                      h = <<"rtab", l, i, waitq[l][i].tid>>
             \/ h[4] \in InFence /\ h = <<"fence", NoLine, 0, fence.tid>>
             \/ /\ h[4] \in InMshr
                /\ \E m \in mshr :
                      m.need /\ h = <<"mshr", m.req.line, 0, m.req.tid>>
             \/ h[4] \in InUc /\ h = <<"uc", NoLine, 0, uc.req.tid>>
  <2>1. \/ st1 # None /\ ~st1.replay /\ h = <<"stage1", NoLine, 0, st1.req.tid>>
        \/ /\ st2 # None /\ st2.op = "MISS" /\ st2.entry.need
           /\ h = <<"stage2", NoLine, 0, st2.entry.req.tid>>
        \/ \E l \in Lines : \E i \in 1 .. Len(waitq[l]) :
              h = <<"rtab", l, i, waitq[l][i].tid>>
        \/ fence # None /\ h = <<"fence", NoLine, 0, fence.tid>>
        \/ \E m \in mshr : m.need /\ h = <<"mshr", m.req.line, 0, m.req.tid>>
        \/ uc # None /\ h = <<"uc", NoLine, 0, uc.req.tid>>
    BY <1>2 DEF Held
  <2>2. \A l \in Lines : \A i \in 1 .. Len(waitq[l]) : waitq[l][i].tid \in InLists
    BY DEF InLists
  <2>3. \A m \in mshr : m.need => m.req.tid \in InMshr
    BY DEF InMshr
  <2> QED
    BY <2>1, <2>2, <2>3 DEF InStage1, InStage2, InFence, InUc
<1>4. ASSUME NEW t \in issued
      PROVE  \E h \in Held : t = h[4]
  <2>1. CASE t \in InStage1
    <3>1. <<"stage1", NoLine, 0, t>> \in Held
      BY <2>1 DEF Held, InStage1
    <3> QED
      BY <3>1
  <2>2. CASE t \in InStage2
    <3>1. <<"stage2", NoLine, 0, t>> \in Held
      BY <2>2 DEF Held, InStage2
    <3> QED
      BY <3>1
  <2>3. CASE t \in InLists
    <3> PICK l \in Lines : \E i \in 1 .. Len(waitq[l]) : t = waitq[l][i].tid
      BY <2>3 DEF InLists
    <3>1. PICK i \in 1 .. Len(waitq[l]) : t = waitq[l][i].tid
      OBVIOUS
    <3>2. <<"rtab", l, i, t>> \in Held
      BY <1>2, <3>1 DEF Held
    <3> QED
      BY <3>2
  <2>4. CASE t \in InFence
    <3>1. <<"fence", NoLine, 0, t>> \in Held
      BY <2>4 DEF Held, InFence
    <3> QED
      BY <3>1
  <2>5. CASE t \in InMshr
    <3>1. PICK m \in mshr : m.need /\ t = m.req.tid
      BY <2>5 DEF InMshr
    <3>2. <<"mshr", m.req.line, 0, t>> \in Held
      BY <3>1 DEF Held
    <3> QED
      BY <3>2
  <2>6. CASE t \in InUc
    <3>1. <<"uc", NoLine, 0, t>> \in Held
      BY <2>6 DEF Held, InUc
    <3> QED
      BY <3>1
  <2> QED
    BY <1>1, <2>1, <2>2, <2>3, <2>4, <2>5, <2>6 DEF Partition
<1>5. issued = {h[4] : h \in Held}
  <2>1. \A h \in Held : h[4] \in issued
    BY <1>1, <1>3 DEF Partition
  <2> QED
    BY <1>4, <2>1
<1>6. ASSUME NEW g \in Held, NEW h \in Held, g[4] = h[4]
      PROVE  g = h
  <2>1. \/ g[4] \in InStage1 /\ h[4] \in InStage1
        \/ g[4] \in InStage2 /\ h[4] \in InStage2
        \/ g[4] \in InLists /\ h[4] \in InLists
        \/ g[4] \in InFence /\ h[4] \in InFence
        \/ g[4] \in InMshr /\ h[4] \in InMshr
        \/ g[4] \in InUc /\ h[4] \in InUc
    BY <1>3, <1>6
  <2>2. CASE g[4] \in InStage1 \/ g[4] \in InStage2 \/ g[4] \in InFence \/ g[4] \in InUc
    BY <1>1, <1>3, <1>6, <2>2 DEF Partition
  <2>3. CASE g[4] \in InLists
    <3>1. PICK k \in Lines : \E i \in 1 .. Len(waitq[k]) :
              g = <<"rtab", k, i, waitq[k][i].tid>>
      BY <1>1, <1>3, <2>3 DEF Partition
    <3>2. PICK i \in 1 .. Len(waitq[k]) : g = <<"rtab", k, i, waitq[k][i].tid>>
      BY <3>1
    <3>3. PICK l \in Lines : \E j \in 1 .. Len(waitq[l]) :
              h = <<"rtab", l, j, waitq[l][j].tid>>
      BY <1>1, <1>3, <1>6, <2>3 DEF Partition
    <3>4. PICK j \in 1 .. Len(waitq[l]) : h = <<"rtab", l, j, waitq[l][j].tid>>
      BY <3>3
    <3>5. k = l /\ i = j
      BY <1>1, <1>6, <3>2, <3>4 DEF ListsInjective
    <3> QED
      BY <3>2, <3>4, <3>5
  <2>4. CASE g[4] \in InMshr
    <3>1. PICK m \in mshr : m.need /\ g = <<"mshr", m.req.line, 0, m.req.tid>>
      BY <1>1, <1>3, <2>4 DEF Partition
    <3>2. PICK n \in mshr : n.need /\ h = <<"mshr", n.req.line, 0, n.req.tid>>
      BY <1>1, <1>3, <1>6, <2>4 DEF Partition
    <3> QED
      BY <1>1, <1>6, <3>1, <3>2 DEF MshrInjective
  <2> QED
    BY <2>1, <2>2, <2>3, <2>4
<1> QED
  BY <1>5, <1>6 DEF RequestConservation

RequestInv == ControlInv /\ HoldOK /\ Accounted

\* The accounting of requests is inductive, together with the control.
THEOREM RequestInvariant == Spec => []RequestInv
<1>1. Init /\ ControlInv => RequestInv
  <2> SUFFICES ASSUME Init, ControlInv
               PROVE  RequestInv
    OBVIOUS
  <2>1. /\ st1 = None /\ st2 = None /\ fence = None /\ uc = None /\ issued = {}
        /\ mshr = {} /\ \A l \in Lines : Len(waitq[l]) = 0
    BY DEF Init
  <2>2. HoldOK
    BY <2>1 DEF HoldOK
  <2>3. /\ InStage1 = {} /\ InStage2 = {} /\ InFence = {} /\ InUc = {}
        /\ InMshr = {} /\ MshrInjective
    BY <2>1 DEF InStage1, InStage2, InFence, InUc, InMshr, MshrInjective
  <2>4. InLists = {} /\ ListsInjective
    BY <2>1 DEF InLists, ListsInjective
  <2> QED
    BY <2>1, <2>2, <2>3, <2>4 DEF RequestInv, Accounted, Partition
<1>2. RequestInv /\ ControlInv' /\ [Next]_hpdVars => RequestInv'
  <2> SUFFICES ASSUME RequestInv, ControlInv', [Next]_hpdVars
               PROVE  RequestInv'
    OBVIOUS
  <2>1. CASE Next
    BY <2>1, HoldStep, AccountStep DEF RequestInv
  <2>2. CASE UNCHANGED hpdVars
    <3>1. HoldOK'
      BY <2>2 DEF hpdVars, ctrlVars, RequestInv, HoldOK, IsFence
    <3>2. ListsInjective' /\ MshrInjective'
      BY <2>2 DEF hpdVars, ctrlVars, RequestInv, Accounted, ListsInjective,
         MshrInjective
    <3>3. /\ InStage1' = InStage1 /\ InStage2' = InStage2 /\ InLists' = InLists
          /\ InFence' = InFence /\ InMshr' = InMshr /\ InUc' = InUc
          /\ issued' = issued
      BY <2>2 DEF hpdVars, ctrlVars, InStage1, InStage2, InLists, InFence, InMshr, InUc
    <3> QED
      BY <3>1, <3>2, <3>3 DEF RequestInv, Accounted, Partition
  <2> QED
    BY <2>1, <2>2
<1> QED
  BY <1>1, <1>2, ControlInvariant, PTL DEF Spec

\* Every accepted request is in exactly one place until it is answered: it is
\* neither lost nor answered twice (RequestConservation).
THEOREM RequestsAreConserved == Spec => []RequestConservation
<1>1. RequestInv => RequestConservation
  BY AccountedIsHeld DEF RequestInv, ControlInv
<1> QED
  BY <1>1, RequestInvariant, PTL

-----------------------------------------------------------------------------
(* No wake-up is lost.                                                       *)

\* An on-hold request waits for one thing; one whose refill failed for none;
\* one that waits for an arbitrated refill will miss when it is replayed.
WaitOK ==
    \A l \in Lines :
        /\ \A x, y \in deps[l] : x = y
        /\ rtabErr[l] => deps[l] = {} /\ waitq[l] # <<>>
        /\ deps[l] \cap Arbitrated # {} =>
              WillMiss(l) /\ ~MshrHit(l) /\ ~MissInStage2(l)

\* A miss takes a way of the set of its line.
WayOK ==
    /\ \A m \in mshr : m.way \in WaysOf[m.req.line]
    /\ \A l \in Lines : MissInStage2(l) => st2.entry.way \in WaysOf[l]

\* The flush directory can be counted.
FlushFinite == IsFiniteSet({l \in Lines : FlushHit(l)})

WaitInv == WaitOK /\ WayOK /\ FlushFinite /\ WaitersHaveCause

\* Steps that change nothing an on-hold request waits for.
LEMMA WaitFrame ==
    ASSUME WaitInv, valid' = valid,
           UNCHANGED <<nline, tag, waitq, deps, fetchWay, rtabErr, mshr, fetch,
                       flush, st2>>
    PROVE  WaitInv'
<1>1. \A l \in Lines :
          /\ Hit(l)' = Hit(l) /\ CheckHit(l)' = CheckHit(l)
          /\ MshrHit(l)' = MshrHit(l) /\ MissInStage2(l)' = MissInStage2(l)
          /\ FlushHit(l)' = FlushHit(l) /\ WillMiss(l)' = WillMiss(l)
  BY DEF Hit, HitWays, CheckHit, MshrHit, MissInStage2, FlushHit, WillMiss
<1>2. WaitOK'
  BY <1>1 DEF WaitInv, WaitOK
<1>3. WayOK'
  BY DEF WaitInv, WayOK, MissInStage2
<1>4. {l \in Lines : FlushHit(l)}' = {l \in Lines : FlushHit(l)}
  BY DEF FlushHit
<1>5. FlushFinite' /\ FlushReady' = FlushReady
  BY <1>4 DEF WaitInv, FlushFinite, FlushReady
<1>6. RefillComes' = RefillComes /\ MshrReady' = MshrReady
  BY <1>1 DEF RefillComes, MshrReady
<1>7. \A l \in Lines : RefillOfSetComes(l)' = RefillOfSetComes(l)
  BY <1>1 DEF RefillOfSetComes
<1>8. WaitersHaveCause'
  BY <1>1, <1>5, <1>6, <1>7 DEF WaitInv, WaitersHaveCause
<1> QED
  BY <1>2, <1>3, <1>5, <1>8 DEF WaitInv

\* A victim buffer allocation is for a line that is cached.
LEMMA WaitStage2Vbuf ==
    ASSUME ControlInv, WaitInv, Stage2Vbuf
    PROVE  WaitInv'
<1>1. /\ st2 # None /\ st2.op = "VBUF" /\ st2' = None
      /\ UNCHANGED <<tag, waitq, deps, fetchWay, rtabErr, mshr, fetch, flush>>
  BY DEF Stage2Vbuf, ramVars, dirVars, rtabVars, missVars
<1>2. st2.way \in Ways /\ tag[st2.way] = st2.line /\ AllocReady
  BY <1>1, Stage2Fields DEF ControlInv, TypeOK, Stage2OK
<1>3. nline' = st2.line /\ state = "IDLE"
  BY <1>2 DEF Stage2Vbuf, VbufAlloc, AllocReady
<1>4. \A l \in Lines :
          /\ Hit(l)' = Hit(l) /\ MshrHit(l)' = MshrHit(l) /\ FlushHit(l)' = FlushHit(l)
          /\ ~MissInStage2(l) /\ ~MissInStage2(l)' /\ ~CheckHit(l)
          /\ CheckHit(l)' => Hit(l)
  BY <1>1, <1>2, <1>3 DEF Hit, HitWays, CheckHit, valid, MshrHit, MissInStage2, FlushHit
<1>5. \A l \in Lines : WillMiss(l)' = WillMiss(l)
  BY <1>1, <1>4 DEF WillMiss
<1>6. WaitOK'
  BY <1>1, <1>4, <1>5 DEF WaitInv, WaitOK
<1>7. WayOK'
  BY <1>1, <1>4 DEF WaitInv, WayOK
<1>8. {l \in Lines : FlushHit(l)}' = {l \in Lines : FlushHit(l)}
  BY <1>1 DEF FlushHit
<1>9. FlushFinite' /\ FlushReady' = FlushReady
  BY <1>8 DEF WaitInv, FlushFinite, FlushReady
<1>10. RefillComes' = RefillComes /\ MshrReady' = MshrReady
  BY <1>1, <1>4, <1>5 DEF RefillComes, MshrReady
<1>11. \A l \in Lines : RefillOfSetComes(l)' = RefillOfSetComes(l)
  BY <1>1, <1>4, <1>5 DEF RefillOfSetComes
<1>12. WaitersHaveCause'
  BY <1>1, <1>4, <1>9, <1>10, <1>11 DEF WaitInv, WaitersHaveCause
<1> QED
  BY <1>6, <1>7, <1>9, <1>12 DEF WaitInv

\* A miss enters the MSHR and reserves its way.
LEMMA WaitStage2Miss ==
    ASSUME ControlInv, WaitInv, Stage2Miss
    PROVE  WaitInv'
<1> DEFINE e == st2.entry
<1>1. /\ st2 # None /\ st2.op = "MISS" /\ st2' = None
      /\ mshr' = mshr \cup {e} /\ fetch' = fetch \cup {e.way}
      /\ UNCHANGED <<state, nline, tag, waitq, deps, fetchWay, rtabErr, flush>>
  BY DEF Stage2Miss, ramVars, rtabVars, VbufSafeConsume, vbufRegs
<1>2. e \in Misses
  BY <1>1, Stage2Fields DEF ControlInv, TypeOK
<1>3. e.req \in Requests
  BY <1>2 DEF Misses
<1>4. e.req.line \in Lines
  BY <1>3, RequestFields
<1>5. \A l \in Lines :
          /\ Hit(l)' = Hit(l) /\ CheckHit(l)' = CheckHit(l) /\ FlushHit(l)' = FlushHit(l)
          /\ MissInStage2(l) = (l = e.req.line) /\ ~MissInStage2(l)'
          /\ MshrHit(l)' = (MshrHit(l) \/ l = e.req.line)
  BY <1>1 DEF Hit, HitWays, CheckHit, valid, MshrHit, MissInStage2, FlushHit
<1>6. \A l \in Lines : WillMiss(l)' = WillMiss(l)
  BY <1>1, <1>5 DEF WillMiss
<1>7. WaitOK'
  BY <1>1, <1>5, <1>6 DEF WaitInv, WaitOK
<1>8. WayOK' /\ e.way \in WaysOf[e.req.line]
  BY <1>1, <1>4, <1>5 DEF WaitInv, WayOK
<1>9. {l \in Lines : FlushHit(l)}' = {l \in Lines : FlushHit(l)}
  BY <1>1 DEF FlushHit
<1>10. FlushFinite' /\ FlushReady' = FlushReady
  BY <1>9 DEF WaitInv, FlushFinite, FlushReady
<1>11. RefillComes' /\ (~MshrReady => ~MshrReady')
  BY <1>1 DEF RefillComes, MshrReady
<1>12. \A l \in Lines : RefillOfSetComes(l) => RefillOfSetComes(l)'
  BY <1>1, <1>5, <1>6, <1>8 DEF RefillOfSetComes
<1>13. WaitersHaveCause'
  BY <1>1, <1>5, <1>10, <1>11, <1>12 DEF WaitInv, WaitersHaveCause
<1> QED
  BY <1>7, <1>8, <1>10, <1>13 DEF WaitInv

\* A directory update may start a flush.
LEMMA WaitStage2Dir ==
    ASSUME ControlInv, WaitInv, Stage2Dir
    PROVE  WaitInv'
<1>1. /\ st2 # None /\ st2.op = "DIR" /\ st2' = None
      /\ flush' = IF st2.flush THEN [flush EXCEPT ![st2.line] = data[st2.way]]
                  ELSE flush
      /\ UNCHANGED <<state, nline, tag, waitq, deps, fetchWay, rtabErr, mshr, fetch>>
  BY DEF Stage2Dir, vbufVars, rtabVars, missVars
<1>2. /\ st2.line \in Lines /\ st2.way \in Ways /\ st2.flush \in BOOLEAN
      /\ flush \in [Lines -> LineData \cup {None}] /\ data \in [Ways -> LineData]
  BY <1>1, Stage2Fields DEF ControlInv, TypeOK, VbufTypeOK
<1>3. data[st2.way] # None
  BY <1>2, NoneAssumption
<1>4. \A l \in Lines :
          /\ Hit(l)' = Hit(l) /\ CheckHit(l)' = CheckHit(l) /\ MshrHit(l)' = MshrHit(l)
          /\ ~MissInStage2(l) /\ ~MissInStage2(l)'
  BY <1>1 DEF Hit, HitWays, CheckHit, valid, MshrHit, MissInStage2
<1>5. \A l \in Lines : FlushHit(l)' = (FlushHit(l) \/ (st2.flush /\ l = st2.line))
  BY <1>1, <1>2, <1>3 DEF FlushHit
<1>6. \A l \in Lines : WillMiss(l)' = WillMiss(l)
  BY <1>1, <1>4 DEF WillMiss
<1>7. WaitOK'
  BY <1>1, <1>4, <1>6 DEF WaitInv, WaitOK
<1>8. WayOK'
  BY <1>1, <1>4 DEF WaitInv, WayOK
<1> DEFINE S == {l \in Lines : FlushHit(l)}
           T == {l \in Lines : FlushHit(l)'}
<1>9. S \subseteq T /\ T \subseteq S \cup {st2.line}
  BY <1>5
<1>10. IsFiniteSet(S)
  BY DEF WaitInv, FlushFinite
<1>11. IsFiniteSet(T) /\ Cardinality(S) <= Cardinality(T)
  <2> HIDE DEF S, T
  <2>1. IsFiniteSet(S \cup {st2.line})
    BY <1>10, FS_AddElement
  <2>2. IsFiniteSet(T)
    BY <1>9, <2>1, FS_Subset
  <2> QED
    BY <1>9, <2>2, FS_Subset
<1>12. Cardinality(S) \in Nat /\ Cardinality(T) \in Nat /\ FlushEntries \in Nat
  BY <1>10, <1>11, FS_CardinalityType, HpdcacheAssumption
<1>13. FlushReady' => FlushReady
  <2> SUFFICES ASSUME FlushReady'
               PROVE  FlushReady
    OBVIOUS
  <2>1. Cardinality(T) < FlushEntries
    BY DEF FlushReady
  <2>2. Cardinality(S) < FlushEntries
    <3> HIDE DEF S, T
    <3> QED
      BY <1>11, <1>12, <2>1
  <2> QED
    BY <2>2 DEF FlushReady
<1>14. FlushFinite'
  BY <1>11 DEF FlushFinite
<1>15. RefillComes' = RefillComes /\ MshrReady' = MshrReady
  BY <1>1, <1>4, <1>6 DEF RefillComes, MshrReady
<1>16. \A l \in Lines : RefillOfSetComes(l)' = RefillOfSetComes(l)
  BY <1>1, <1>4, <1>6 DEF RefillOfSetComes
<1>17. WaitersHaveCause'
  BY <1>1, <1>4, <1>5, <1>13, <1>15, <1>16 DEF WaitInv, WaitersHaveCause
<1> QED
  BY <1>7, <1>8, <1>14, <1>17 DEF WaitInv

\* The miss handler sends its read and wakes all that wait for that.
LEMMA WaitMissSend ==
    ASSUME ControlInv, WaitInv, MissSend
    PROVE  WaitInv'
<1>1. /\ deps' = [l \in Lines |-> deps[l] \ {"mshr_ready"}]
      /\ UNCHANGED <<state, nline, tag, waitq, fetchWay, rtabErr, fetch, flush, st2>>
  BY DEF MissSend, vbufVars, dirVars
<1>2. PICK m \in mshr : mshr' = (mshr \ {m}) \cup {[m EXCEPT !.phase = "mem"]}
  BY DEF MissSend
<1> DEFINE n == [m EXCEPT !.phase = "mem"]
<1>3. n.req = m.req /\ n.way = m.way
  BY DEF ControlInv, TypeOK, Misses
<1>4. mshr' = (mshr \ {m}) \cup {n}
  BY <1>2
<1> HIDE DEF n
<1>5. \A l \in Lines :
          /\ Hit(l)' = Hit(l) /\ CheckHit(l)' = CheckHit(l) /\ MshrHit(l)' = MshrHit(l)
          /\ FlushHit(l)' = FlushHit(l) /\ MissInStage2(l)' = MissInStage2(l)
  BY <1>1, <1>3, <1>4 DEF Hit, HitWays, CheckHit, valid, MshrHit, MissInStage2, FlushHit
<1>6. \A l \in Lines : WillMiss(l)' = WillMiss(l)
  BY <1>1, <1>5 DEF WillMiss
<1>7. \A l \in Lines : deps'[l] \subseteq deps[l] /\ "mshr_ready" \notin deps'[l]
  BY <1>1
<1>8. WaitOK'
  BY <1>1, <1>5, <1>6, <1>7 DEF WaitInv, WaitOK
<1>9. WayOK'
  BY <1>1, <1>3, <1>4, <1>5 DEF WaitInv, WayOK
<1>10. {l \in Lines : FlushHit(l)}' = {l \in Lines : FlushHit(l)}
  BY <1>1 DEF FlushHit
<1>11. FlushFinite' /\ FlushReady' = FlushReady
  BY <1>10 DEF WaitInv, FlushFinite, FlushReady
<1>12. RefillComes'
  BY <1>4 DEF RefillComes
<1>13. \A l \in Lines : RefillOfSetComes(l) => RefillOfSetComes(l)'
  BY <1>1, <1>5, <1>6, <1>7 DEF RefillOfSetComes
<1>14. WaitersHaveCause'
  BY <1>1, <1>5, <1>7, <1>11, <1>12, <1>13 DEF WaitInv, WaitersHaveCause
<1> QED
  BY <1>8, <1>9, <1>11, <1>14 DEF WaitInv

\* An answer of the memory leaves the read being sent alone.
LEMMA WaitMissResp ==
    ASSUME ControlInv, WaitInv, MissResp
    PROVE  WaitInv'
<1>1. UNCHANGED <<state, nline, tag, waitq, deps, fetchWay, rtabErr, fetch, flush, st2>>
  BY DEF MissResp, vbufVars, dirVars, rtabVars
<1>2. PICK m \in mshr :
          /\ m.phase = "mem"
          /\ mshr' = (mshr \ {m}) \cup {[m EXCEPT !.phase = "resp"]}
  BY DEF MissResp
<1> DEFINE n == [m EXCEPT !.phase = "resp"]
<1>3. n.req = m.req /\ n.way = m.way
  BY DEF ControlInv, TypeOK, Misses
<1>4. mshr' = (mshr \ {m}) \cup {n}
  BY <1>2
<1> HIDE DEF n
<1>5. \A l \in Lines :
          /\ Hit(l)' = Hit(l) /\ CheckHit(l)' = CheckHit(l) /\ MshrHit(l)' = MshrHit(l)
          /\ FlushHit(l)' = FlushHit(l) /\ MissInStage2(l)' = MissInStage2(l)
  BY <1>1, <1>3, <1>4 DEF Hit, HitWays, CheckHit, valid, MshrHit, MissInStage2, FlushHit
<1>6. \A l \in Lines : WillMiss(l)' = WillMiss(l)
  BY <1>1, <1>5 DEF WillMiss
<1>7. WaitOK'
  BY <1>1, <1>5, <1>6 DEF WaitInv, WaitOK
<1>8. WayOK'
  BY <1>1, <1>3, <1>4, <1>5 DEF WaitInv, WayOK
<1>9. {l \in Lines : FlushHit(l)}' = {l \in Lines : FlushHit(l)}
  BY <1>1 DEF FlushHit
<1>10. FlushFinite' /\ FlushReady' = FlushReady
  BY <1>9 DEF WaitInv, FlushFinite, FlushReady
<1>11. RefillComes' /\ (~MshrReady => ~MshrReady')
  BY <1>2, <1>4 DEF RefillComes, MshrReady
<1>12. \A l \in Lines : RefillOfSetComes(l) => RefillOfSetComes(l)'
  BY <1>1, <1>5, <1>6 DEF RefillOfSetComes
<1>13. WaitersHaveCause'
  BY <1>1, <1>5, <1>10, <1>11, <1>12 DEF WaitInv, WaitersHaveCause
<1> QED
  BY <1>7, <1>8, <1>10, <1>13 DEF WaitInv

\* The end of a flush wakes the requests for its line and those that wait for
\* the flush controller.
LEMMA WaitFlushAck ==
    ASSUME ControlInv, WaitInv, FlushAck
    PROVE  WaitInv'
<1>1. UNCHANGED <<state, nline, tag, waitq, fetchWay, rtabErr, mshr, fetch, st2>>
  BY DEF FlushAck, vbufRegs, dirVars, missVars
<1>2. PICK l0 \in Lines :
          /\ flush' = [flush EXCEPT ![l0] = None]
          /\ deps' = [k \in Lines |->
                         deps[k] \ ({"flush_not_ready"} \cup
                                    (IF k = l0 THEN {"flush_hit"} ELSE {}))]
  BY DEF FlushAck
<1>3. flush \in [Lines -> LineData \cup {None}]
  BY DEF ControlInv, TypeOK
<1>4. \A l \in Lines :
          /\ Hit(l)' = Hit(l) /\ CheckHit(l)' = CheckHit(l) /\ MshrHit(l)' = MshrHit(l)
          /\ MissInStage2(l)' = MissInStage2(l)
  BY <1>1 DEF Hit, HitWays, CheckHit, valid, MshrHit, MissInStage2
<1>5. \A l \in Lines : FlushHit(l)' = (FlushHit(l) /\ l # l0)
  BY <1>2, <1>3 DEF FlushHit
<1>6. \A l \in Lines :
          /\ deps'[l] \subseteq deps[l] /\ "flush_not_ready" \notin deps'[l]
          /\ "flush_hit" \in deps'[l] => l # l0
  BY <1>2
<1>7. \A l \in Lines : WillMiss(l)' = WillMiss(l)
  BY <1>1, <1>4 DEF WillMiss
<1>8. WaitOK'
  BY <1>1, <1>4, <1>6, <1>7 DEF WaitInv, WaitOK
<1>9. WayOK'
  BY <1>1, <1>4 DEF WaitInv, WayOK
<1>10. FlushFinite'
  <2> DEFINE S == {l \in Lines : FlushHit(l)}
             T == {l \in Lines : FlushHit(l)'}
  <2>1. T \subseteq S /\ IsFiniteSet(S)
    BY <1>5 DEF WaitInv, FlushFinite
  <2>2. IsFiniteSet(T)
    BY <2>1, FS_Subset
  <2> QED
    BY <2>2 DEF FlushFinite
<1>11. RefillComes => RefillComes'
  BY <1>1, <1>4, <1>6, <1>7 DEF RefillComes
<1>12. \A l \in Lines : RefillOfSetComes(l) => RefillOfSetComes(l)'
  BY <1>1, <1>4, <1>6, <1>7 DEF RefillOfSetComes
<1>13. MshrReady' = MshrReady
  BY <1>1 DEF MshrReady
<1>14. WaitersHaveCause'
  BY <1>1, <1>4, <1>5, <1>6, <1>11, <1>12, <1>13 DEF WaitInv, WaitersHaveCause
<1> QED
  BY <1>8, <1>9, <1>10, <1>14 DEF WaitInv

\* The end of a write-back wakes the requests for the line of the buffer.
LEMMA WaitVbufDone ==
    ASSUME ControlInv, WaitInv, VbufDone
    PROVE  WaitInv'
<1>1. /\ state = "WAIT_RESP" /\ state' = "IDLE"
      /\ deps' = [deps EXCEPT ![nline] = @ \ {"vbuf_hit"}]
      /\ UNCHANGED <<nline, tag, waitq, fetchWay, rtabErr, mshr, fetch, flush, st2>>
  BY DEF VbufDone, VbufMemResp, VbufRelease, dirVars, missVars
<1>2. nline \in Lines /\ deps \in [Lines -> SUBSET Deps]
  BY <1>1 DEF ControlInv, TypeOK, VbufTypeOK, valid
<1>3. \A l \in Lines :
          /\ Hit(l)' = Hit(l) /\ MshrHit(l)' = MshrHit(l) /\ FlushHit(l)' = FlushHit(l)
          /\ MissInStage2(l)' = MissInStage2(l) /\ ~CheckHit(l)'
  BY <1>1 DEF Hit, HitWays, CheckHit, valid, MshrHit, MissInStage2, FlushHit
<1>4. \A l \in Lines : WillMiss(l) => WillMiss(l)'
  BY <1>1, <1>3 DEF WillMiss
<1>5. \A l \in Lines :
          deps'[l] \subseteq deps[l] /\ ("vbuf_hit" \in deps'[l] => l # nline)
  BY <1>1, <1>2
<1>6. WaitOK'
  BY <1>1, <1>3, <1>4, <1>5 DEF WaitInv, WaitOK
<1>7. WayOK'
  BY <1>1, <1>3 DEF WaitInv, WayOK
<1>8. {l \in Lines : FlushHit(l)}' = {l \in Lines : FlushHit(l)}
  BY <1>1 DEF FlushHit
<1>9. FlushFinite' /\ FlushReady' = FlushReady
  BY <1>8 DEF WaitInv, FlushFinite, FlushReady
<1>10. RefillComes => RefillComes'
  BY <1>1, <1>3, <1>4, <1>5 DEF RefillComes
<1>11. \A l \in Lines : RefillOfSetComes(l) => RefillOfSetComes(l)'
  BY <1>1, <1>3, <1>4, <1>5 DEF RefillOfSetComes
<1>12. MshrReady' = MshrReady
  BY <1>1 DEF MshrReady
<1>13. \A l \in Lines : CheckHit(l) => l = nline
  BY DEF CheckHit
<1>14. WaitersHaveCause'
  BY <1>1, <1>3, <1>5, <1>9, <1>10, <1>11, <1>12, <1>13 DEF WaitInv, WaitersHaveCause
<1> QED
  BY <1>6, <1>7, <1>9, <1>14 DEF WaitInv

\* A refill wakes the requests for its line and its way, and of those that wait
\* for an entry or a way one, who will bring about the next refill.
LEMMA WaitRefill ==
    ASSUME ControlInv, WaitInv, Refill
    PROVE  WaitInv'
<1>1. TypeOK /\ DirectoryConsistent /\ FifoOK
  BY DEF ControlInv
<1>2. PICK m \in mshr :
          /\ m.req.line = Head(fifo).line
          /\ mshr' = mshr \ {m} /\ fetch' = fetch \ {m.way}
          /\ RefillRam(m)
          /\ RefillWakeUp(m.req.line, m.way, Head(fifo).err)
  BY RefillStep
<1> DEFINE lm == m.req.line
           w == m.way
           err == Head(fifo).err
<1>3. lm \in Lines /\ w \in Ways /\ w \in WaysOf[lm]
  BY <1>1, MissFacts DEF WaitInv, WayOK
<1>4. UNCHANGED <<state, nline, waitq, fetchWay, flush, st2>>
  BY <1>2 DEF Refill, RefillWakeUp, vbufRegs
<1>5. m.phase = "resp"
  <2>1. fifo # <<>>
    BY DEF Refill
  <2>2. 1 \in 1 .. Len(fifo) /\ Head(fifo) = fifo[1]
    BY <1>1, <2>1 DEF TypeOK
  <2>3. PICK n \in mshr : n.req.line = Head(fifo).line /\ n.phase = "resp"
    BY <1>1, <2>2 DEF FifoOK
  <2> QED
    BY <1>1, <1>2, <2>3 DEF DirectoryConsistent
<1>6. PICK full \in Grants({k \in Lines : "mshr_full" \in deps[k]}),
           unav \in Grants({k \in Lines : /\ "dir_unavailable" \in deps[k]
                                          /\ WaysOf[k] = WaysOf[lm]}) :
          deps' = [k \in Lines |->
                      deps[k] \ ((IF k = lm THEN {"mshr_hit", "write_miss"}
                                  ELSE {}) \cup
                                 (IF fetchWay[k] = w THEN {"dir_fetch"}
                                  ELSE {}) \cup
                                 (IF k \in full THEN {"mshr_full"}
                                  ELSE {}) \cup
                                 (IF k \in unav THEN {"dir_unavailable"}
                                  ELSE {}))]
  BY <1>2 DEF RefillWakeUp
<1>7. \A k \in Lines :
          /\ deps'[k] \subseteq deps[k]
          /\ k = lm => "mshr_hit" \notin deps'[k] /\ "write_miss" \notin deps'[k]
          /\ fetchWay[k] = w => "dir_fetch" \notin deps'[k]
          /\ k \in full => "mshr_full" \notin deps'[k]
          /\ k \in unav => "dir_unavailable" \notin deps'[k]
  BY <1>6
<1>8. /\ rtabErr \in [Lines -> BOOLEAN]
      /\ rtabErr' = [rtabErr EXCEPT ![lm] = @ \/ (err /\ "write_miss" \in deps[lm])]
  BY <1>1, <1>2 DEF TypeOK, RefillWakeUp
<1>9. \A k \in Lines : k # lm => rtabErr'[k] = rtabErr[k]
  BY <1>3, <1>8
<1>10. rtabErr'[lm] => rtabErr[lm] \/ "write_miss" \in deps[lm]
  BY <1>3, <1>8
<1>11. \A k \in Lines : k # lm /\ ~Hit(k) => ~Hit(k)'
  <2>1. /\ tag \in [Ways -> Lines \cup {NoLine}]
        /\ tag' = [tag EXCEPT ![w] = lm] \/ tag' = [tag EXCEPT ![w] = NoLine]
    BY <1>1, <1>2 DEF TypeOK, VbufTypeOK, RefillRam
  <2>2. NoLine \notin Lines
    BY VbufAssumption
  <2> QED
    BY <1>3, <2>1, <2>2 DEF Hit, HitWays
<1>12. \A k \in Lines :
          /\ CheckHit(k)' = CheckHit(k) /\ FlushHit(k)' = FlushHit(k)
          /\ MissInStage2(k)' = MissInStage2(k)
          /\ MshrHit(k)' => MshrHit(k)
          /\ k # lm /\ MshrHit(k) => MshrHit(k)'
  BY <1>2, <1>4 DEF CheckHit, valid, MshrHit, MissInStage2, FlushHit
<1>13. \A k \in Lines : k # lm /\ WillMiss(k) => WillMiss(k)'
  BY <1>4, <1>9, <1>11, <1>12 DEF WillMiss
<1>14. MshrHit(lm)
  BY DEF MshrHit
<1>15. \A k \in Lines : deps[k] \cap Arbitrated # {} => k # lm /\ WillMiss(k)'
  BY <1>3, <1>13, <1>14 DEF WaitInv, WaitOK
<1>16. WaitOK'
  <2> SUFFICES ASSUME NEW k \in Lines
               PROVE  /\ \A x, y \in deps'[k] : x = y
                      /\ rtabErr'[k] => deps'[k] = {} /\ waitq'[k] # <<>>
                      /\ deps'[k] \cap Arbitrated # {} =>
                            WillMiss(k)' /\ ~MshrHit(k)' /\ ~MissInStage2(k)'
    BY DEF WaitOK
  <2>1. \A x, y \in deps'[k] : x = y
    BY <1>7 DEF WaitInv, WaitOK
  <2>2. rtabErr'[k] => deps'[k] = {} /\ waitq'[k] # <<>>
    <3>1. CASE rtabErr[k]
      BY <1>4, <1>7, <3>1 DEF WaitInv, WaitOK
    <3>2. CASE k = lm /\ "write_miss" \in deps[lm]
      <4>1. deps[k] = {"write_miss"} /\ waitq[k] # <<>>
        BY <3>2 DEF WaitInv, WaitOK, WaitersHaveCause
      <4> QED
        BY <1>4, <1>7, <3>2, <4>1
    <3> QED
      BY <1>9, <1>10, <3>1, <3>2
  <2>3. deps'[k] \cap Arbitrated # {} =>
            WillMiss(k)' /\ ~MshrHit(k)' /\ ~MissInStage2(k)'
    <3> SUFFICES ASSUME deps'[k] \cap Arbitrated # {}
                 PROVE  WillMiss(k)' /\ ~MshrHit(k)' /\ ~MissInStage2(k)'
      OBVIOUS
    <3>1. deps[k] \cap Arbitrated # {}
      BY <1>7
    <3> QED
      BY <1>12, <1>15, <3>1 DEF WaitInv, WaitOK
  <2> QED
    BY <2>1, <2>2, <2>3
<1>17. WayOK'
  BY <1>2, <1>4, <1>12 DEF WaitInv, WayOK
<1>18. {l \in Lines : FlushHit(l)}' = {l \in Lines : FlushHit(l)}
  BY <1>4 DEF FlushHit
<1>19. FlushFinite' /\ FlushReady' = FlushReady
  BY <1>18 DEF WaitInv, FlushFinite, FlushReady
<1>20. ASSUME NEW l \in Lines, "mshr_full" \in deps'[l]
       PROVE  RefillComes'
  <2>1. PICK k \in Lines : "mshr_full" \in deps[k] /\ k \in full
    BY <1>6, <1>7, <1>20 DEF Grants
  <2>2. deps'[k] = {}
    BY <1>7, <2>1 DEF WaitInv, WaitOK
  <2>3. WillMiss(k)'
    BY <1>15, <2>1 DEF Arbitrated
  <2> QED
    BY <2>2, <2>3 DEF RefillComes
<1>21. ASSUME NEW l \in Lines, "dir_unavailable" \in deps'[l]
       PROVE  RefillOfSetComes(l)'
  <2>1. CASE WaysOf[l] = WaysOf[lm]
    <3>1. PICK k \in Lines :
              "dir_unavailable" \in deps[k] /\ WaysOf[k] = WaysOf[l] /\ k \in unav
      BY <1>6, <1>7, <1>21, <2>1 DEF Grants
    <3>2. "dir_unavailable" \notin deps'[k]
      BY <1>7, <3>1
    <3>3. WillMiss(k)'
      BY <1>15, <3>1 DEF Arbitrated
    <3> QED
      BY <3>1, <3>2, <3>3 DEF RefillOfSetComes
  <2>2. CASE WaysOf[l] # WaysOf[lm]
    <3>1. w \notin WaysOf[l]
      BY <1>3, <2>2, HpdcacheAssumption
    <3>2. RefillOfSetComes(l)
      BY <1>7, <1>21 DEF WaitInv, WaitersHaveCause
    <3>3. CASE fetch \cap WaysOf[l] # {}
      BY <1>2, <3>1, <3>3 DEF RefillOfSetComes
    <3>4. ASSUME NEW k \in Lines, WaysOf[k] = WaysOf[l],
                 \/ MissInStage2(k)
                 \/ WillMiss(k) /\ "dir_unavailable" \notin deps[k]
          PROVE  RefillOfSetComes(l)'
      <4>1. k # lm
        BY <2>2, <3>4
      <4> QED
        BY <1>7, <1>12, <1>13, <3>4, <4>1 DEF RefillOfSetComes
    <3> QED
      BY <3>2, <3>3, <3>4 DEF RefillOfSetComes
  <2> QED
    BY <2>1, <2>2
<1>22. ~MshrReady => ~MshrReady'
  BY <1>2, <1>5 DEF MshrReady
<1>23. WaitersHaveCause'
  <2> SUFFICES ASSUME NEW l \in Lines
               PROVE  /\ deps'[l] # {} => waitq'[l] # <<>>
                      /\ "vbuf_hit" \in deps'[l] => CheckHit(l)'
                      /\ "mshr_hit" \in deps'[l] => MshrHit(l)'
                      /\ "write_miss" \in deps'[l] => MshrHit(l)' \/ MissInStage2(l)'
                      /\ "dir_fetch" \in deps'[l] => fetchWay'[l] \in fetch'
                      /\ "mshr_ready" \in deps'[l] => ~MshrReady'
                      /\ "flush_hit" \in deps'[l] => FlushHit(l)'
                      /\ "flush_not_ready" \in deps'[l] => ~FlushReady'
    BY <1>20, <1>21 DEF WaitersHaveCause
  <2>1. "dir_fetch" \in deps'[l] => fetchWay'[l] \in fetch'
    BY <1>2, <1>4, <1>7 DEF WaitInv, WaitersHaveCause
  <2>2. /\ "mshr_hit" \in deps'[l] => MshrHit(l)'
        /\ "write_miss" \in deps'[l] => MshrHit(l)' \/ MissInStage2(l)'
    BY <1>7, <1>12 DEF WaitInv, WaitersHaveCause
  <2>3. /\ deps'[l] # {} => waitq'[l] # <<>>
        /\ "vbuf_hit" \in deps'[l] => CheckHit(l)'
        /\ "mshr_ready" \in deps'[l] => ~MshrReady'
        /\ "flush_hit" \in deps'[l] => FlushHit(l)'
        /\ "flush_not_ready" \in deps'[l] => ~FlushReady'
    BY <1>4, <1>7, <1>12, <1>19, <1>22 DEF WaitInv, WaitersHaveCause
  <2> QED
    BY <2>1, <2>2, <2>3
<1> QED
  BY <1>16, <1>17, <1>19, <1>23 DEF WaitInv

\* What stage 1 does to the list of its line: nothing that a waiter sees, the
\* end of its head, or a new cause to wait.
ListSame(l) ==
    /\ deps'[l] = deps[l] /\ fetchWay'[l] = fetchWay[l] /\ rtabErr'[l] = rtabErr[l]
    /\ waitq[l] # <<>> => waitq'[l] # <<>>
ListDone(l) ==
    /\ deps'[l] = {} /\ ~rtabErr'[l]
    /\ WillMiss(l) => MissSent(TRUE)
ListHeld(l) ==
    /\ waitq'[l] # <<>> /\ ~rtabErr'[l] /\ ~rtabErr[l]
    /\ \/ HoldCause(deps'[l], fetchWay'[l]) /\ NoMissSent
       \/ deps'[l] = {"write_miss"} /\ MissSent(FALSE)

LEMMA Stage1Lists ==
    ASSUME ControlInv, WaitInv, Stage1
    PROVE  LET l == st1.req.line IN
           /\ \A k \in Lines \ {l} :
                 /\ deps'[k] = deps[k] /\ fetchWay'[k] = fetchWay[k]
                 /\ rtabErr'[k] = rtabErr[k] /\ waitq'[k] = waitq[k]
           /\ \/ ListSame(l) /\ (NoMissSent \/ (MissSent(TRUE) /\ waitq[l] = <<>>))
              \/ ListDone(l) /\ (NoMissSent \/ MissSent(TRUE))
              \/ ListHeld(l)
<1> DEFINE r == st1.req
           l == st1.req.line
<1>1. TypeOK /\ RequestOutcome
  BY Stage1RequestOutcome DEF ControlInv
<1>2. st1 # None
  BY <1>1, Stage1Outcome DEF Outcome, Stage1Frame, ControlInv, DirectoryConsistent
<1>3. /\ r \in Requests /\ l \in Lines /\ st1.replay \in BOOLEAN
      /\ waitq \in [Lines -> Seq(Requests)] /\ deps \in [Lines -> SUBSET Deps]
      /\ fetchWay \in [Lines -> Ways] /\ rtabErr \in [Lines -> BOOLEAN]
  BY <1>1, <1>2, Stage1Request DEF TypeOK
<1>4. CASE /\ UNCHANGED <<waitq, deps, fetchWay, rtabErr>>
           /\ NoMissSent \/ (MissSent(TRUE) /\ waitq[l] = <<>>)
  BY <1>3, <1>4 DEF ListSame
<1>5. ASSUME Commit, ~IsFence(r), st1.replay, NoMissSent \/ MissSent(TRUE),
             WillMiss(l) => MissSent(TRUE)
      PROVE  /\ \A k \in Lines \ {l} :
                   /\ deps'[k] = deps[k] /\ fetchWay'[k] = fetchWay[k]
                   /\ rtabErr'[k] = rtabErr[k] /\ waitq'[k] = waitq[k]
             /\ ListDone(l) /\ (NoMissSent \/ MissSent(TRUE))
  <2>1. /\ waitq' = [waitq EXCEPT ![l] = Tail(@)] /\ deps' = [deps EXCEPT ![l] = {}]
        /\ rtabErr' = [rtabErr EXCEPT ![l] = FALSE] /\ fetchWay' = fetchWay
    BY <1>5 DEF Commit
  <2> QED
    BY <1>3, <1>5, <2>1 DEF ListDone
<1>6. CASE Answered
  <2>1. CASE ~st1.replay
    BY <1>4, <1>6, <2>1 DEF Answered, Commit, rtabVars
  <2>2. CASE st1.replay
    <3>1. ~WillMiss(l)
      BY <1>6, <2>2 DEF Answered, WillMiss
    <3> QED
      BY <1>5, <1>6, <2>2, <3>1 DEF Answered
  <2> QED
    BY <1>3, <2>1, <2>2
<1>7. CASE HandedOver
  <2>1. CASE ~st1.replay
    <3>1. UNCHANGED <<waitq, deps, fetchWay, rtabErr>> /\ MissSent(TRUE)
      BY <1>7, <2>1 DEF HandedOver, Commit, rtabVars
    <3>2. waitq[l] = <<>>
      BY <1>7, <2>1 DEF HandedOver, Proceeds, Linked
    <3> QED
      BY <1>4, <3>1, <3>2
  <2>2. CASE st1.replay
    BY <1>5, <1>7, <2>2 DEF HandedOver, Proceeds
  <2> QED
    BY <1>3, <2>1, <2>2
<1>8. CASE KeptOnHold
  <2>1. PICK d \in SUBSET Deps, w \in Ways :
            /\ OnHold(d, w)
            /\ \/ HoldCause(d, w) /\ NoMissSent
               \/ d = {"write_miss"} /\ MissSent(FALSE)
    BY <1>8 DEF KeptOnHold
  <2>2. /\ waitq' = IF st1.replay THEN waitq ELSE [waitq EXCEPT ![l] = <<r>>]
        /\ deps' = [deps EXCEPT ![l] = d] /\ fetchWay' = [fetchWay EXCEPT ![l] = w]
        /\ rtabErr' = rtabErr
    BY <2>1 DEF OnHold
  <2>3. \A k \in Lines \ {l} :
            /\ deps'[k] = deps[k] /\ fetchWay'[k] = fetchWay[k]
            /\ rtabErr'[k] = rtabErr[k] /\ waitq'[k] = waitq[k]
    BY <1>3, <2>2
  <2>4. deps'[l] = d /\ fetchWay'[l] = w /\ rtabErr'[l] = rtabErr[l]
    BY <1>3, <2>2
  <2>5. CASE st1.replay
    <3>1. ~rtabErr[l] /\ ~IsFence(r)
      BY <1>8, <2>5 DEF KeptOnHold, Proceeds
    <3>2. waitq[l] # <<>> /\ waitq' = waitq
      BY <1>2, <2>2, <2>5, <3>1 DEF ControlInv, QueueOK
    <3> QED
      BY <2>1, <2>3, <2>4, <3>1, <3>2 DEF ListHeld
  <2>6. CASE ~st1.replay
    <3>1. waitq[l] = <<>>
      BY <1>8, <2>6 DEF KeptOnHold, Proceeds, Linked
    <3>2. ~rtabErr[l]
      BY <1>3, <3>1 DEF WaitInv, WaitOK
    <3>3. waitq'[l] = <<r>>
      BY <1>3, <2>2, <2>6
    <3>4. waitq'[l] # <<>>
      BY <3>3
    <3> QED
      BY <2>1, <2>3, <2>4, <3>2, <3>4 DEF ListHeld
  <2> QED
    BY <1>3, <2>5, <2>6
<1>9. CASE QueuedBehind
  <2>1. /\ waitq' = [waitq EXCEPT ![l] = Append(@, r)] /\ NoMissSent
        /\ UNCHANGED <<deps, fetchWay, rtabErr>>
    BY <1>9 DEF QueuedBehind
  <2>2. waitq'[l] = Append(waitq[l], r) /\ \A k \in Lines \ {l} : waitq'[k] = waitq[k]
    BY <1>3, <2>1
  <2>3. waitq[l] \in Seq(Requests)
    BY <1>3
  <2>4. Append(waitq[l], r) # <<>>
    BY <1>3, <2>3
  <2> QED
    BY <2>1, <2>2, <2>4 DEF ListSame
<1>10. CASE FenceKept
  BY <1>4, <1>10 DEF FenceKept, FenceOnHold
<1>11. CASE FenceIssued
  BY <1>4, <1>11 DEF FenceIssued, Commit, rtabVars, NoMissSent
<1> QED
  BY <1>1, <1>6, <1>7, <1>8, <1>9, <1>10, <1>11 DEF RequestOutcome

\* A full MSHR, or a set without a victim, has a refill to come.
LEMMA FullHasMiss ==
    ASSUME MshrFull
    PROVE  mshr # {}
BY FS_EmptySet, HpdcacheAssumption DEF MshrFull

LEMMA UnavailableHasMiss ==
    ASSUME DirectoryConsistent, NEW l \in Lines, VictimWays(l) = {}
    PROVE  mshr # {} /\ fetch \cap WaysOf[l] # {}
BY NoVictim DEF DirectoryConsistent

\* Stage 1 puts a request on hold only with a cause.
LEMMA WaitStage1 ==
    ASSUME ControlInv, WaitInv, Stage1
    PROVE  WaitInv'
<1>1. TypeOK /\ DirectoryConsistent
  BY DEF ControlInv
<1>2. Stage1Frame
  BY <1>1, Stage1Outcome DEF Outcome, DirectoryConsistent
<1>3. /\ st1 # None /\ st2 = None
      /\ UNCHANGED <<state, nline, tag, mshr, fetch, flush>>
  BY <1>2 DEF Stage1Frame, vbufRegs
<1>4. PICK l0 \in Lines : l0 = st1.req.line
  BY <1>1, <1>3, Stage1Request
<1>5. \A k \in Lines \ {l0} :
          /\ deps'[k] = deps[k] /\ fetchWay'[k] = fetchWay[k]
          /\ rtabErr'[k] = rtabErr[k] /\ waitq'[k] = waitq[k]
  BY <1>4, Stage1Lists
<1>6. \/ ListSame(l0) /\ (NoMissSent \/ (MissSent(TRUE) /\ waitq[l0] = <<>>))
      \/ ListDone(l0) /\ (NoMissSent \/ MissSent(TRUE))
      \/ ListHeld(l0)
  BY <1>4, Stage1Lists
<1>7. \A k \in Lines :
          /\ Hit(k)' = Hit(k) /\ CheckHit(k)' = CheckHit(k) /\ MshrHit(k)' = MshrHit(k)
          /\ FlushHit(k)' = FlushHit(k) /\ ~MissInStage2(k)
  BY <1>3 DEF Hit, HitWays, CheckHit, valid, MshrHit, MissInStage2, FlushHit
<1>8. /\ NoMissSent => \A k \in Lines : ~MissInStage2(k)'
      /\ \A b \in BOOLEAN : MissSent(b) =>
            \A k \in Lines : MissInStage2(k)' = (k = l0)
  BY <1>4 DEF NoMissSent, MissSent, MissInStage2
<1>9. \A k \in Lines : MissInStage2(k)' => k = l0 /\ st2'.entry.way \in WaysOf[l0]
  <2>1. NoMissSent \/ MissSent(TRUE) \/ MissSent(FALSE)
    BY <1>6 DEF ListHeld
  <2> QED
    BY <1>4, <1>8, <2>1 DEF MissSent
<1>10. \A k \in Lines \ {l0} : WillMiss(k)' = WillMiss(k)
  BY <1>5, <1>7 DEF WillMiss
<1>11. ListSame(l0) /\ WillMiss(l0) => WillMiss(l0)'
  BY <1>4, <1>7 DEF WillMiss, ListSame
<1>12. ListHeld(l0) /\ ~Hit(l0) /\ ~CheckHit(l0) => WillMiss(l0)'
  BY <1>4, <1>7 DEF WillMiss, ListHeld
<1>13. WayOK'
  BY <1>3, <1>9 DEF WaitInv, WayOK
<1>14. FlushFinite'
  <2>1. {k \in Lines : FlushHit(k)}' = {k \in Lines : FlushHit(k)}
    BY <1>3 DEF FlushHit
  <2> QED
    BY <2>1 DEF WaitInv, FlushFinite
<1>15. CASE ListSame(l0) /\ (NoMissSent \/ (MissSent(TRUE) /\ waitq[l0] = <<>>))
  <2>1. deps[l0] # {} => NoMissSent
    BY <1>4, <1>15 DEF WaitInv, WaitersHaveCause
  <2>2. \A k \in Lines :
            /\ deps'[k] = deps[k] /\ fetchWay'[k] = fetchWay[k]
            /\ rtabErr'[k] = rtabErr[k] /\ (waitq[k] # <<>> => waitq'[k] # <<>>)
            /\ WillMiss(k) => WillMiss(k)'
    BY <1>5, <1>10, <1>11, <1>15 DEF ListSame
  <2>3. \A k \in Lines : deps[k] # {} => ~MissInStage2(k)'
    BY <1>8, <1>9, <2>1
  <2>4. WaitOK'
    BY <1>7, <2>2, <2>3 DEF WaitInv, WaitOK
  <2>5. RefillComes => RefillComes'
    BY <1>3, <1>7, <2>2 DEF RefillComes
  <2>6. \A k \in Lines : RefillOfSetComes(k) => RefillOfSetComes(k)'
    BY <1>3, <1>7, <2>2 DEF RefillOfSetComes
  <2>7. MshrReady' = MshrReady /\ FlushReady' = FlushReady
    BY <1>3 DEF MshrReady, FlushReady, FlushHit
  <2>8. WaitersHaveCause'
    BY <1>3, <1>7, <2>2, <2>5, <2>6, <2>7 DEF WaitInv, WaitersHaveCause
  <2> QED
    BY <1>13, <1>14, <2>4, <2>8 DEF WaitInv
<1>16. CASE ListDone(l0)
  <2>1. deps'[l0] = {} /\ ~rtabErr'[l0] /\ (WillMiss(l0) => MissInStage2(l0)')
    BY <1>4, <1>8, <1>16 DEF ListDone
  <2>2. WaitOK'
    BY <1>5, <1>7, <1>9, <1>10, <2>1 DEF WaitInv, WaitOK
  <2>3. RefillComes => RefillComes'
    BY <1>3, <1>4, <1>5, <1>7, <1>10, <2>1 DEF RefillComes
  <2>4. \A k \in Lines : RefillOfSetComes(k) => RefillOfSetComes(k)'
    BY <1>3, <1>4, <1>5, <1>7, <1>10, <2>1 DEF RefillOfSetComes
  <2>5. MshrReady' = MshrReady /\ FlushReady' = FlushReady
    BY <1>3 DEF MshrReady, FlushReady, FlushHit
  <2>6. WaitersHaveCause'
    BY <1>3, <1>5, <1>7, <2>1, <2>3, <2>4, <2>5 DEF WaitInv, WaitersHaveCause
  <2> QED
    BY <1>13, <1>14, <2>2, <2>6 DEF WaitInv
<1>17. CASE ListHeld(l0)
  <2> DEFINE d == deps'[l0]
  <2>1. waitq'[l0] # <<>> /\ ~rtabErr'[l0]
    BY <1>17 DEF ListHeld
  <2>2. \/ HoldCause(d, fetchWay'[l0]) /\ NoMissSent
        \/ d = {"write_miss"} /\ MissInStage2(l0)'
    BY <1>4, <1>8, <1>17 DEF ListHeld
  <2>3. \A x, y \in d : x = y
    BY <2>2 DEF HoldCause
  <2>4. d \cap Arbitrated # {} =>
            /\ Absent(l0) /\ ~MissInStage2(l0)' /\ mshr # {}
            /\ "dir_unavailable" \in d => fetch \cap WaysOf[l0] # {}
    BY <1>1, <1>4, <1>8, <2>2, FullHasMiss, UnavailableHasMiss
       DEF HoldCause, Arbitrated
  <2>5. /\ "vbuf_hit" \in d => CheckHit(l0)
        /\ "mshr_hit" \in d => MshrHit(l0)
        /\ "write_miss" \in d => MissInStage2(l0)'
        /\ "dir_fetch" \in d => fetchWay'[l0] \in fetch
        /\ "mshr_ready" \in d => ~MshrReady
        /\ "flush_hit" \in d => FlushHit(l0)
        /\ "flush_not_ready" \in d => ~FlushReady
    BY <1>4, <2>2 DEF HoldCause
  <2> HIDE DEF d
  <2>6. WillMiss(l0) => WillMiss(l0)'
    BY <1>12, <1>17 DEF WillMiss
  <2>7. Absent(l0) => WillMiss(l0)' /\ ~MshrHit(l0)'
    BY <1>4, <1>7, <1>12, <1>17 DEF Absent
  <2>8. WaitOK'
    <3> SUFFICES ASSUME NEW k \in Lines
                 PROVE  /\ \A x, y \in deps'[k] : x = y
                        /\ rtabErr'[k] => deps'[k] = {} /\ waitq'[k] # <<>>
                        /\ deps'[k] \cap Arbitrated # {} =>
                              WillMiss(k)' /\ ~MshrHit(k)' /\ ~MissInStage2(k)'
      BY DEF WaitOK
    <3>1. CASE k = l0
      BY <2>1, <2>3, <2>4, <2>7, <3>1 DEF d
    <3>2. CASE k # l0
      BY <1>5, <1>7, <1>9, <1>10, <3>2 DEF WaitInv, WaitOK
    <3> QED
      BY <3>1, <3>2
  <2>9. RefillComes => RefillComes'
    <3>1. CASE d \cap Arbitrated # {}
      BY <1>3, <2>4, <3>1 DEF RefillComes
    <3>2. CASE d \cap Arbitrated = {}
      <4>1. \A k \in Lines : WillMiss(k) /\ deps[k] \cap Arbitrated = {} =>
                WillMiss(k)' /\ deps'[k] \cap Arbitrated = {}
        BY <1>5, <1>10, <2>6, <3>2 DEF d
      <4> QED
        BY <1>3, <1>7, <4>1 DEF RefillComes
    <3> QED
      BY <3>1, <3>2
  <2>10. ASSUME NEW k \in Lines, RefillOfSetComes(k)
         PROVE  RefillOfSetComes(k)'
    <3>1. CASE fetch \cap WaysOf[k] # {}
      BY <1>3, <3>1 DEF RefillOfSetComes
    <3>2. ASSUME NEW j \in Lines, WaysOf[j] = WaysOf[k], WillMiss(j),
                 "dir_unavailable" \notin deps[j]
          PROVE  RefillOfSetComes(k)'
      <4>1. CASE j # l0
        BY <1>5, <1>10, <3>2, <4>1 DEF RefillOfSetComes
      <4>2. CASE j = l0 /\ "dir_unavailable" \notin d
        BY <2>6, <3>2, <4>2 DEF RefillOfSetComes, d
      <4>3. CASE j = l0 /\ "dir_unavailable" \in d
        <5>1. fetch \cap WaysOf[k] # {}
          BY <2>4, <3>2, <4>3 DEF Arbitrated
        <5> QED
          BY <3>1, <5>1
      <4> QED
        BY <4>1, <4>2, <4>3
    <3> QED
      BY <1>7, <2>10, <3>1, <3>2 DEF RefillOfSetComes
  <2>11. MshrReady' = MshrReady /\ FlushReady' = FlushReady
    BY <1>3 DEF MshrReady, FlushReady, FlushHit
  <2>12. WaitersHaveCause'
    <3> SUFFICES ASSUME NEW k \in Lines
                 PROVE  /\ deps'[k] # {} => waitq'[k] # <<>>
                        /\ "vbuf_hit" \in deps'[k] => CheckHit(k)'
                        /\ "mshr_hit" \in deps'[k] => MshrHit(k)'
                        /\ "write_miss" \in deps'[k] => MshrHit(k)' \/ MissInStage2(k)'
                        /\ "mshr_full" \in deps'[k] => RefillComes'
                        /\ "dir_unavailable" \in deps'[k] => RefillOfSetComes(k)'
                        /\ "dir_fetch" \in deps'[k] => fetchWay'[k] \in fetch'
                        /\ "mshr_ready" \in deps'[k] => ~MshrReady'
                        /\ "flush_hit" \in deps'[k] => FlushHit(k)'
                        /\ "flush_not_ready" \in deps'[k] => ~FlushReady'
      BY DEF WaitersHaveCause
    <3>1. CASE k = l0
      <4>1. "mshr_full" \in d => RefillComes'
        BY <1>3, <2>4 DEF Arbitrated, RefillComes
      <4>2. "dir_unavailable" \in d => RefillOfSetComes(l0)'
        BY <1>3, <2>4 DEF Arbitrated, RefillOfSetComes
      <4> QED
        BY <1>3, <1>4, <1>7, <2>1, <2>5, <2>11, <3>1, <4>1, <4>2 DEF d
    <3>2. CASE k # l0
      BY <1>3, <1>5, <1>7, <2>9, <2>10, <2>11, <3>2 DEF WaitInv, WaitersHaveCause
    <3> QED
      BY <3>1, <3>2
  <2> QED
    BY <1>13, <1>14, <2>8, <2>12 DEF WaitInv
<1> QED
  BY <1>6, <1>15, <1>16, <1>17

\* The wait invariant is inductive, together with the control.
THEOREM WaitInvariant == Spec => []WaitInv
<1>1. Init => WaitInv
  <2> SUFFICES ASSUME Init
               PROVE  WaitInv
    OBVIOUS
  <2>1. /\ \A l \in Lines : deps[l] = {} /\ ~rtabErr[l] /\ ~FlushHit(l)
        /\ mshr = {} /\ st2 = None
    BY DEF Init, FlushHit
  <2>2. WaitOK /\ WayOK /\ WaitersHaveCause
    BY <2>1 DEF WaitOK, WayOK, WaitersHaveCause, MissInStage2
  <2>3. {l \in Lines : FlushHit(l)} = {}
    BY <2>1
  <2>4. FlushFinite
    BY <2>3, FS_EmptySet DEF FlushFinite
  <2> QED
    BY <2>2, <2>4 DEF WaitInv
<1>2. ControlInv /\ WaitInv /\ [Next]_hpdVars => WaitInv'
  <2> SUFFICES ASSUME ControlInv, WaitInv, [Next]_hpdVars
               PROVE  WaitInv'
    OBVIOUS
  <2>1. CASE AcceptCore \/ AcceptFence \/ (\E l \in Lines : AcceptReplay(l))
    BY <2>1, WaitFrame DEF AcceptCore, AcceptFence, AcceptReplay, vbufVars, valid,
       dirVars, rtabVars, missVars
  <2>2. CASE UcMem \/ UcDone \/ FenceRelease
    BY <2>2, WaitFrame DEF UcMem, UcDone, FenceRelease, vbufVars, vbufRegs, valid,
       dirVars, rtabVars, missVars
  <2>3. CASE VbufStep
    <3>1. UNCHANGED <<nline, tag>> /\ valid' = valid
      BY <2>3 DEF VbufStep, VbufRead, VbufCapture, VbufStartWriteBack, VbufMemReq,
         VbufMemData, valid
    <3> QED
      BY <2>3, <3>1, WaitFrame DEF VbufStep, ctrlVars
  <2>4. CASE UNCHANGED hpdVars
    BY <2>4, WaitFrame DEF hpdVars, vbufVars, ctrlVars, valid
  <2> QED
    BY <2>1, <2>2, <2>3, <2>4, WaitStage1, WaitStage2Vbuf, WaitStage2Miss,
       WaitStage2Dir, WaitMissSend, WaitMissResp, WaitRefill, WaitFlushAck,
       WaitVbufDone DEF Next, Stage2
<1> QED
  BY <1>1, <1>2, ControlInvariant, PTL DEF Spec

\* No wake-up is lost: what an on-hold request waits for is still to come
\* (WaitersHaveCause).
THEOREM NoWakeUpIsLost == Spec => []WaitersHaveCause
<1>1. WaitInv => WaitersHaveCause
  BY DEF WaitInv
<1> QED
  BY <1>1, WaitInvariant, PTL

-----------------------------------------------------------------------------
(* An AMO runs alone, but for the victim buffer.                             *)

\* From the release of an on-hold AMO to its answer, the pipeline, the MSHR and
\* the flush controller are empty.
AloneOK ==
    uc # None \/ (fence # None /\ ~fencePend) =>
        /\ mshr = {} /\ \A l \in Lines : ~FlushHit(l)
        /\ st2 = None \/ st2.op = "VBUF"

LEMMA AloneStep ==
    ASSUME ControlInv, HoldOK, AloneOK, Next
    PROVE  AloneOK'
<1>1. CASE /\ UNCHANGED <<mshr, flush, st2>> \/ (UNCHANGED <<mshr, flush>> /\ st2' = None)
           /\ uc' # None => uc # None
           /\ fence' # None /\ ~fencePend' => fence # None /\ ~fencePend
  BY <1>1 DEF AloneOK, FlushHit
<1>2. CASE AcceptCore \/ AcceptFence \/ (\E l \in Lines : AcceptReplay(l))
  BY <1>1, <1>2 DEF AcceptCore, AcceptFence, AcceptReplay, rtabVars, missVars
<1>3. CASE Stage1
  <2> DEFINE r == st1.req
  <2>1. RequestOutcome
    BY <1>3, Stage1RequestOutcome DEF ControlInv
  <2>2. st1 # None /\ UNCHANGED <<mshr, flush>>
    BY <1>3, Stage1Outcome DEF Outcome, Stage1Frame, ControlInv, DirectoryConsistent
  <2>3. uc = None /\ r # None /\ st1.replay \in BOOLEAN
    BY <2>2, Stage1Request, NoneAssumption DEF HoldOK, ControlInv
  <2>4. ASSUME ~IsFence(r) \/ ~st1.replay
        PROVE  fence = None \/ fencePend
    BY <2>2, <2>4 DEF HoldOK
  <2>5. CASE Answered
    <3>1. UNCHANGED <<fence, fencePend, uc>>
      BY <2>3, <2>5 DEF Answered, Commit, rtabVars
    <3> QED
      BY <2>3, <2>4, <2>5, <3>1 DEF AloneOK, Answered
  <2>6. CASE KeptOnHold \/ HandedOver \/ QueuedBehind
    <3>1. ~IsFence(r) /\ UNCHANGED <<fence, fencePend, uc>>
      BY <2>6 DEF KeptOnHold, HandedOver, QueuedBehind, Proceeds, OnHold, Linked,
         Commit, rtabVars
    <3> QED
      BY <2>3, <2>4, <3>1 DEF AloneOK
  <2>7. CASE FenceKept
    BY <2>3, <2>7 DEF FenceKept, FenceOnHold, AloneOK
  <2>8. CASE FenceIssued
    <3>1. mshr = {} /\ \A l \in Lines : ~FlushHit(l)
      <4>1. CASE NoPendTrans
        BY <4>1 DEF NoPendTrans, FlushEmpty
      <4>2. CASE st1.replay
        <5>1. fence # None /\ ~fencePend
          BY <2>2, <2>3, <2>8, <4>2 DEF HoldOK, FenceIssued
        <5> QED
          BY <5>1 DEF AloneOK
      <4> QED
        BY <2>8, <4>1, <4>2 DEF FenceIssued
    <3>2. st2' = None
      BY <2>8 DEF FenceIssued
    <3> QED
      BY <2>2, <3>1, <3>2 DEF AloneOK, FlushHit
  <2> QED
    BY <2>1, <2>5, <2>6, <2>7, <2>8 DEF RequestOutcome
<1>4. CASE Stage2Vbuf
  BY <1>1, <1>4 DEF Stage2Vbuf, rtabVars, missVars
<1>5. CASE Stage2Miss \/ Stage2Dir
  <2>1. st2 # None /\ st2.op # "VBUF" /\ UNCHANGED <<uc, fence, fencePend>>
    BY <1>5 DEF Stage2Miss, Stage2Dir, rtabVars
  <2> QED
    BY <2>1 DEF AloneOK
<1>6. CASE MissSend \/ MissResp \/ Refill
  <2>1. mshr # {} /\ UNCHANGED uc
    BY <1>6 DEF MissSend, MissResp, Refill
  <2>2. UNCHANGED <<fence, fencePend>>
    BY <1>6, RefillStep DEF MissSend, MissResp, RefillWakeUp, rtabVars
  <2> QED
    BY <2>1, <2>2 DEF AloneOK
<1>7. CASE FlushAck
  <2>1. UNCHANGED <<uc, fence, fencePend, mshr, st2>>
    BY <1>7 DEF FlushAck, missVars
  <2>2. PICK l \in Lines : FlushHit(l)
    BY <1>7 DEF FlushAck
  <2> QED
    BY <2>1, <2>2 DEF AloneOK
<1>8. CASE FenceRelease
  BY <1>8 DEF FenceRelease, St2Empty, FlushEmpty, FlushHit, missVars, AloneOK
<1>9. CASE UcMem \/ UcDone
  BY <1>1, <1>9 DEF UcMem, UcDone, rtabVars, missVars
<1>10. CASE VbufDone \/ VbufStep
  BY <1>1, <1>10 DEF VbufDone, VbufStep, missVars, ctrlVars
<1> QED
  BY <1>2, <1>3, <1>4, <1>5, <1>6, <1>7, <1>8, <1>9, <1>10 DEF Next, Stage2

\* The inductive strengthening of UncachedRunsAlone.
THEOREM AloneInvariant == Spec => []AloneOK
<1>1. Init => AloneOK
  BY DEF Init, AloneOK
<1>2. RequestInv /\ AloneOK /\ [Next]_hpdVars => AloneOK'
  <2>1. RequestInv /\ AloneOK /\ Next => AloneOK'
    BY AloneStep DEF RequestInv
  <2>2. AloneOK /\ UNCHANGED hpdVars => AloneOK'
    BY DEF hpdVars, ctrlVars, AloneOK, FlushHit
  <2> QED
    BY <2>1, <2>2
<1> QED
  BY <1>1, <1>2, RequestInvariant, PTL DEF Spec

\* While the uncached handler performs an AMO, nothing waits in the pipeline,
\* the replay table, the MSHR or the flush controller: of all the state that
\* NoPendingTransactionUnderUncached names, only the victim buffer may be busy.
THEOREM UncachedRunsAlone ==
    Spec => [](uc # None => /\ mshr = {} /\ FlushEmpty /\ RtabEmpty
                            /\ st1 = None /\ St2Empty)
<1> DEFINE Alone == uc # None => /\ mshr = {} /\ FlushEmpty /\ RtabEmpty
                                 /\ st1 = None /\ St2Empty
<1>1. RequestInv /\ AloneOK => Alone
  BY DEF RequestInv, HoldOK, AloneOK, FlushEmpty, RtabEmpty, St2Empty
<1> QED
  BY <1>1, RequestInvariant, AloneInvariant, PTL

-----------------------------------------------------------------------------
(* No table is written beyond its size.                                      *)

\* The outstanding misses with the one that stage 1 has sent, and those of
\* them with a store to coalesce.
AllMisses == mshr \cup MissPending
Coalesced == {m \in AllMisses : m.dirty}

MissesBounded ==
    /\ IsFiniteSet(AllMisses)
    /\ Cardinality(AllMisses) <= MshrEntries
    /\ Cardinality(Coalesced) <= CbufEntries

\* The lines that are flushed: none of them is or becomes dirty.
Flushed == {l \in Lines : FlushHit(l)}

FlushesBounded ==
    /\ IsFiniteSet(Flushed)
    /\ Cardinality(Flushed \cup FlushPending) <= FlushEntries
    /\ \A w \in dirty : ~FlushHit(tag[w])
    /\ st2 # None /\ st2.op = "DIR" =>
          /\ st2.dirty \/ st2.flush => ~FlushHit(st2.line)
          /\ ~(st2.dirty /\ st2.flush)

\* The entries of the replay table that are in a list.
Slots == {e \in Lines \X (1 .. RtabEntries) : e[2] <= Len(waitq[e[1]])}

RtabBounded ==
    /\ IsFiniteSet(Slots)
    /\ RtabCount + RtabPending <= RtabEntries
    /\ \A l \in Lines : Len(waitq[l]) <= RtabEntries

BoundInv ==
    Len(fifo) <= RefillDepth /\ MissesBounded /\ FlushesBounded /\ RtabBounded

\* An element more, or one in the place of another.
LEMMA OneMore ==
    ASSUME NEW S, IsFiniteSet(S), NEW x
    PROVE  /\ IsFiniteSet(S \cup {x})
           /\ Cardinality(S \cup {x}) <= Cardinality(S) + 1
           /\ Cardinality(S) \in Nat /\ Cardinality(S \cup {x}) \in Nat
BY FS_AddElement, FS_CardinalityType

LEMMA OneForOne ==
    ASSUME NEW S, IsFiniteSet(S), NEW x \in S, NEW y
    PROVE  /\ IsFiniteSet((S \ {x}) \cup {y})
           /\ Cardinality((S \ {x}) \cup {y}) <= Cardinality(S)
<1>1. /\ IsFiniteSet(S \ {x}) /\ Cardinality(S \ {x}) = Cardinality(S) - 1
      /\ Cardinality(S) \in Nat
  BY FS_RemoveElement, FS_CardinalityType
<1>2. /\ IsFiniteSet((S \ {x}) \cup {y})
      /\ Cardinality((S \ {x}) \cup {y}) <= Cardinality(S \ {x}) + 1
      /\ Cardinality((S \ {x}) \cup {y}) \in Nat
  BY <1>1, OneMore
<1> QED
  BY <1>1, <1>2

\* What stage 1 checks before it sends a micro-operation to stage 2.
RoomChecked ==
    /\ st2' # None /\ st2'.op = "MISS" =>
          ~MshrFull /\ (st2'.entry.dirty => ~CbufFull)
    /\ st2' # None /\ st2'.op = "DIR" /\ st2'.flush =>
          /\ ~st2'.dirty /\ \E w \in dirty : tag[w] = st2'.line
          /\ FlushReady \/ (IsFence(st1.req) /\ (NoPendTrans \/ st1.replay))
    /\ st2' # None /\ st2'.op = "DIR" /\ st2'.dirty => ~FlushHit(st2'.line)

LEMMA SendChecks ==
    ASSUME NEW w, NEW isDirty \in BOOLEAN, NEW isWback, ~MshrFull,
           CaptureVictim(w) \/ SendMiss(w, isDirty, isWback)
    PROVE  RoomChecked
<1>1. CASE CaptureVictim(w)
  BY <1>1 DEF CaptureVictim, RoomChecked
<1>2. CASE SendMiss(w, isDirty, isWback)
  <2>1. /\ st2'.op = "MISS"
        /\ st2'.entry.dirty = (isDirty /\ ~(isDirty /\ CbufFull))
    BY <1>2 DEF SendMiss
  <2> QED
    BY <2>1 DEF RoomChecked
<1> QED
  BY <1>1, <1>2

LEMMA Stage1Checks ==
    ASSUME TypeOK, Stage1
    PROVE  RoomChecked
<1> DEFINE r == st1.req
           l == st1.req.line
<1>1. Stage1Ready
  BY DEF Stage1, Stage1Abort, Stage1Error, Stage1Link, Stage1Op, LoadForward,
         LoadMiss, LoadHit, StoreHold, StoreMiss, StoreHit, AmoHold, AmoFlush,
         AmoIssue
<1>2. l \in Lines /\ st2 = None
  BY <1>1, Stage1Request DEF Stage1Ready
<1>3. Hit(l) => HitWay(l) \in Ways /\ tag[HitWay(l)] = l
  BY <1>2, HitWayIn
<1>4. ASSUME st2' = None PROVE RoomChecked
  BY <1>4 DEF RoomChecked
<1>5. CASE Stage1Abort \/ Stage1Error \/ Stage1Link \/ LoadForward \/ StoreHold
           \/ AmoHold \/ AmoIssue
  BY <1>2, <1>4, <1>5 DEF Stage1Abort, Stage1Error, Stage1Link, LoadForward, StoreHold,
     AmoHold, AmoIssue, Stage1Hold
<1>6. ASSUME NEW op \in {"LOAD", "PREFETCH"}, LoadMiss(op) PROVE RoomChecked
  <2>1. CASE LoadMissDep(l) # {}
    BY <1>2, <1>4, <1>6, <2>1 DEF LoadMiss, Stage1Hold
  <2>2. CASE LoadMissDep(l) = {}
    <3>1. ~MshrFull
      BY <2>2 DEF LoadMissDep
    <3>2. PICK w \in VictimWays(l) : CaptureVictim(w) \/ SendMiss(w, FALSE, LoadWback(r))
      BY <1>6, <2>2 DEF LoadMiss
    <3> QED
      BY <3>1, <3>2, SendChecks
  <2> QED
    BY <2>1, <2>2
<1>7. ASSUME NEW op \in {"LOAD", "PREFETCH"}, LoadHit(op) PROVE RoomChecked
  <2> DEFINE w == HitWay(l)
             toWT == r.hint = "WT" /\ w \in wback
             toWB == r.hint = "WB" /\ w \notin wback
  <2>1. Hit(l)
    BY <1>7 DEF LoadHit
  <2>2. CASE toWT /\ w \in dirty /\ ~FlushReady
    BY <1>2, <1>4, <1>7, <2>2 DEF LoadHit, Stage1Hold
  <2>3. CASE ~(toWT /\ w \in dirty /\ ~FlushReady)
    <3>1. \/ st2' = None
          \/ st2' = [op |-> "DIR", way |-> w, line |-> l, wback |-> toWB,
                     dirty |-> FALSE, flush |-> toWT /\ w \in dirty]
      BY <1>7, <2>3 DEF LoadHit
    <3> HIDE DEF w, toWT, toWB, l
    <3>2. ASSUME st2' # None
          PROVE  /\ st2'.op = "DIR" /\ st2'.line = l /\ ~st2'.dirty
                 /\ st2'.flush => toWT /\ w \in dirty
      <4>1. st2' = [op |-> "DIR", way |-> w, line |-> l, wback |-> toWB,
                    dirty |-> FALSE, flush |-> toWT /\ w \in dirty]
        BY <3>1, <3>2
      <4>2. st2'.op = "DIR" /\ st2'.line = l /\ st2'.dirty = FALSE
        BY <4>1
      <4>3. st2'.flush = (toWT /\ w \in dirty)
        BY <4>1
      <4> QED
        BY <4>2, <4>3
    <3>3. toWT /\ w \in dirty => FlushReady /\ tag[w] = l
      BY <1>3, <2>1, <2>3 DEF w
    <3> QED
      BY <3>2, <3>3 DEF RoomChecked
  <2> QED
    BY <2>2, <2>3
<1>8. CASE StoreMiss
  <2>1. ~MshrFull
    BY <1>8 DEF StoreMiss, StoreDep
  <2>2. PICK w \in VictimWays(l) : CaptureVictim(w) \/ SendMiss(w, TRUE, TRUE)
    BY <1>8 DEF StoreMiss
  <2> QED
    BY <2>1, <2>2, SendChecks
<1>9. CASE StoreHit
  <2>1. ~FlushHit(l)
    BY <1>2, <1>9, StoreFree DEF StoreHit
  <2>2. \/ st2' = None
        \/ st2' = [op |-> "DIR", way |-> HitWay(l), line |-> l,
                   wback |-> TRUE, dirty |-> TRUE, flush |-> FALSE]
    BY <1>9 DEF StoreHit
  <2> QED
    BY <1>4, <2>1, <2>2 DEF RoomChecked
<1>10. CASE AmoFlush
  <2>1. /\ IsFence(r) /\ (NoPendTrans \/ st1.replay) /\ Hit(l) /\ HitWay(l) \in dirty
        /\ st2' = [op |-> "DIR", way |-> HitWay(l), line |-> l,
                   wback |-> HitWay(l) \in wback, dirty |-> FALSE, flush |-> TRUE]
    BY <1>10 DEF AmoFlush, Stage1Op, IsFence
  <2> QED
    BY <1>3, <2>1 DEF RoomChecked
<1> QED
  BY <1>5, <1>6, <1>7, <1>8, <1>9, <1>10 DEF Stage1

\* Misses: the MSHR and the coalesce buffer.
LEMMA MissesStep ==
    ASSUME ControlInv, MissesBounded, Next
    PROVE  MissesBounded'
<1>0. /\ MshrEntries \in Nat /\ CbufEntries \in Nat
      /\ IsFiniteSet(Coalesced)
      /\ Cardinality(AllMisses) \in Nat /\ Cardinality(Coalesced) \in Nat
  <2>1. Coalesced \in SUBSET AllMisses
    BY DEF Coalesced
  <2> QED
    BY <2>1, HpdcacheAssumption, FS_Subset, FS_CardinalityType DEF MissesBounded
<1>1. CASE AllMisses' = AllMisses
  BY <1>1 DEF MissesBounded, Coalesced
<1>2. ASSUME UNCHANGED <<mshr, st2>> PROVE AllMisses' = AllMisses
  BY <1>2 DEF AllMisses, MissPending
<1>3. CASE Stage1
  <2>1. st2 = None /\ mshr' = mshr
    BY <1>3, Stage1Outcome DEF Outcome, Stage1Frame, ControlInv, DirectoryConsistent
  <2>2. AllMisses = mshr /\ Coalesced = {m \in mshr : m.dirty}
    BY <2>1 DEF AllMisses, MissPending, Coalesced
  <2>3. CASE st2' # None /\ st2'.op = "MISS"
    <3> DEFINE e == st2'.entry
    <3>1. ~MshrFull /\ (e.dirty => ~CbufFull)
      BY <1>3, <2>3, Stage1Checks DEF RoomChecked, ControlInv
    <3>2. AllMisses' = AllMisses \cup {e}
      BY <2>1, <2>2, <2>3 DEF AllMisses, MissPending
    <3>3. Coalesced' = IF e.dirty THEN Coalesced \cup {e} ELSE Coalesced
      BY <3>2 DEF Coalesced
    <3>4. Cardinality(AllMisses) < MshrEntries /\ (e.dirty => Cardinality(Coalesced) < CbufEntries)
      BY <1>0, <2>2, <3>1 DEF MshrFull, CbufFull
    <3> HIDE DEF e
    <3>5. IsFiniteSet(AllMisses') /\ Cardinality(AllMisses') <= MshrEntries
      BY <1>0, <3>2, <3>4, OneMore DEF MissesBounded
    <3>6. Cardinality(Coalesced') <= CbufEntries
      BY <1>0, <3>3, <3>4, OneMore DEF MissesBounded
    <3> QED
      BY <3>5, <3>6 DEF MissesBounded
  <2>4. CASE ~(st2' # None /\ st2'.op = "MISS")
    <3>1. AllMisses' = AllMisses
      BY <2>1, <2>4 DEF AllMisses, MissPending
    <3> QED
      BY <1>1, <3>1
  <2> QED
    BY <2>3, <2>4
<1>4. CASE Stage2
  <2>1. AllMisses' = AllMisses
    BY <1>4 DEF Stage2, Stage2Vbuf, Stage2Miss, Stage2Dir, missVars, AllMisses, MissPending
  <2> QED
    BY <1>1, <2>1
<1>5. CASE MissSend \/ MissResp
  <2>1. PICK m \in mshr, p \in {"mem", "resp"} :
            mshr' = (mshr \ {m}) \cup {[m EXCEPT !.phase = p]}
    BY <1>5 DEF MissSend, MissResp
  <2> DEFINE n == [m EXCEPT !.phase = p]
  <2>2. st2' = st2
    BY <1>5 DEF MissSend, MissResp
  <2>3. m \in Misses /\ n.dirty = m.dirty
    BY DEF ControlInv, TypeOK, Misses
  <2> HIDE DEF n
  <2>4. m \notin MissPending
    BY DEF ControlInv, Stage2OK, MshrHit, MissPending
  <2>5. AllMisses' = (AllMisses \ {m}) \cup {n} /\ m \in AllMisses
    BY <2>1, <2>2, <2>4 DEF AllMisses, MissPending, n
  <2>6. IF m.dirty THEN Coalesced' = (Coalesced \ {m}) \cup {n} /\ m \in Coalesced
                   ELSE Coalesced' = Coalesced
    BY <2>3, <2>5 DEF Coalesced
  <2>7. IsFiniteSet(AllMisses') /\ Cardinality(AllMisses') <= Cardinality(AllMisses)
    BY <2>5, OneForOne DEF MissesBounded
  <2>8. Cardinality(Coalesced') <= Cardinality(Coalesced) /\ IsFiniteSet(Coalesced')
    BY <1>0, <2>6, OneForOne
  <2>9. Cardinality(AllMisses') \in Nat /\ Cardinality(Coalesced') \in Nat
    BY <2>7, <2>8, FS_CardinalityType
  <2> QED
    BY <1>0, <2>7, <2>8, <2>9 DEF MissesBounded
<1>6. CASE Refill
  <2>1. mshr' \subseteq mshr /\ st2' = st2
    BY <1>6, RefillStep DEF Refill
  <2>2. AllMisses' \in SUBSET AllMisses /\ Coalesced' \in SUBSET Coalesced
    BY <2>1 DEF AllMisses, MissPending, Coalesced
  <2>3. /\ IsFiniteSet(AllMisses') /\ Cardinality(AllMisses') <= Cardinality(AllMisses)
        /\ IsFiniteSet(Coalesced') /\ Cardinality(Coalesced') <= Cardinality(Coalesced)
    BY <1>0, <2>2, FS_Subset DEF MissesBounded
  <2>4. Cardinality(AllMisses') \in Nat /\ Cardinality(Coalesced') \in Nat
    BY <2>3, FS_CardinalityType
  <2> QED
    BY <1>0, <2>3, <2>4 DEF MissesBounded
<1>7. CASE AcceptCore \/ AcceptFence \/ (\E l \in Lines : AcceptReplay(l))
           \/ UcMem \/ UcDone \/ FenceRelease \/ FlushAck \/ VbufDone \/ VbufStep
  <2>1. UNCHANGED <<mshr, st2>>
    BY <1>7 DEF AcceptCore, AcceptFence, AcceptReplay, UcMem, UcDone, FenceRelease,
       FlushAck, VbufDone, VbufStep, missVars, ctrlVars
  <2> QED
    BY <1>1, <1>2, <2>1
<1> QED
  BY <1>3, <1>4, <1>5, <1>6, <1>7 DEF Next

\* The flush directory.
LEMMA FlushesStep ==
    ASSUME ControlInv, HoldOK, AloneOK, FlushesBounded, Next
    PROVE  FlushesBounded'
<1>0. FlushEntries \in Nat \ {0} /\ Cardinality(Flushed) \in Nat
  BY HpdcacheAssumption, FS_CardinalityType DEF FlushesBounded
<1>1. CASE UNCHANGED <<flush, st2, tag, dirty>>
  BY <1>1 DEF FlushesBounded, Flushed, FlushHit, FlushPending
<1>2. CASE Stage1
  <2>1. st1 # None /\ st2 = None /\ UNCHANGED <<flush, tag, dirty>>
    BY <1>2, Stage1Outcome DEF Outcome, Stage1Frame, ControlInv, DirectoryConsistent
  <2>2. RoomChecked /\ FlushPending = {}
    BY <1>2, <2>1, Stage1Checks DEF ControlInv, FlushPending
  <2>3. Flushed' = Flushed /\ \A l : FlushHit(l)' = FlushHit(l)
    BY <2>1 DEF Flushed, FlushHit
  <2>4. Cardinality(Flushed) <= FlushEntries
    <3>1. Flushed \cup FlushPending = Flushed
      BY <2>2
    <3> QED
      BY <3>1 DEF FlushesBounded
  <2>5. /\ \A w \in dirty' : ~FlushHit(tag[w])'
        /\ st2' # None /\ st2'.op = "DIR" =>
             /\ st2'.dirty \/ st2'.flush => ~FlushHit(st2.line)'
             /\ ~(st2'.dirty /\ st2'.flush)
    BY <2>1, <2>2, <2>3 DEF FlushesBounded, RoomChecked, FlushHit
  <2>6. CASE FlushPending' = {}
    <3>1. (Flushed \cup FlushPending)' = Flushed
      BY <2>3, <2>6
    <3> QED
      BY <2>3, <2>4, <2>5, <3>1 DEF FlushesBounded
  <2>7. CASE FlushPending' # {}
    <3>1. st2' # None /\ st2'.op = "DIR" /\ st2'.flush /\ FlushPending' = {st2'.line}
      BY <2>7 DEF FlushPending
    <3>2. FlushReady \/ Flushed = {}
      <4>1. ASSUME IsFence(st1.req), NoPendTrans \/ st1.replay PROVE Flushed = {}
        <5>1. CASE NoPendTrans
          BY <5>1 DEF NoPendTrans, FlushEmpty, Flushed
        <5>2. CASE st1.replay
          <6>1. fence # None /\ ~fencePend
            <7>1. st1.req # None
              BY <2>1, Stage1Request, NoneAssumption DEF ControlInv
            <7> QED
              BY <2>1, <4>1, <5>2, <7>1 DEF HoldOK
          <6> QED
            BY <6>1 DEF AloneOK, Flushed
        <5> QED
          BY <4>1, <5>1, <5>2
      <4> QED
        BY <2>2, <3>1, <4>1 DEF RoomChecked
    <3>3. Cardinality(Flushed) < FlushEntries
      BY <1>0, <3>2, FS_EmptySet DEF FlushReady, Flushed
    <3>4. (Flushed \cup FlushPending)' = Flushed \cup {st2'.line}
      BY <2>3, <3>1
    <3>5. Cardinality((Flushed \cup FlushPending)') <= FlushEntries
      <4>1. IsFiniteSet(Flushed)
        BY DEF FlushesBounded
      <4>2. /\ Cardinality(Flushed \cup {st2'.line}) <= Cardinality(Flushed) + 1
            /\ Cardinality(Flushed \cup {st2'.line}) \in Nat
        BY <4>1, OneMore
      <4> QED
        BY <1>0, <3>3, <3>4, <4>2
    <3> QED
      BY <2>3, <2>5, <3>5 DEF FlushesBounded
  <2> QED
    BY <2>6, <2>7
<1>3. CASE Stage2Vbuf \/ Stage2Miss
  <2>1. /\ st2 # None /\ st2.op # "DIR" /\ st2' = None
        /\ UNCHANGED <<flush, tag>> /\ dirty' \subseteq dirty
    BY <1>3 DEF Stage2Vbuf, Stage2Miss, ramVars, dirVars
  <2>2. FlushPending = {} /\ FlushPending' = {} /\ Flushed' = Flushed
    BY <2>1 DEF FlushPending, Flushed, FlushHit
  <2>3. (Flushed \cup FlushPending)' = Flushed \cup FlushPending
    BY <2>2
  <2> QED
    BY <2>1, <2>2, <2>3 DEF FlushesBounded, FlushHit
<1>4. CASE Stage2Dir
  <2> DEFINE w == st2.way
             l == st2.line
  <2>1. /\ st2 # None /\ st2.op = "DIR" /\ st2' = None /\ UNCHANGED <<tag, data>>
        /\ dirty' = IF st2.dirty THEN dirty \cup {w} ELSE dirty \ {w}
        /\ flush' = IF st2.flush THEN [flush EXCEPT ![l] = data[w]] ELSE flush
    BY <1>4 DEF Stage2Dir, vbufVars
  <2>2. l \in Lines /\ w \in Ways /\ tag[w] = l /\ data[w] # None
    <3>1. l \in Lines /\ w \in Ways /\ tag[w] = l
      BY <2>1, Stage2Fields DEF ControlInv, TypeOK, Stage2OK
    <3>2. data[w] \in LineData
      BY <3>1 DEF ControlInv, TypeOK, VbufTypeOK
    <3> QED
      BY <3>1, <3>2, NoneAssumption
  <2>3. flush \in [Lines -> LineData \cup {None}]
    BY DEF ControlInv, TypeOK
  <2>4. \A k \in Lines : FlushHit(k)' = (FlushHit(k) \/ (st2.flush /\ k = l))
    BY <2>1, <2>2, <2>3 DEF FlushHit
  <2>5. Flushed' = Flushed \cup FlushPending /\ FlushPending' = {}
    BY <2>1, <2>2, <2>4 DEF Flushed, FlushPending
  <2>6. (Flushed \cup FlushPending)' = Flushed \cup FlushPending
    BY <2>5
  <2>7. IsFiniteSet(Flushed')
    <3>1. CASE FlushPending = {}
      BY <2>5, <3>1 DEF FlushesBounded
    <3>2. CASE FlushPending = {l}
      BY <2>5, <3>2, OneMore DEF FlushesBounded
    <3> QED
      BY <3>1, <3>2 DEF FlushPending
  <2>8. ASSUME NEW v \in dirty' PROVE ~FlushHit(tag[v])'
    <3>0. tag' = tag
      BY <2>1
    <3>1. CASE v = w
      <4>1. st2.dirty
        BY <2>1, <2>8, <3>1
      <4>2. ~FlushHit(l) /\ ~st2.flush
        BY <2>1, <4>1 DEF FlushesBounded
      <4> QED
        BY <2>2, <2>4, <3>0, <3>1, <4>2 DEF FlushHit
    <3>2. CASE v # w
      <4>1. v \in dirty /\ v \in Ways
        BY <2>1, <2>8, <3>2 DEF ControlInv, TypeOK
      <4>2. tag[v] # NoLine /\ tag[v] \in Lines
        BY <4>1 DEF ControlInv, DirectoryConsistent, TypeOK, VbufTypeOK
      <4>3. tag[v] # l
        BY <2>2, <3>2, <4>1, <4>2 DEF ControlInv, DirectoryConsistent
      <4> QED
        BY <2>4, <3>0, <4>1, <4>2, <4>3 DEF FlushesBounded, FlushHit
    <3> QED
      BY <3>1, <3>2
  <2> QED
    BY <2>1, <2>6, <2>7, <2>8 DEF FlushesBounded
<1>5. CASE FlushAck
  <2>1. UNCHANGED <<st2, tag, dirty>>
    BY <1>5 DEF FlushAck, dirVars
  <2>2. \A k \in Lines : FlushHit(k)' => FlushHit(k)
    BY <1>5 DEF FlushAck, FlushHit, ControlInv, TypeOK
  <2>3. Flushed' \in SUBSET Flushed /\ FlushPending' = FlushPending
    BY <2>1, <2>2 DEF Flushed, FlushPending
  <2>4. IsFiniteSet(Flushed')
    BY <2>3, FS_Subset DEF FlushesBounded
  <2>5. IsFiniteSet(Flushed \cup FlushPending)
    <3>1. CASE FlushPending = {}
      BY <3>1 DEF FlushesBounded
    <3>2. CASE FlushPending = {st2.line}
      BY <3>2, OneMore DEF FlushesBounded
    <3> QED
      BY <3>1, <3>2 DEF FlushPending
  <2>6. (Flushed \cup FlushPending)' \in SUBSET (Flushed \cup FlushPending)
    BY <2>3
  <2>7. /\ Cardinality((Flushed \cup FlushPending)') <= Cardinality(Flushed \cup FlushPending)
        /\ IsFiniteSet((Flushed \cup FlushPending)')
    BY <2>5, <2>6, FS_Subset
  <2>8. Cardinality((Flushed \cup FlushPending)') <= FlushEntries
    BY <1>0, <2>5, <2>7, FS_CardinalityType DEF FlushesBounded
  <2>9. \A w \in dirty : tag[w] \in Lines
    BY DEF ControlInv, TypeOK, VbufTypeOK, DirectoryConsistent
  <2>10. st2 # None /\ st2.op = "DIR" => st2.line \in Lines
    BY Stage2Fields DEF ControlInv, TypeOK
  <2>11. \A w \in dirty' : ~FlushHit(tag[w])'
    BY <2>1, <2>2, <2>9 DEF FlushesBounded, FlushHit
  <2>12. st2' # None /\ st2'.op = "DIR" =>
            /\ st2'.dirty \/ st2'.flush => ~FlushHit(st2.line)'
            /\ ~(st2'.dirty /\ st2'.flush)
    BY <2>1, <2>2, <2>10 DEF FlushesBounded, FlushHit
  <2> QED
    BY <2>4, <2>8, <2>11, <2>12 DEF FlushesBounded
<1>6. CASE Refill
  <2>1. PICK m \in mshr : RefillRam(m)
    BY <1>6, RefillStep
  <2>2. UNCHANGED <<flush, st2>>
    BY <1>6 DEF Refill
  <2>3. m.way \in Ways /\ ~FlushHit(m.req.line)
    BY MissFacts DEF ControlInv
  <2>4. tag \in [Ways -> Lines \cup {NoLine}] /\ dirty \subseteq Ways
    BY DEF ControlInv, TypeOK, VbufTypeOK
  <2>5. \A v \in dirty' : IF v = m.way THEN tag'[v] = m.req.line
                          ELSE v \in dirty /\ tag'[v] = tag[v]
    BY <2>1, <2>3, <2>4 DEF RefillRam
  <2>6. \A v \in dirty' : ~FlushHit(tag[v])'
    BY <2>2, <2>3, <2>5 DEF FlushesBounded, FlushHit
  <2>7. Flushed' = Flushed /\ FlushPending' = FlushPending
    BY <2>2 DEF Flushed, FlushHit, FlushPending
  <2>8. (Flushed \cup FlushPending)' = Flushed \cup FlushPending
    BY <2>7
  <2> QED
    BY <2>2, <2>6, <2>7, <2>8 DEF FlushesBounded, FlushHit
<1>7. CASE AcceptCore \/ AcceptFence \/ (\E l \in Lines : AcceptReplay(l))
           \/ UcMem \/ UcDone \/ FenceRelease \/ MissSend \/ MissResp
           \/ VbufDone \/ VbufStep
  <2>1. UNCHANGED <<flush, st2, dirty>>
    BY <1>7 DEF AcceptCore, AcceptFence, AcceptReplay, UcMem, UcDone, FenceRelease,
       MissSend, MissResp, VbufDone, VbufStep, dirVars, ctrlVars
  <2>2. tag' = tag
    BY <1>7 DEF AcceptCore, AcceptFence, AcceptReplay, UcMem, UcDone, FenceRelease,
       MissSend, MissResp, VbufDone, VbufStep, VbufMemResp, VbufRead, VbufCapture,
       VbufStartWriteBack, VbufMemReq, VbufMemData, vbufVars
  <2> QED
    BY <1>1, <2>1, <2>2
<1> QED
  BY <1>2, <1>3, <1>4, <1>5, <1>6, <1>7 DEF Next, Stage2

\* The entries of a list are among those of the replay table.
LEMMA ListLength ==
    ASSUME TypeOK, RtabBounded, NEW l \in Lines
    PROVE  Len(waitq[l]) <= Cardinality(Slots)
<1> DEFINE n == Len(waitq[l])
           f == [i \in 1 .. n |-> <<l, i>>]
<1>1. n \in Nat /\ n <= RtabEntries /\ RtabEntries \in Nat
  BY HpdcacheAssumption DEF TypeOK, RtabBounded
<1> HIDE DEF n
<1>2. \A i \in 1 .. n : <<l, i>> \in Slots
  BY <1>1 DEF Slots, n
<1>3. f \in Injection(1 .. n, Slots)
  BY <1>2 DEF Injection, IsInjective
<1> HIDE DEF f
<1>4. Cardinality(1 .. n) <= Cardinality(Slots)
  BY <1>3, FS_Injection DEF RtabBounded
<1>5. Cardinality(1 .. n) = IF 1 > n THEN 0 ELSE n - 1 + 1
  BY <1>1, FS_Interval
<1>6. Cardinality(Slots) \in Nat
  BY FS_CardinalityType DEF RtabBounded
<1> QED
  BY <1>1, <1>4, <1>5, <1>6 DEF n

\* One list grows by an entry, for the request in stage 1 that was promised one.
LEMMA ListGrows ==
    ASSUME TypeOK, RtabBounded, NEW l \in Lines,
           st1 # None, ~st1.replay, st1' = None, fence' = fence,
           NEW q \in Seq(Requests), Len(q) = Len(waitq[l]) + 1,
           waitq' = [waitq EXCEPT ![l] = q]
    PROVE  RtabBounded'
<1>1. waitq \in [Lines -> Seq(Requests)] /\ RtabEntries \in Nat \ {0}
  BY HpdcacheAssumption DEF TypeOK
<1>2. \A k \in Lines : Len(waitq[k]) \in Nat
  BY <1>1
<1>3. Cardinality(Slots) \in Nat /\ Len(waitq[l]) <= Cardinality(Slots)
  BY ListLength, FS_CardinalityType DEF RtabBounded
<1>4. /\ RtabCount = Cardinality(Slots) + (IF fence = None THEN 0 ELSE 1)
      /\ RtabCount' = Cardinality(Slots') + (IF fence = None THEN 0 ELSE 1)
  BY DEF RtabCount, Slots
<1>5. RtabPending = 1 /\ RtabPending' = 0
  BY DEF RtabPending
<1>6. /\ Cardinality(Slots) + (IF fence = None THEN 0 ELSE 1) + 1 <= RtabEntries
      /\ \A k \in Lines : Len(waitq[k]) <= RtabEntries
  BY <1>4, <1>5 DEF RtabBounded
<1>7. Len(q) <= RtabEntries
  BY <1>1, <1>2, <1>3, <1>6
<1>8. \A k \in Lines : waitq'[k] = IF k = l THEN q ELSE waitq[k]
  BY <1>1
<1>9. Slots' = Slots \cup {<<l, Len(q)>>}
  BY <1>1, <1>2, <1>7, <1>8 DEF Slots
<1>10. /\ IsFiniteSet(Slots') /\ Cardinality(Slots') \in Nat
       /\ Cardinality(Slots') <= Cardinality(Slots) + 1
  BY <1>9, OneMore DEF RtabBounded
<1>11. Cardinality(Slots') + (IF fence = None THEN 0 ELSE 1) <= RtabEntries
  BY <1>1, <1>3, <1>6, <1>10
<1>12. RtabCount' + RtabPending' <= RtabEntries
  BY <1>1, <1>4, <1>5, <1>10, <1>11
<1>13. \A k \in Lines : Len(waitq'[k]) <= RtabEntries
  BY <1>6, <1>7, <1>8
<1> QED
  BY <1>10, <1>12, <1>13 DEF RtabBounded

\* Sums of a table's entries, the fence and the promised entry.
LEMMA SumKept ==
    ASSUME NEW a \in Nat, NEW b \in Nat, NEW f \in Nat, NEW g \in Nat,
           NEW p \in Nat, NEW q \in Nat, NEW n \in Nat,
           b <= a, g + q <= f + p, a + f + p <= n
    PROVE  b + g + q <= n
OBVIOUS

\* Lists do not grow, and no more requests are promised an entry.
LEMMA ListsShrink ==
    ASSUME TypeOK, RtabBounded,
           \A k \in Lines : Len(waitq'[k]) \in Nat /\ Len(waitq'[k]) <= Len(waitq[k]),
           NEW f, f = IF fence = None THEN 0 ELSE 1,
           NEW g, g = IF fence' = None THEN 0 ELSE 1,
           g + RtabPending' <= f + RtabPending
    PROVE  RtabBounded'
<1>1. RtabEntries \in Nat /\ Cardinality(Slots) \in Nat
  BY HpdcacheAssumption, FS_CardinalityType DEF RtabBounded
<1>2. \A k \in Lines : Len(waitq[k]) \in Nat
  BY DEF TypeOK
<1>3. Slots' \in SUBSET Slots
  BY <1>1, <1>2 DEF Slots
<1>4. /\ IsFiniteSet(Slots') /\ Cardinality(Slots') \in Nat
      /\ Cardinality(Slots') <= Cardinality(Slots)
  BY <1>3, FS_Subset, FS_CardinalityType DEF RtabBounded
<1>5. RtabCount = Cardinality(Slots) + f /\ RtabCount' = Cardinality(Slots') + g
  BY DEF RtabCount, Slots
<1>6. f \in Nat /\ g \in Nat /\ RtabPending \in Nat /\ RtabPending' \in Nat
  BY DEF RtabPending
<1>7. Cardinality(Slots) + f + RtabPending <= RtabEntries
  BY <1>5 DEF RtabBounded
<1>8. Cardinality(Slots') + g + RtabPending' <= RtabEntries
  BY <1>1, <1>4, <1>6, <1>7, SumKept
<1>9. RtabCount' + RtabPending' <= RtabEntries
  BY <1>5, <1>8
<1>10. \A k \in Lines : Len(waitq'[k]) <= RtabEntries
  BY <1>1, <1>2 DEF RtabBounded
<1> QED
  BY <1>4, <1>9, <1>10 DEF RtabBounded

\* The replay table.
LEMMA RtabStep ==
    ASSUME ControlInv, HoldOK, RtabBounded, Next
    PROVE  RtabBounded'
<1>0. /\ TypeOK /\ QueueOK /\ waitq \in [Lines -> Seq(Requests)]
      /\ RtabEntries \in Nat \ {0}
  BY HpdcacheAssumption DEF ControlInv, TypeOK
<1>1. \A k \in Lines : Len(waitq[k]) \in Nat
  BY <1>0
<1>2. ASSUME UNCHANGED <<waitq, fence>>, RtabPending' <= RtabPending
      PROVE  RtabBounded'
  <2> DEFINE f == IF fence = None THEN 0 ELSE 1
             g == IF fence' = None THEN 0 ELSE 1
  <2>1. f \in Nat /\ g = f
    BY <1>2
  <2>2. RtabPending \in Nat /\ RtabPending' \in Nat
    BY DEF RtabPending
  <2>3. g + RtabPending' <= f + RtabPending
    <3>1. ASSUME NEW a \in Nat, NEW p \in Nat, NEW q \in Nat, q <= p
          PROVE  a + q <= a + p
      BY <3>1
    <3> QED
      BY <1>2, <2>1, <2>2, <3>1
  <2>4. \A k \in Lines : Len(waitq'[k]) \in Nat /\ Len(waitq'[k]) <= Len(waitq[k])
    BY <1>1, <1>2
  <2> QED
    BY <1>0, <2>3, <2>4, ListsShrink
<1>3. CASE AcceptCore
  <2>1. st1 = None /\ ~RtabFull /\ UNCHANGED <<waitq, fence>>
    BY <1>3 DEF AcceptCore, Stage0Free, rtabVars
  <2>2. RtabPending' \in 0 .. 1
    BY DEF RtabPending
  <2>3. Slots' = Slots /\ RtabCount' = RtabCount
    BY <2>1 DEF Slots, RtabCount
  <2>4. RtabCount \in Nat
    BY FS_CardinalityType DEF RtabBounded, RtabCount, Slots
  <2>5. RtabCount' + RtabPending' <= RtabEntries
    <3>1. ASSUME NEW a \in Nat, NEW p \in 0 .. 1, NEW n \in Nat, ~(a >= n)
          PROVE  a + p <= n
      BY <3>1
    <3> QED
      BY <1>0, <2>1, <2>2, <2>3, <2>4, <3>1 DEF RtabFull
  <2> QED
    BY <2>1, <2>3, <2>5 DEF RtabBounded
<1>4. CASE AcceptFence \/ \E k \in Lines : AcceptReplay(k)
  <2>1. st1 = None /\ st1'.replay = TRUE /\ UNCHANGED <<waitq, fence>>
    BY <1>4 DEF AcceptFence, AcceptReplay, Stage0Free, rtabVars
  <2>2. RtabPending = 0 /\ RtabPending' = 0
    BY <2>1 DEF RtabPending
  <2> QED
    BY <1>2, <2>1, <2>2
<1>5. CASE Stage1
  <2> DEFINE r == st1.req
             l == st1.req.line
             f == IF fence = None THEN 0 ELSE 1
             g == IF fence' = None THEN 0 ELSE 1
  <2>1. RequestOutcome
    BY <1>0, <1>5, Stage1RequestOutcome
  <2>2. st1 # None /\ st1' = None
    BY <1>5, Stage1Outcome DEF Outcome, Stage1Frame, ControlInv, DirectoryConsistent
  <2>3. r \in Requests /\ l \in Lines /\ st1.replay \in BOOLEAN
    BY <1>0, <2>2, Stage1Request
  <2>4. RtabPending' = 0 /\ RtabPending = IF st1.replay THEN 0 ELSE 1
    BY <2>2, <2>3 DEF RtabPending
  <2>5. ASSUME UNCHANGED waitq, g <= f + RtabPending
        PROVE  RtabBounded'
    <3>1. g \in Nat /\ g + RtabPending' <= f + RtabPending
      BY <2>4, <2>5
    <3>2. \A k \in Lines : Len(waitq'[k]) \in Nat /\ Len(waitq'[k]) <= Len(waitq[k])
      BY <1>1, <2>5
    <3> QED
      BY <1>0, <3>1, <3>2, ListsShrink
  <2>6. CASE Commit
    <3>1. CASE ~st1.replay \/ IsFence(r)
      <4>1. waitq' = waitq /\ (fence' = fence \/ fence' = None)
        BY <2>6, <3>1 DEF Commit, rtabVars
      <4>2. g <= f + RtabPending
        BY <2>4, <4>1
      <4> QED
        BY <2>5, <4>1, <4>2
    <3>2. CASE st1.replay /\ ~IsFence(r)
      <4>1. fence' = fence /\ waitq' = [waitq EXCEPT ![l] = Tail(@)]
        BY <2>6, <3>2 DEF Commit
      <4>2. waitq[l] # <<>>
        BY <1>0, <2>2, <3>2 DEF QueueOK
      <4>3. Len(Tail(waitq[l])) \in Nat /\ Len(Tail(waitq[l])) <= Len(waitq[l])
        BY <1>0, <2>3, <4>2
      <4>4. \A k \in Lines : Len(waitq'[k]) \in Nat /\ Len(waitq'[k]) <= Len(waitq[k])
        BY <1>0, <1>1, <4>1, <4>3
      <4>5. g + RtabPending' <= f + RtabPending
        BY <2>4, <3>2, <4>1
      <4> QED
        BY <1>0, <4>4, <4>5, ListsShrink
    <3> QED
      BY <2>3, <3>1, <3>2
  <2>7. CASE KeptOnHold
    <3>1. fence' = fence
      BY <2>7 DEF KeptOnHold, OnHold
    <3>2. CASE st1.replay
      <4>1. waitq' = waitq
        BY <2>7, <3>2 DEF KeptOnHold, OnHold
      <4> QED
        BY <1>2, <2>4, <3>1, <3>2, <4>1
    <3>3. CASE ~st1.replay
      <4>1. waitq[l] = <<>>
        BY <2>7, <3>3 DEF KeptOnHold, Proceeds, Linked
      <4>2. waitq' = [waitq EXCEPT ![l] = <<r>>]
        BY <2>7, <3>3 DEF KeptOnHold, OnHold
      <4>3. <<r>> \in Seq(Requests) /\ Len(<<r>>) = Len(waitq[l]) + 1
        BY <2>3, <4>1
      <4> QED
        BY <1>0, <2>2, <2>3, <3>1, <3>3, <4>2, <4>3, ListGrows
    <3> QED
      BY <2>3, <3>2, <3>3
  <2>8. CASE QueuedBehind
    <3>1. /\ ~st1.replay /\ fence' = fence
          /\ waitq' = [waitq EXCEPT ![l] = Append(waitq[l], r)]
      BY <2>8 DEF QueuedBehind, Linked
    <3>2. /\ Append(waitq[l], r) \in Seq(Requests)
          /\ Len(Append(waitq[l], r)) = Len(waitq[l]) + 1
      BY <1>0, <2>3
    <3> QED
      BY <1>0, <2>2, <2>3, <3>1, <3>2, ListGrows
  <2>9. CASE FenceKept
    <3>1. IsFence(r) /\ waitq' = waitq
      BY <2>9 DEF FenceKept, FenceOnHold
    <3>2. st1.replay => fence # None
      <4>1. r # None
        BY <2>3, NoneAssumption
      <4> QED
        BY <2>2, <3>1, <4>1 DEF HoldOK
    <3>3. g <= f + RtabPending
      BY <2>3, <2>4, <3>2
    <3> QED
      BY <2>5, <3>1, <3>3
  <2> QED
    BY <2>1, <2>6, <2>7, <2>8, <2>9
    DEF RequestOutcome, Answered, HandedOver, FenceIssued
<1>6. CASE Refill
  <2>1. st1' = st1 /\ UNCHANGED <<waitq, fence>>
    BY <1>6 DEF Refill, RefillWakeUp
  <2>2. RtabPending' <= RtabPending
    BY <2>1 DEF RtabPending
  <2> QED
    BY <1>2, <2>1, <2>2
<1>7. CASE Stage2 \/ UcMem \/ UcDone \/ FenceRelease \/ MissSend \/ MissResp
           \/ FlushAck \/ VbufDone \/ VbufStep
  <2>1. UNCHANGED <<st1, waitq, fence>>
    BY <1>7 DEF Stage2, Stage2Vbuf, Stage2Miss, Stage2Dir, UcMem, UcDone, FenceRelease,
       MissSend, MissResp, FlushAck, VbufDone, VbufStep, rtabVars, ctrlVars
  <2>2. RtabPending' <= RtabPending
    BY <2>1 DEF RtabPending
  <2> QED
    BY <1>2, <2>1, <2>2
<1> QED
  BY <1>3, <1>4, <1>5, <1>6, <1>7 DEF Next

\* The refill FIFO: the memory is not answered while it is full.
LEMMA FifoBoundStep ==
    ASSUME TypeOK, Len(fifo) <= RefillDepth, Next
    PROVE  Len(fifo') <= RefillDepth
<1>1. fifo \in Seq(Refills) /\ RefillDepth \in Nat
  BY HpdcacheAssumption DEF TypeOK
<1>2. CASE MissResp
  <2>1. PICK x : fifo' = Append(fifo, x)
    BY <1>2 DEF MissResp
  <2>2. Len(fifo) < RefillDepth
    BY <1>2 DEF MissResp
  <2>3. Len(fifo') = Len(fifo) + 1 /\ Len(fifo) \in Nat
    BY <1>1, <2>1
  <2> QED
    BY <1>1, <2>2, <2>3
<1>3. CASE Refill
  <2>1. fifo # <<>> /\ fifo' = Tail(fifo)
    BY <1>3 DEF Refill
  <2>2. Len(fifo') = Len(fifo) - 1 /\ Len(fifo) \in Nat
    BY <1>1, <2>1
  <2> QED
    BY <1>1, <2>2
<1>4. CASE Stage1
  <2>1. fifo' = fifo
    BY <1>4 DEF Stage1, Stage1Abort, Stage1Error, Stage1Link, LoadForward, LoadMiss,
       LoadHit, StoreHold, StoreMiss, StoreHit, AmoHold, AmoFlush, AmoIssue,
       Stage1Hold, CaptureVictim, SendMiss, missVars
  <2> QED
    BY <2>1
<1>5. CASE AcceptCore \/ AcceptFence \/ (\E l \in Lines : AcceptReplay(l)) \/ Stage2
           \/ UcMem \/ UcDone \/ FenceRelease \/ MissSend \/ FlushAck \/ VbufDone
           \/ VbufStep
  <2>1. fifo' = fifo
    BY <1>5 DEF AcceptCore, AcceptFence, AcceptReplay, Stage2, Stage2Vbuf, Stage2Miss,
       Stage2Dir, UcMem, UcDone, FenceRelease, MissSend, FlushAck, VbufDone, VbufStep,
       missVars, ctrlVars
  <2> QED
    BY <2>1
<1> QED
  BY <1>2, <1>3, <1>4, <1>5 DEF Next

LEMMA BoundInit ==
    ASSUME Init
    PROVE  BoundInv
<1>1. {MshrEntries, CbufEntries, FlushEntries, RtabEntries, RefillDepth} \subseteq Nat \ {0}
  BY HpdcacheAssumption
<1>2. AllMisses = {} /\ Coalesced = {} /\ FlushPending = {} /\ RtabPending = 0
  BY DEF Init, AllMisses, MissPending, Coalesced, FlushPending, RtabPending
<1>3. Flushed = {}
  BY DEF Init, Flushed, FlushHit
<1>4. \A l \in Lines : waitq[l] = <<>> /\ Len(waitq[l]) = 0
  BY DEF Init
<1>5. Slots = {}
  BY <1>1, <1>4 DEF Slots
<1>6. IsFiniteSet({}) /\ Cardinality({}) = 0
  BY FS_EmptySet
<1>7. RtabCount = 0
  <2>1. RtabCount = Cardinality(Slots) + (IF fence = None THEN 0 ELSE 1)
    BY DEF RtabCount, Slots
  <2>2. fence = None
    BY DEF Init
  <2> QED
    BY <1>5, <1>6, <2>1, <2>2
<1>8. MissesBounded
  BY <1>1, <1>2, <1>6 DEF MissesBounded
<1>9. FlushesBounded
  <2>1. Flushed \cup FlushPending = {}
    BY <1>2, <1>3
  <2>2. Cardinality(Flushed \cup FlushPending) <= FlushEntries
    BY <1>1, <1>6, <2>1
  <2>3. IsFiniteSet(Flushed)
    BY <1>3, <1>6
  <2>4. dirty = {} /\ st2 = None
    BY DEF Init
  <2> QED
    BY <2>2, <2>3, <2>4 DEF FlushesBounded
<1>10. RtabBounded
  BY <1>1, <1>2, <1>4, <1>5, <1>6, <1>7 DEF RtabBounded
<1>11. Len(fifo) <= RefillDepth
  BY <1>1 DEF Init
<1> QED
  BY <1>8, <1>9, <1>10, <1>11 DEF BoundInv

\* The inductive strengthening of TablesBounded, from what the request proofs
\* say of the replay table and of an AMO that runs alone.
THEOREM BoundInvariant == Spec => []BoundInv
<1>1. Init => BoundInv
  BY BoundInit
<1>2. RequestInv /\ AloneOK /\ BoundInv /\ [Next]_hpdVars => BoundInv'
  <2>1. ASSUME RequestInv, AloneOK, BoundInv, Next
        PROVE  BoundInv'
    <3>1. ControlInv /\ HoldOK /\ TypeOK
      BY <2>1 DEF RequestInv, ControlInv
    <3>2. /\ Len(fifo) <= RefillDepth /\ MissesBounded /\ FlushesBounded /\ RtabBounded
      BY <2>1 DEF BoundInv
    <3>3. MissesBounded'
      BY <2>1, <3>1, <3>2, MissesStep
    <3>4. FlushesBounded'
      BY <2>1, <3>1, <3>2, FlushesStep
    <3>5. RtabBounded'
      BY <2>1, <3>1, <3>2, RtabStep
    <3>6. Len(fifo') <= RefillDepth
      BY <2>1, <3>1, <3>2, FifoBoundStep
    <3> QED
      BY <3>3, <3>4, <3>5, <3>6 DEF BoundInv
  <2>2. ASSUME BoundInv, UNCHANGED hpdVars
        PROVE  BoundInv'
    <3>1. UNCHANGED <<fifo, mshr, st1, st2, flush, dirty, waitq, fence, tag>>
      BY <2>2 DEF hpdVars, ctrlVars, vbufVars
    <3> QED
      BY <2>2, <3>1 DEF BoundInv, MissesBounded, AllMisses, MissPending, Coalesced,
         FlushesBounded, Flushed, FlushHit, FlushPending, RtabBounded, Slots,
         RtabCount, RtabPending
  <2> QED
    BY <2>1, <2>2
<1> QED
  BY <1>1, <1>2, RequestInvariant, AloneInvariant, PTL DEF Spec

\* No table is written beyond its size, for every size of the tables: the space
\* that stage 1 and the acceptance of a request check is still there when stage
\* 2 writes, and an AMO, which flushes without asking for space, finds the flush
\* directory empty.
THEOREM TablesAreBounded == Spec => []TablesBounded
<1>1. ASSUME RequestInv, BoundInv
      PROVE  TablesBounded
  <2>1. ASSUME NEW l \in FlushPending PROVE ~FlushHit(l)
    BY <1>1, <2>1 DEF FlushPending, BoundInv, FlushesBounded
  <2> QED
    BY <1>1, <2>1 DEF TablesBounded, BoundInv, MissesBounded, AllMisses, Coalesced,
       FlushesBounded, Flushed, RtabBounded
<1> QED
  BY <1>1, RequestInvariant, BoundInvariant, PTL

=============================================================================
