--------------------------- MODULE HpdcacheProofs ---------------------------
(***************************************************************************)
(* Proofs about the write-back cache, for any number of lines, ways, sets, *)
(* beats, requests and table entries and for both victim policies.         *)
(*                                                                         *)
(* First the control.  Then the data, without AMOs: the cache keeps to the *)
(* environment the victim buffer relies on, and the only way in which a    *)
(* store can be lost is that a dirty way is handed to a miss before its    *)
(* contents are captured.  With AMOs neither holds (run amo_vs_vbuf).      *)
(***************************************************************************)
EXTENDS Hpdcache, VbufProofs, WellFoundedInduction

-----------------------------------------------------------------------------
(* The inductive invariant of the control.                                   *)

\* The lists of the replay table: a request is in the list of its line, a
\* fence is in none, and whoever replays an entry finds it there.
QueueOK ==
    /\ \A l \in Lines : \A i \in 1 .. Len(waitq[l]) :
          waitq[l][i].line = l /\ ~IsFence(waitq[l][i])
    /\ fence # None => IsFence(fence)
    /\ uc # None => IsFence(uc.req)
    /\ st1 # None /\ st1.replay /\ ~IsFence(st1.req) =>
          waitq[st1.req.line] # <<>>
    /\ popNext # NoLine /\ st1 = None => waitq[popNext] # <<>>
    /\ popNext # NoLine /\ st1 # None =>
          /\ st1.replay /\ ~IsFence(st1.req) /\ st1.req.line = popNext
          /\ Len(waitq[popNext]) > 1

\* A request in stage 1 shares the pipeline with an allocation of the victim
\* buffer at most, and the way being captured is not taken under it.
CaptureOK ==
    /\ st1 # None => st2 = None \/ st2.op = "VBUF"
    /\ state = "CAPTURE" =>
          /\ tag[way] = nline /\ way \notin fetch
          /\ st1 # None => way \in dirty

\* What stage 1 found out about the line still holds when stage 2 acts on it.
Stage2OK ==
    st2 # None =>
        /\ st2.op = "VBUF" =>
              /\ AllocReady /\ st2.way \in dirty
              /\ tag[st2.way] = st2.line
              /\ ~SafeToOverwrite(st2.line)
        /\ st2.op = "MISS" =>
              /\ st2.entry.way \notin fetch
              /\ ~Hit(st2.entry.req.line)
              /\ ~CheckHit(st2.entry.req.line)
              /\ ~FlushHit(st2.entry.req.line)
              /\ ~MshrHit(st2.entry.req.line)
              /\ state = "CAPTURE" => way # st2.entry.way
        /\ st2.op = "DIR" =>
              /\ tag[st2.way] = st2.line
              /\ st2.way \notin fetch

\* A refill in the FIFO belongs to one outstanding miss that was answered.
FifoOK ==
    /\ \A i \in 1 .. Len(fifo) :
          \E m \in mshr : m.req.line = fifo[i].line /\ m.phase = "resp"
    /\ \A i, j \in 1 .. Len(fifo) : fifo[i].line = fifo[j].line => i = j

ControlInv ==
    /\ TypeOK
    /\ BurstFollowsVictim
    /\ NoStaleSafeFlag
    /\ QueueOK
    /\ CaptureOK
    /\ Stage2OK
    /\ FifoOK
    /\ DirectoryConsistent

-----------------------------------------------------------------------------
(* Facts about the operators of the model.                                   *)

\* The priority encoders select one of the ways they are given.
LEMMA LowestIn ==
    ASSUME NEW S \in SUBSET Ways, S # {}
    PROVE  Lowest(S) \in S
<1>1. S \subseteq Nat
  BY HpdcacheAssumption
<1>2. PICK x \in S : \A y \in S : ~(<<y, x>> \in OpToRel(<, Nat))
  BY <1>1, NatLessThanWellFounded, WFMin
<1>3. ASSUME NEW y \in S
      PROVE  x <= y
  <2>1. ~(y < x)
    <3> SUFFICES ASSUME y < x
                 PROVE  FALSE
      OBVIOUS
    <3>1. <<y, x>> \in OpToRel(<, Nat)
      BY <1>1 DEF OpToRel
    <3> QED
      BY <1>2, <3>1
  <2> QED
    BY <1>1, <2>1
<1> QED
  BY <1>3 DEF Lowest

\* A victim is a way of the set that is not being fetched.
LEMMA VictimIn ==
    ASSUME NEW l \in Lines, NEW w \in VictimWays(l)
    PROVE  w \in Ways /\ w \notin fetch
<1> DEFINE free == WaysOf[l] \ fetch
           unused == {v \in free : tag[v] = NoLine}
<1>1. free \subseteq Ways
  BY HpdcacheAssumption
<1>2. w \in free
  <2>1. CASE free = {}
    BY <2>1 DEF VictimWays
  <2>2. CASE free # {} /\ unused # {}
    <3>1. w = Lowest(unused)
      BY <2>2 DEF VictimWays
    <3> QED
      BY <1>1, <2>2, <3>1, LowestIn
  <2>3. CASE free # {} /\ unused = {}
    <3>1. \/ w \in free
          \/ free \ plru # {} /\ w = Lowest(free \ plru)
          \/ free \ dirty # {} /\ w = Lowest(free \ dirty)
          \/ w = Lowest(free)
      BY <2>3 DEF VictimWays
    <3>2. free \ plru # {} => Lowest(free \ plru) \in free
      BY <1>1, LowestIn
    <3>3. free \ dirty # {} => Lowest(free \ dirty) \in free
      BY <1>1, LowestIn
    <3>4. Lowest(free) \in free
      BY <1>1, <2>3, LowestIn
    <3> QED
      BY <3>1, <3>2, <3>3, <3>4
  <2> QED
    BY <2>1, <2>2, <2>3
<1> QED
  BY <1>1, <1>2

\* A directory hit names a way that holds the line.
LEMMA HitWayIn ==
    ASSUME NEW l \in Lines, Hit(l)
    PROVE  HitWay(l) \in Ways /\ tag[HitWay(l)] = l
BY LowestIn DEF Hit, HitWay, HitWays

\* A store without dependencies finds its line in no handler.
LEMMA StoreFree ==
    ASSUME NEW l \in Lines, StoreDep(l) = {}
    PROVE  /\ ~CheckHit(l) /\ ~MshrHit(l) /\ ~FlushHit(l)
           /\ Hit(l) => HitWay(l) \notin fetch
BY DEF StoreDep

\* Neither does a load miss.
LEMMA LoadFree ==
    ASSUME NEW l \in Lines, LoadMissDep(l) = {}
    PROVE  ~CheckHit(l) /\ ~MshrHit(l) /\ ~FlushHit(l)
BY DEF LoadMissDep

LEMMA DepTypes ==
    ASSUME NEW l \in Lines
    PROVE  StoreDep(l) \in SUBSET Deps /\ LoadMissDep(l) \in SUBSET Deps
BY DEF StoreDep, LoadMissDep, Deps

\* The fields of a request, and the line a store makes.
LEMMA RequestFields ==
    ASSUME NEW r \in Requests
    PROVE  /\ r.op \in Ops /\ r.line \in Lines /\ r.tid \in Tids
           /\ r.word \in BeatIdx /\ r.val \in Vals
           /\ \A d \in LineData : Merge(d, r) \in LineData
<1>1. 0 \in BeatIdx /\ V0 \in Vals
  BY VbufAssumption, HpdcacheAssumption DEF BeatIdx
<1>2. /\ r.op \in Ops /\ r.line \in Lines /\ r.tid \in Tids
      /\ r.word \in BeatIdx /\ r.val \in Vals
  BY <1>1 DEF Requests
<1> QED
  BY <1>2 DEF Merge, LineData

\* The micro-operations of stage 2.
LEMMA Stage2Fields ==
    ASSUME NEW o \in Stage2Ops
    PROVE  /\ o.op = "VBUF" => o.line \in Lines /\ o.way \in Ways
           /\ o.op = "MISS" => o.entry \in Misses /\ o.consume \in BOOLEAN
           /\ o.op = "DIR" => /\ o.line \in Lines /\ o.way \in Ways
                             /\ o.wback \in BOOLEAN /\ o.dirty \in BOOLEAN
                             /\ o.flush \in BOOLEAN
BY DEF Stage2Ops

LEMMA WaysType == Lowest(Ways) \in Ways
BY LowestIn, VbufAssumption

-----------------------------------------------------------------------------
(* Stage 1.  Its sixteen outcomes are few, seen from the rest of the cache.  *)

\* What stage 1 never touches: the victim buffer, the directory, the handlers.
Stage1Frame ==
    /\ st1 # None /\ st2 = None /\ st1' = None
    /\ UNCHANGED <<vbufRegs, tag, mem, dirty, wback, fetch, mshr, fifo, flush>>

\* The replay table forgets the request, keeps it, queues it, or takes a fence.
RtabOutcome ==
    LET r == st1.req IN
    \/ ~st1.replay /\ UNCHANGED rtabVars
    \/ Commit
    \/ /\ ~IsFence(r) /\ ~Linked(r)
       /\ \E d \in SUBSET Deps, w \in Ways : OnHold(d, w)
    \/ /\ Linked(r)
       /\ waitq' = [waitq EXCEPT ![r.line] = Append(@, r)]
       /\ UNCHANGED <<deps, fetchWay, rtabErr, popNext, fence, fencePend>>
    \/ IsFence(r) /\ FenceOnHold

\* No handler holds line l.
HandlersFree(l) == ~CheckHit(l) /\ ~MshrHit(l) /\ ~FlushHit(l)

\* A micro-operation goes to stage 2 with what the lookup found.
Stage2Outcome ==
    LET l == st1.req.line IN
    \/ st2' = None
    \/ \E w \in dirty :
          /\ ~SafeToOverwrite(tag[w]) /\ AllocReady
          /\ st2' = [op |-> "VBUF", line |-> tag[w], way |-> w]
    \/ \E e \in Misses, c \in BOOLEAN :
          /\ e.req = st1.req /\ e.way \notin fetch
          /\ ~Hit(l) /\ HandlersFree(l)
          /\ e.way \notin dirty \/ SafeToOverwrite(tag[e.way])
          /\ e.dirty => e.wback
          /\ st2' = [op |-> "MISS", entry |-> e, consume |-> c]
    \/ \E w \in Ways, b, d, f \in BOOLEAN :
          /\ tag[w] = l /\ w \notin fetch
          /\ d => b
          /\ ~d /\ w \in dirty /\ w \in wback => f
          /\ st2' = [op |-> "DIR", way |-> w, line |-> l, wback |-> b,
                     dirty |-> d, flush |-> f]

\* Only a store hit writes the data RAM; its line is or becomes dirty.
DataOutcome ==
    LET r == st1.req IN
    \/ UNCHANGED <<data, latest>>
    \/ \E w \in Ways :
          /\ tag[w] = r.line /\ HandlersFree(r.line)
          /\ data' = [data EXCEPT ![w] = Merge(@, r)]
          /\ latest' = [latest EXCEPT ![r.line] = Merge(@, r)]
          /\ \/ w \in dirty
             \/ st2' = [op |-> "DIR", way |-> w, line |-> r.line,
                        wback |-> TRUE, dirty |-> TRUE, flush |-> FALSE]

RestOutcome ==
    /\ plru' \subseteq Ways
    /\ issued' \subseteq Tids
    /\ uc' = uc \/ (uc' \in Uncached /\ IsFence(uc'.req))

Outcome ==
    Stage1Frame /\ RtabOutcome /\ Stage2Outcome /\ DataOutcome /\ RestOutcome

LEMMA Stage1Request ==
    ASSUME TypeOK, st1 # None
    PROVE  /\ st1.req \in Requests /\ st1.replay \in BOOLEAN
           /\ st1.req.line \in Lines
BY RequestFields DEF TypeOK, Stage1Ops

\* An access keeps plru_q a set of ways.
LEMMA PlruType ==
    ASSUME NEW l \in Lines, NEW w \in Ways, plru \subseteq Ways,
           PlruUpdate(l, w)
    PROVE  plru' \subseteq Ways
BY DEF PlruUpdate

\* A request that is put on hold changes nothing but the replay table.
LEMMA HoldOutcome ==
    ASSUME TypeOK, Stage1Ready, NEW d \in SUBSET Deps, NEW w \in Ways,
           ~IsFence(st1.req), ~Linked(st1.req), Stage1Hold(d, w)
    PROVE  Outcome
<1>1. Stage1Frame
  BY DEF Stage1Ready, Stage1Hold, Stage1Frame, dirVars, missVars, vbufVars, vbufRegs
<1>2. RtabOutcome
  BY DEF Stage1Hold, RtabOutcome
<1>3. Stage2Outcome /\ DataOutcome
  BY DEF Stage1Ready, Stage1Hold, Stage2Outcome, DataOutcome, vbufVars
<1>4. RestOutcome
  BY DEF Stage1Hold, RestOutcome, TypeOK
<1> QED
  BY <1>1, <1>2, <1>3, <1>4 DEF Outcome

\* The capture of a dirty victim is requested, if the buffer is idle.
LEMMA CaptureOutcome ==
    ASSUME TypeOK, Stage1Ready, NEW w \in Ways, CaptureVictim(w),
           ~IsFence(st1.req), ~Linked(st1.req)
    PROVE  Outcome
<1>1. Stage1Frame
  BY DEF Stage1Ready, CaptureVictim, Stage1Frame, dirVars, missVars, vbufVars, vbufRegs
<1>2. RtabOutcome
  <2>1. OnHold({}, Lowest(Ways))
    BY DEF CaptureVictim
  <2> QED
    BY <2>1, WaysType DEF RtabOutcome
<1>3. Stage2Outcome
  BY DEF CaptureVictim, Stage2Outcome
<1>4. DataOutcome
  BY DEF CaptureVictim, DataOutcome, vbufVars
<1>5. RestOutcome
  BY DEF CaptureVictim, RestOutcome, TypeOK
<1> QED
  BY <1>1, <1>2, <1>3, <1>4, <1>5 DEF Outcome

\* The miss is sent to stage 2, where it will allocate the MSHR.
LEMMA SendOutcome ==
    ASSUME TypeOK, Stage1Ready, NEW w \in Ways, w \notin fetch,
           NEW isDirty \in BOOLEAN, NEW isWback \in BOOLEAN,
           isDirty => isWback, SendMiss(w, isDirty, isWback),
           ~Hit(st1.req.line), HandlersFree(st1.req.line),
           ~IsFence(st1.req), ~Linked(st1.req)
    PROVE  Outcome
<1>1. Stage1Frame
  BY DEF Stage1Ready, SendMiss, Stage1Frame, dirVars, missVars, vbufVars, vbufRegs
<1>2. RtabOutcome
  <2>1. OnHold({"write_miss"}, Lowest(Ways)) \/ Commit
    BY DEF SendMiss
  <2>2. {"write_miss"} \in SUBSET Deps
    BY DEF Deps
  <2> QED
    BY <2>1, <2>2, WaysType DEF RtabOutcome
<1>3. Stage2Outcome
  <2> DEFINE rw == isDirty /\ CbufFull
             e == [req |-> st1.req, way |-> w, need |-> ~rw,
                   dirty |-> isDirty /\ ~rw, wback |-> isWback,
                   phase |-> "send"]
  <2>1. e \in Misses
    BY Stage1Request DEF Misses, Stage1Ready
  <2>2. e.req = st1.req /\ e.way = w /\ (e.dirty => e.wback)
    OBVIOUS
  <2>3. st2' = [op |-> "MISS", entry |-> e, consume |-> w \in dirty]
    BY DEF SendMiss
  <2>4. w \notin dirty \/ SafeToOverwrite(tag[w])
    BY DEF SendMiss
  <2>5. (w \in dirty) \in BOOLEAN
    OBVIOUS
  <2> HIDE DEF e
  <2> QED
    BY <2>1, <2>2, <2>3, <2>4, <2>5 DEF Stage2Outcome
<1>4. DataOutcome
  BY DEF SendMiss, DataOutcome, vbufVars
<1>5. RestOutcome
  BY DEF SendMiss, RestOutcome, TypeOK
<1> QED
  BY <1>1, <1>2, <1>3, <1>4, <1>5 DEF Outcome

\* Every step of stage 1 is one of the outcomes.
LEMMA Stage1Outcome ==
    ASSUME TypeOK, dirty \cap fetch = {}, Stage1
    PROVE  Outcome
<1> DEFINE r == st1.req
           l == st1.req.line
<1>1. Stage1Ready
  BY DEF Stage1, Stage1Abort, Stage1Error, Stage1Link, Stage1Op, LoadForward,
         LoadMiss, LoadHit, StoreHold, StoreMiss, StoreHit, AmoHold, AmoFlush,
         AmoIssue
<1>2. r \in Requests /\ l \in Lines /\ st1.replay \in BOOLEAN
  BY <1>1, Stage1Request DEF Stage1Ready
<1>3. plru \subseteq Ways /\ issued \subseteq Tids
  BY DEF TypeOK
<1>4. ASSUME NEW w \in Ways, PlruUpdate(l, w)
      PROVE  plru' \subseteq Ways
  BY <1>2, <1>3, <1>4, PlruType
<1>5. Hit(l) => HitWay(l) \in Ways /\ tag[HitWay(l)] = l
  BY <1>2, HitWayIn
<1>6. CASE Stage1Abort
  BY <1>1, <1>3, <1>6 DEF Stage1Abort, Stage1Ready, Outcome, Stage1Frame, RtabOutcome,
     Stage2Outcome, DataOutcome, RestOutcome, Respond, vbufVars, vbufRegs,
     dirVars, missVars
<1>7. CASE Stage1Error
  BY <1>1, <1>3, <1>7 DEF Stage1Error, Stage1Ready, Outcome, Stage1Frame, RtabOutcome,
     Stage2Outcome, DataOutcome, RestOutcome, Respond, vbufVars, vbufRegs,
     dirVars, missVars
<1>8. CASE Stage1Link
  BY <1>1, <1>3, <1>8 DEF Stage1Link, Stage1Ready, Outcome, Stage1Frame, RtabOutcome,
     Stage2Outcome, DataOutcome, RestOutcome, vbufVars, vbufRegs, dirVars,
     missVars
<1>9. CASE LoadForward
  BY <1>1, <1>3, <1>9 DEF LoadForward, Stage1Ready, Outcome, Stage1Frame, RtabOutcome,
     Stage2Outcome, DataOutcome, RestOutcome, Respond, vbufVars, vbufRegs,
     dirVars, missVars
<1>10. ASSUME NEW op \in {"LOAD", "PREFETCH"}, LoadMiss(op)
       PROVE  Outcome
  <2>1. ~IsFence(r) /\ ~Linked(r) /\ ~Hit(l)
    BY <1>10 DEF LoadMiss, Stage1Op, IsFence
  <2>2. CASE Stage1Hold(LoadMissDep(l), Lowest(Ways))
    BY <1>1, <1>2, <2>1, <2>2, DepTypes, WaysType, HoldOutcome
  <2>3. CASE LoadMissDep(l) = {} /\ \E w \in VictimWays(l) : CaptureVictim(w)
    BY <1>1, <1>2, <2>1, <2>3, VictimIn, CaptureOutcome
  <2>4. CASE /\ LoadMissDep(l) = {}
             /\ \E w \in VictimWays(l) : SendMiss(w, FALSE, LoadWback(r))
    <3>1. PICK w \in VictimWays(l) : SendMiss(w, FALSE, LoadWback(r))
      BY <2>4
    <3>2. w \in Ways /\ w \notin fetch
      BY <1>2, VictimIn
    <3>3. HandlersFree(l)
      BY <1>2, <2>4, LoadFree DEF HandlersFree
    <3>4. LoadWback(r) \in BOOLEAN
      BY DEF LoadWback
    <3> QED
      BY <1>1, <2>1, <3>1, <3>2, <3>3, <3>4, SendOutcome
  <2> QED
    BY <1>10, <2>2, <2>3, <2>4 DEF LoadMiss
<1>11. ASSUME NEW op \in {"LOAD", "PREFETCH"}, LoadHit(op)
       PROVE  Outcome
  <2> DEFINE w == HitWay(l)
             toWT == r.hint = "WT" /\ w \in wback
             toWB == r.hint = "WB" /\ w \notin wback
  <2>1. ~IsFence(r) /\ ~Linked(r)
    BY <1>11 DEF LoadHit, Stage1Op, IsFence
  <2>2. w \in Ways /\ tag[w] = l
    BY <1>5, <1>11 DEF LoadHit
  <2>3. CASE Stage1Hold({"flush_not_ready"}, w)
    <3>1. {"flush_not_ready"} \in SUBSET Deps
      BY DEF Deps
    <3> QED
      BY <1>1, <2>1, <2>2, <2>3, <3>1, HoldOutcome
  <2>4. CASE ~Stage1Hold({"flush_not_ready"}, w)
    <3>1. /\ Commit /\ Respond(r) /\ PlruUpdate(l, w)
          /\ st2' = IF w \notin fetch /\ (toWT \/ toWB)
                    THEN [op |-> "DIR", way |-> w, line |-> l,
                          wback |-> toWB, dirty |-> FALSE,
                          flush |-> toWT /\ w \in dirty]
                    ELSE None
          /\ st1' = None
          /\ UNCHANGED <<vbufVars, dirVars, missVars, flush, uc, latest>>
      BY <1>11, <2>4 DEF LoadHit
    <3>2. Stage1Frame /\ RtabOutcome /\ DataOutcome
      BY <1>1, <3>1 DEF Stage1Ready, Stage1Frame, RtabOutcome, DataOutcome, vbufVars,
         vbufRegs, dirVars, missVars
    <3>3. Stage2Outcome
      <4>1. CASE w \notin fetch /\ (toWT \/ toWB)
        <5> DEFINE f == toWT /\ w \in dirty
        <5>1. st2' = [op |-> "DIR", way |-> w, line |-> l, wback |-> toWB,
                      dirty |-> FALSE, flush |-> f]
          BY <3>1, <4>1
        <5>2. toWB \in BOOLEAN /\ f \in BOOLEAN /\ FALSE \in BOOLEAN
          OBVIOUS
        <5>3. w \in dirty /\ w \in wback => f
          BY <4>1
        <5> HIDE DEF toWB, f, w
        <5> QED
          BY <2>2, <4>1, <5>1, <5>2, <5>3 DEF Stage2Outcome
      <4>2. CASE ~(w \notin fetch /\ (toWT \/ toWB))
        BY <3>1, <4>2 DEF Stage2Outcome
      <4> QED
        BY <4>1, <4>2
    <3>4. RestOutcome
      BY <1>3, <1>4, <2>2, <3>1 DEF RestOutcome, Respond
    <3> QED
      BY <3>2, <3>3, <3>4 DEF Outcome
  <2> QED
    BY <2>3, <2>4
<1>12. CASE StoreHold
  <2>1. ~IsFence(r) /\ ~Linked(r)
    BY <1>12 DEF StoreHold, Stage1Op, IsFence
  <2> DEFINE w == IF Hit(l) THEN HitWay(l) ELSE Lowest(Ways)
  <2>2. w \in Ways
    BY <1>5, WaysType
  <2>3. Stage1Hold(StoreDep(l), w)
    BY <1>12 DEF StoreHold
  <2> HIDE DEF w
  <2> QED
    BY <1>1, <1>2, <2>1, <2>2, <2>3, DepTypes, HoldOutcome
<1>13. CASE StoreMiss
  <2>1. ~IsFence(r) /\ ~Linked(r) /\ ~Hit(l) /\ StoreDep(l) = {}
    BY <1>13 DEF StoreMiss, Stage1Op, IsFence
  <2>2. PICK w \in VictimWays(l) : CaptureVictim(w) \/ SendMiss(w, TRUE, TRUE)
    BY <1>13 DEF StoreMiss
  <2>3. w \in Ways /\ w \notin fetch
    BY <1>2, VictimIn
  <2>4. HandlersFree(l)
    BY <1>2, <2>1, StoreFree DEF HandlersFree
  <2>5. CASE CaptureVictim(w)
    BY <1>1, <2>1, <2>3, <2>5, CaptureOutcome
  <2>6. CASE SendMiss(w, TRUE, TRUE)
    BY <1>1, <2>1, <2>3, <2>4, <2>6, SendOutcome
  <2> QED
    BY <2>2, <2>5, <2>6
<1>14. CASE StoreHit
  <2> DEFINE w == HitWay(l)
  <2>1. w \in Ways /\ tag[w] = l /\ w \notin fetch /\ HandlersFree(l)
    BY <1>2, <1>5, <1>14, StoreFree DEF StoreHit, HandlersFree
  <2>2. /\ data' = [data EXCEPT ![w] = Merge(@, r)]
        /\ latest' = [latest EXCEPT ![l] = Merge(@, r)]
        /\ Commit /\ Respond(r) /\ PlruUpdate(l, w)
        /\ st2' = IF w \in wback /\ w \in dirty THEN None
                  ELSE [op |-> "DIR", way |-> w, line |-> l,
                        wback |-> TRUE, dirty |-> TRUE, flush |-> FALSE]
        /\ st1' = None
        /\ UNCHANGED <<vbufRegs, tag, mem, dirVars, missVars, flush, uc>>
    BY <1>14 DEF StoreHit
  <2> HIDE DEF w
  <2>3. Stage1Frame /\ RtabOutcome
    BY <1>1, <2>2 DEF Stage1Ready, Stage1Frame, RtabOutcome, dirVars, missVars
  <2>4. Stage2Outcome /\ DataOutcome
    BY <2>1, <2>2 DEF Stage2Outcome, DataOutcome
  <2>5. RestOutcome
    BY <1>3, <1>4, <2>1, <2>2 DEF RestOutcome, Respond
  <2> QED
    BY <2>3, <2>4, <2>5 DEF Outcome
<1>15. CASE AmoHold
  BY <1>1, <1>3, <1>15 DEF AmoHold, Stage1Op, IsFence, Stage1Ready, Outcome, Stage1Frame,
     RtabOutcome, Stage2Outcome, DataOutcome, RestOutcome, vbufVars, vbufRegs,
     dirVars, missVars
<1>16. CASE AmoFlush
  <2> DEFINE w == HitWay(l)
             b == w \in wback
  <2>1. /\ Hit(l) /\ w \in dirty /\ IsFence(r) /\ FenceOnHold /\ PlruUpdate(l, w)
        /\ st2' = [op |-> "DIR", way |-> w, line |-> l, wback |-> b,
                   dirty |-> FALSE, flush |-> TRUE]
        /\ st1' = None
        /\ UNCHANGED <<vbufVars, dirVars, missVars, flush, uc, issued, latest>>
    BY <1>16 DEF AmoFlush, Stage1Op, IsFence
  <2>2. w \in Ways /\ tag[w] = l /\ b \in BOOLEAN
    BY <1>5, <2>1
  <2>3. dirty \cap fetch = {} => Stage2Outcome
    <3> HIDE DEF w, b
    <3> QED
      BY <2>1, <2>2 DEF Stage2Outcome
  <2>4. Stage1Frame /\ RtabOutcome /\ DataOutcome /\ RestOutcome
    BY <1>1, <1>3, <1>4, <2>1, <2>2 DEF Stage1Ready, Stage1Frame, RtabOutcome, DataOutcome,
       RestOutcome, vbufVars, vbufRegs, dirVars, missVars
  <2> QED
    BY <2>3, <2>4 DEF Outcome
<1>17. CASE AmoIssue
  <2>1. /\ IsFence(r) /\ Commit /\ st1' = None
        /\ uc' = [req |-> r, way |-> HitWays(l), phase |-> "mem"]
        /\ IF Hit(l) THEN PlruUpdate(l, HitWay(l)) ELSE UNCHANGED plru
        /\ UNCHANGED <<vbufVars, dirVars, st2, missVars, flush, issued, latest>>
    BY <1>17 DEF AmoIssue, Stage1Op, IsFence
  <2>2. Stage1Frame /\ RtabOutcome /\ Stage2Outcome /\ DataOutcome
    BY <1>1, <2>1 DEF Stage1Ready, Stage1Frame, RtabOutcome, Stage2Outcome, DataOutcome,
       vbufVars, vbufRegs, dirVars, missVars
  <2>3. HitWays(l) \subseteq Ways
    BY DEF HitWays
  <2>4. uc' \in Uncached /\ IsFence(uc'.req)
    BY <1>2, <2>1, <2>3 DEF Uncached
  <2>5. plru' \subseteq Ways
    BY <1>3, <1>4, <1>5, <2>1
  <2> QED
    BY <1>3, <2>1, <2>2, <2>4, <2>5 DEF Outcome, RestOutcome
<1> QED
  BY <1>6, <1>7, <1>8, <1>9, <1>10, <1>11, <1>12, <1>13, <1>14, <1>15, <1>16,
     <1>17 DEF Stage1

-----------------------------------------------------------------------------
(* The cache stays within the environment of the victim buffer: a step is a  *)
(* step of VbufSpec, but for the write of an AMO result to the data RAM.     *)

\* The way of a miss has no line of its own to lose: what the directory says
\* of the line and the way of an outstanding miss.
LEMMA MissFacts ==
    ASSUME TypeOK, DirectoryConsistent, NEW m \in mshr
    PROVE  /\ m \in Misses /\ m.req \in Requests /\ m.req.line \in Lines
           /\ m.way \in Ways /\ m.way \in fetch /\ m.way \notin dirty
           /\ m.dirty \in BOOLEAN /\ m.wback \in BOOLEAN /\ m.need \in BOOLEAN
           /\ \A w \in Ways : tag[w] # m.req.line
           /\ ~CheckHit(m.req.line) /\ ~FlushHit(m.req.line)
<1>1. m \in Misses
  BY DEF TypeOK
<1>2. /\ m.req \in Requests /\ m.way \in Ways
      /\ m.dirty \in BOOLEAN /\ m.wback \in BOOLEAN /\ m.need \in BOOLEAN
  BY <1>1 DEF Misses
<1>3. m.req.line \in Lines
  BY <1>2, RequestFields
<1>4. m.way \in fetch
  BY DEF DirectoryConsistent
<1>5. m.way \notin dirty
  BY <1>4 DEF DirectoryConsistent
<1>6. \A w \in Ways : tag[w] # m.req.line
  BY DEF DirectoryConsistent, Hit, HitWays
<1>7. ~CheckHit(m.req.line) /\ ~FlushHit(m.req.line)
  BY DEF DirectoryConsistent
<1> QED
  BY <1>1, <1>2, <1>3, <1>4, <1>5, <1>6, <1>7

\* The data a refill writes.
RefillData(m) ==
    IF m.dirty THEN Merge(Head(fifo).data, m.req) ELSE Head(fifo).data

LEMMA RefillFacts ==
    ASSUME TypeOK, DirectoryConsistent, fifo # <<>>, NEW m \in mshr
    PROVE  /\ Head(fifo) \in Refills
           /\ Head(fifo).line \in Lines /\ Head(fifo).err \in BOOLEAN
           /\ RefillData(m) \in LineData
<1>1. Head(fifo) \in Refills
  BY DEF TypeOK
<1>2. /\ Head(fifo).line \in Lines /\ Head(fifo).err \in BOOLEAN
      /\ Head(fifo).data \in LineData
  BY <1>1 DEF Refills
<1>3. RefillData(m) \in LineData
  BY <1>2, MissFacts, RequestFields DEF RefillData
<1> QED
  BY <1>1, <1>2, <1>3

\* A refill brings a line into a way, or drops the line of the way.
RefillRam(m) ==
    \/ /\ ~Head(fifo).err
       /\ tag' = [tag EXCEPT ![m.way] = m.req.line]
       /\ data' = [data EXCEPT ![m.way] = RefillData(m)]
       /\ dirty' = IF m.dirty THEN dirty \cup {m.way} ELSE dirty \ {m.way}
       /\ wback' = IF m.wback THEN wback \cup {m.way} ELSE wback \ {m.way}
       /\ latest' = IF m.dirty
                    THEN [latest EXCEPT ![m.req.line] = Merge(@, m.req)]
                    ELSE latest
       /\ PlruUpdate(m.req.line, m.way)
    \/ /\ Head(fifo).err
       /\ tag' = [tag EXCEPT ![m.way] = NoLine]
       /\ dirty' = dirty \ {m.way}
       /\ wback' = wback \ {m.way}
       /\ UNCHANGED <<data, plru, latest>>

LEMMA RefillStep ==
    ASSUME Refill
    PROVE  \E m \in mshr :
              /\ m.req.line = Head(fifo).line
              /\ mshr' = mshr \ {m} /\ fifo' = Tail(fifo)
              /\ fetch' = fetch \ {m.way}
              /\ RefillRam(m)
              /\ IF m.need THEN Respond(m.req) ELSE UNCHANGED issued
              /\ RefillWakeUp(m.req.line, m.way, Head(fifo).err)
<1>1. PICK m \in mshr :
          LET l == Head(fifo).line
              w == m.way
              d == IF m.dirty THEN Merge(Head(fifo).data, m.req)
                   ELSE Head(fifo).data
              err == Head(fifo).err
          IN
          /\ m.req.line = l
          /\ mshr' = mshr \ {m}
          /\ fifo' = Tail(fifo)
          /\ fetch' = fetch \ {w}
          /\ IF err
             THEN /\ tag' = [tag EXCEPT ![w] = NoLine]
                  /\ dirty' = dirty \ {w}
                  /\ wback' = wback \ {w}
                  /\ UNCHANGED <<data, plru, latest>>
             ELSE /\ tag' = [tag EXCEPT ![w] = l]
                  /\ data' = [data EXCEPT ![w] = d]
                  /\ dirty' = IF m.dirty THEN dirty \cup {w} ELSE dirty \ {w}
                  /\ wback' = IF m.wback THEN wback \cup {w} ELSE wback \ {w}
                  /\ PlruUpdate(l, w)
                  /\ latest' = IF m.dirty
                               THEN [latest EXCEPT ![l] = Merge(@, m.req)]
                               ELSE latest
          /\ IF m.need THEN Respond(m.req) ELSE UNCHANGED issued
          /\ RefillWakeUp(l, w, err)
  BY DEF Refill
<1>2. RefillRam(m)
  BY <1>1 DEF RefillRam, RefillData
<1> QED
  BY <1>1, <1>2

LEMMA VbufRefinement ==
    ASSUME ControlInv, Next
    PROVE  [VbufNext]_vbufVars \/ UcDone
<1> USE DEF ControlInv
<1>1. CASE AcceptCore \/ AcceptFence \/ (\E l \in Lines : AcceptReplay(l))
  BY <1>1 DEF AcceptCore, AcceptFence, AcceptReplay
<1>2. CASE Stage1
  <2>1. Stage1Frame /\ DataOutcome
    BY <1>2, Stage1Outcome DEF Outcome, DirectoryConsistent
  <2>2. CASE UNCHANGED <<data, latest>>
    BY <2>1, <2>2 DEF Stage1Frame, vbufVars, vbufRegs
  <2>3. CASE ~UNCHANGED <<data, latest>>
    <3>1. PICK w \in Ways :
              /\ tag[w] = st1.req.line /\ HandlersFree(st1.req.line)
              /\ data' = [data EXCEPT ![w] = Merge(@, st1.req)]
      BY <2>1, <2>3 DEF DataOutcome
    <3>2. st1.req \in Requests /\ st1.req.line \in Lines
      BY <2>1, Stage1Request DEF Stage1Frame
    <3>3. st1.req.word \in BeatIdx /\ st1.req.val \in Vals
      BY <3>2, RequestFields
    <3>4. data' = [data EXCEPT ![w][st1.req.word] = st1.req.val]
      BY <3>1 DEF Merge
    <3>5. tag[w] # NoLine /\ ~CheckHit(tag[w])
      BY <3>1, <3>2, VbufAssumption DEF HandlersFree
    <3>6. UNCHANGED <<vbufRegs, tag, mem>>
      BY <2>1 DEF Stage1Frame
    <3>7. EnvStore
      BY <3>3, <3>4, <3>5, <3>6 DEF EnvStore
    <3> QED
      BY <3>7 DEF VbufNext
  <2> QED
    BY <2>2, <2>3
<1>3. CASE Stage2Vbuf
  <2>1. st2 \in Stage2Ops /\ st2.op = "VBUF"
    BY <1>3 DEF Stage2Vbuf, TypeOK
  <2>2. /\ st2.way \in Ways /\ st2.line \in Lines /\ tag[st2.way] = st2.line
        /\ ~SafeToOverwrite(st2.line) /\ AllocReady
    BY <1>3, <2>1, Stage2Fields DEF Stage2OK, Stage2Vbuf
  <2>3. VbufAlloc(st2.line, st2.way) /\ UNCHANGED <<tag, data, mem>>
    BY <1>3, <2>2 DEF Stage2Vbuf, ramVars
  <2>4. EnvAlloc
    BY <2>2, <2>3, VbufAssumption DEF EnvAlloc
  <2> QED
    BY <2>4 DEF VbufNext
<1>4. CASE Stage2Miss
  <2>1. UNCHANGED <<tag, data, mem>>
    BY <1>4 DEF Stage2Miss, ramVars
  <2>2. EnvConsume \/ UNCHANGED vbufRegs
    BY <1>4, <2>1 DEF Stage2Miss, EnvConsume
  <2>3. CASE EnvConsume
    BY <2>3 DEF VbufNext
  <2>4. CASE UNCHANGED vbufRegs
    BY <2>1, <2>4 DEF vbufVars, vbufRegs
  <2> QED
    BY <2>2, <2>3, <2>4
<1>5. CASE Stage2Dir
  BY <1>5 DEF Stage2Dir
<1>6. CASE UcMem
  <2>1. uc \in Uncached
    BY <1>6 DEF UcMem, TypeOK
  <2>2. uc.req \in Requests
    BY <2>1 DEF Uncached
  <2>3. uc.req.line \in Lines /\ \A d \in LineData : Merge(d, uc.req) \in LineData
    BY <2>2, RequestFields
  <2>4. UNCHANGED <<vbufRegs, tag, data>>
    BY <1>6 DEF UcMem
  <2>5. \/ UNCHANGED mem
        \/ mem' = [mem EXCEPT ![uc.req.line] = Merge(@, uc.req)]
    BY <1>6 DEF UcMem
  <2>6. mem[uc.req.line] \in LineData
    BY <2>3 DEF TypeOK, VbufTypeOK
  <2>7. CASE UNCHANGED mem
    BY <2>4, <2>7 DEF vbufVars, vbufRegs
  <2>8. CASE mem' = [mem EXCEPT ![uc.req.line] = Merge(@, uc.req)]
    <3>1. EnvMemWrite
      BY <2>3, <2>4, <2>6, <2>8 DEF EnvMemWrite
    <3> QED
      BY <3>1 DEF VbufNext
  <2> QED
    BY <2>5, <2>7, <2>8
<1>7. CASE FenceRelease \/ MissSend \/ MissResp
  BY <1>7 DEF FenceRelease, MissSend, MissResp
<1>8. CASE Refill
  <2>1. PICK m \in mshr : m.req.line = Head(fifo).line /\ RefillRam(m)
    BY <1>8, RefillStep
  <2>2. fifo # <<>> /\ UNCHANGED <<vbufRegs, mem>>
    BY <1>8 DEF Refill
  <2>3. /\ m.way \in Ways /\ m.way \in fetch /\ m.req.line \in Lines
        /\ \A w \in Ways : tag[w] # m.req.line
        /\ ~CheckHit(m.req.line)
    BY MissFacts
  <2>4. ~(state = "CAPTURE" /\ way = m.way)
    BY <2>3 DEF CaptureOK
  <2>5. RefillData(m) \in LineData
    BY <2>2, RefillFacts
  <2>6. CASE ~Head(fifo).err
    <3>1. EnvRefill
      BY <2>1, <2>2, <2>3, <2>4, <2>5, <2>6 DEF RefillRam, EnvRefill, Cached
    <3> QED
      BY <3>1 DEF VbufNext
  <2>7. CASE Head(fifo).err
    <3>1. EnvInvalidate
      BY <2>1, <2>2, <2>3, <2>4, <2>7 DEF RefillRam, EnvInvalidate
    <3> QED
      BY <3>1 DEF VbufNext
  <2> QED
    BY <2>6, <2>7
<1>9. CASE FlushAck
  <2>1. PICK l \in Lines : FlushHit(l) /\ mem' = [mem EXCEPT ![l] = flush[l]]
    BY <1>9 DEF FlushAck
  <2>2. flush[l] \in LineData
    BY <2>1 DEF TypeOK, FlushHit
  <2>3. EnvMemWrite
    BY <1>9, <2>1, <2>2 DEF FlushAck, EnvMemWrite
  <2> QED
    BY <2>3 DEF VbufNext
<1>10. CASE VbufDone
  BY <1>10 DEF VbufDone, VbufNext
<1>11. CASE VbufStep
  BY <1>11 DEF VbufStep, VbufNext
<1>12. CASE UcDone
  BY <1>12
<1> QED
  BY <1>1, <1>2, <1>3, <1>4, <1>5, <1>6, <1>7, <1>8, <1>9, <1>10, <1>11,
     <1>12 DEF Next, Stage2

-----------------------------------------------------------------------------
(* Preservation of the control invariant, one part at a time.                *)

\* The registers of the buffer, the burst and the safe flag, by the theorems
\* about the buffer.
LEMMA VbufPartStep ==
    ASSUME ControlInv, Next
    PROVE  VbufTypeOK' /\ BurstFollowsVictim' /\ NoStaleSafeFlag'
<1>1. VbufTypeOK /\ BurstFollowsVictim /\ NoStaleSafeFlag
  BY DEF ControlInv, TypeOK
<1>2. CASE [VbufNext]_vbufVars
  BY <1>1, <1>2, TypeStep, BurstStep, SafeStep
<1>3. CASE UcDone
  <2>1. uc \in Uncached
    BY <1>3 DEF UcDone, ControlInv, TypeOK
  <2>2. \A d \in LineData : Merge(d, uc.req) \in LineData
    BY <2>1, RequestFields DEF Uncached
  <2>3. data' = [w \in Ways |-> IF w \in uc.way THEN Merge(data[w], uc.req)
                                ELSE data[w]]
    BY <1>3 DEF UcDone
  <2>4. \A w \in Ways : data[w] \in LineData
    BY <1>1 DEF VbufTypeOK
  <2>5. data' \in [Ways -> LineData]
    BY <2>2, <2>3, <2>4
  <2>6. UNCHANGED <<vbufRegs, tag, mem>>
    BY <1>3 DEF UcDone
  <2>7. VbufTypeOK'
    BY <1>1, <2>5, <2>6 DEF VbufTypeOK, vbufRegs, valid
  <2>8. BurstFollowsVictim' /\ NoStaleSafeFlag'
    BY <1>1, <2>6 DEF BurstFollowsVictim, NoStaleSafeFlag, SafeToOverwrite, vbufRegs
  <2> QED
    BY <2>7, <2>8
<1> QED
  BY <1>2, <1>3, VbufRefinement

\* The replay table after a step of stage 1.
LEMMA RtabType ==
    ASSUME ControlInv, Stage1Frame, RtabOutcome
    PROVE  /\ waitq' \in [Lines -> Seq(Requests)]
           /\ deps' \in [Lines -> SUBSET Deps]
           /\ fetchWay' \in [Lines -> Ways]
           /\ rtabErr' \in [Lines -> BOOLEAN]
           /\ popNext' \in Lines \cup {NoLine}
           /\ fence' \in Requests \cup {None}
           /\ fencePend' \in BOOLEAN
<1> DEFINE r == st1.req
           l == st1.req.line
<1>1. r \in Requests /\ l \in Lines /\ st1.replay \in BOOLEAN
  BY Stage1Request DEF ControlInv, Stage1Frame
<1>2. /\ waitq \in [Lines -> Seq(Requests)]
      /\ deps \in [Lines -> SUBSET Deps]
      /\ fetchWay \in [Lines -> Ways]
      /\ rtabErr \in [Lines -> BOOLEAN]
      /\ popNext \in Lines \cup {NoLine}
      /\ fence \in Requests \cup {None}
      /\ fencePend \in BOOLEAN
  BY DEF ControlInv, TypeOK
<1>3. st1.replay /\ ~IsFence(r) => waitq[l] # <<>>
  BY DEF ControlInv, QueueOK, Stage1Frame
<1>4. CASE UNCHANGED rtabVars
  BY <1>2, <1>4 DEF rtabVars
<1>5. CASE Commit
  <2>1. st1.replay /\ ~IsFence(r) => Tail(waitq[l]) \in Seq(Requests)
    BY <1>1, <1>2, <1>3
  <2>2. CASE ~st1.replay
    BY <1>4, <1>5, <2>2 DEF Commit
  <2>3. CASE st1.replay /\ IsFence(r)
    BY <1>2, <1>5, <2>3 DEF Commit
  <2>4. CASE st1.replay /\ ~IsFence(r)
    <3>1. /\ waitq' = [waitq EXCEPT ![l] = Tail(@)]
          /\ deps' = [deps EXCEPT ![l] = {}]
          /\ rtabErr' = [rtabErr EXCEPT ![l] = FALSE]
          /\ UNCHANGED <<fetchWay, popNext, fence, fencePend>>
      BY <1>5, <2>4 DEF Commit
    <3> QED
      BY <1>1, <1>2, <2>1, <2>4, <3>1
  <2> QED
    BY <1>1, <2>2, <2>3, <2>4
<1>6. ASSUME NEW d \in SUBSET Deps, NEW w \in Ways, OnHold(d, w)
      PROVE  /\ waitq' \in [Lines -> Seq(Requests)]
             /\ deps' \in [Lines -> SUBSET Deps]
             /\ fetchWay' \in [Lines -> Ways]
             /\ popNext' = NoLine
             /\ UNCHANGED <<rtabErr, fence, fencePend>>
  <2>1. <<r>> \in Seq(Requests)
    BY <1>1
  <2> QED
    BY <1>1, <1>2, <1>6, <2>1 DEF OnHold
<1>7. CASE /\ waitq' = [waitq EXCEPT ![l] = Append(@, r)]
           /\ UNCHANGED <<deps, fetchWay, rtabErr, popNext, fence, fencePend>>
  <2>1. Append(waitq[l], r) \in Seq(Requests)
    BY <1>1, <1>2
  <2> QED
    BY <1>1, <1>2, <1>7, <2>1
<1>8. CASE FenceOnHold
  BY <1>1, <1>2, <1>8 DEF FenceOnHold
<1> QED
  BY <1>2, <1>4, <1>5, <1>6, <1>7, <1>8 DEF RtabOutcome

\* The types of everything that is not in the victim buffer or the RAMs.
ControlTypeOK ==
    /\ dirty \subseteq Ways /\ wback \subseteq Ways /\ fetch \subseteq Ways
    /\ plru \subseteq Ways
    /\ st1 \in Stage1Ops \cup {None}
    /\ st2 \in Stage2Ops \cup {None}
    /\ waitq \in [Lines -> Seq(Requests)]
    /\ deps \in [Lines -> SUBSET Deps]
    /\ fetchWay \in [Lines -> Ways]
    /\ rtabErr \in [Lines -> BOOLEAN]
    /\ popNext \in Lines \cup {NoLine}
    /\ fence \in Requests \cup {None}
    /\ fencePend \in BOOLEAN
    /\ mshr \subseteq Misses
    /\ fifo \in Seq(Refills)
    /\ flush \in [Lines -> LineData \cup {None}]
    /\ uc \in Uncached \cup {None}
    /\ issued \subseteq Tids
    /\ latest \in [Lines -> LineData]

LEMMA ControlTypeStep ==
    ASSUME ControlInv, Next
    PROVE  ControlTypeOK'
<1>1. ControlTypeOK
  BY DEF ControlInv, TypeOK, ControlTypeOK
<1> USE DEF ControlTypeOK
<1>2. CASE AcceptCore
  BY <1>1, <1>2, RequestFields DEF AcceptCore, Stage1Ops, dirVars, rtabVars, missVars
<1>3. CASE AcceptFence
  <2>1. fence \in Requests
    BY <1>1, <1>3 DEF AcceptFence, FenceReady
  <2> QED
    BY <1>1, <1>3, <2>1 DEF AcceptFence, Stage1Ops, dirVars, rtabVars, missVars
<1>4. ASSUME NEW l \in Lines, AcceptReplay(l)
      PROVE  ControlTypeOK'
  <2>1. waitq[l] # <<>>
    BY <1>4 DEF AcceptReplay, Stage0Free, ReplayLines, ControlInv, QueueOK
  <2>2. Head(waitq[l]) \in Requests
    BY <1>1, <2>1
  <2>3. st1' \in Stage1Ops
    BY <1>4, <2>2 DEF AcceptReplay, Stage1Ops
  <2>4. popNext' \in Lines \cup {NoLine}
    BY <1>4 DEF AcceptReplay
  <2> QED
    BY <1>1, <1>4, <2>3, <2>4 DEF AcceptReplay, dirVars, missVars
<1>5. CASE Stage1
  <2>1. Outcome
    BY <1>5, Stage1Outcome DEF ControlInv, DirectoryConsistent
  <2>2. st1.req \in Requests /\ st1.req.line \in Lines
    BY <2>1, Stage1Request DEF Outcome, Stage1Frame, ControlInv
  <2>3. st2' \in Stage2Ops \cup {None}
    <3>1. CASE st2' = None
      BY <3>1
    <3>2. ASSUME NEW w \in dirty, st2' = [op |-> "VBUF", line |-> tag[w], way |-> w]
          PROVE  st2' \in Stage2Ops
      <4>1. w \in Ways /\ tag[w] \in Lines
        BY <1>1 DEF ControlInv, TypeOK, VbufTypeOK, DirectoryConsistent
      <4> QED
        BY <3>2, <4>1 DEF Stage2Ops
    <3>3. ASSUME NEW e \in Misses, NEW c \in BOOLEAN,
                 st2' = [op |-> "MISS", entry |-> e, consume |-> c]
          PROVE  st2' \in Stage2Ops
      BY <3>3 DEF Stage2Ops
    <3>4. ASSUME NEW w \in Ways, NEW b \in BOOLEAN, NEW d \in BOOLEAN,
                 NEW f \in BOOLEAN,
                 st2' = [op |-> "DIR", way |-> w, line |-> st1.req.line,
                         wback |-> b, dirty |-> d, flush |-> f]
          PROVE  st2' \in Stage2Ops
      BY <2>2, <3>4 DEF Stage2Ops
    <3> QED
      BY <2>1, <3>1, <3>2, <3>3, <3>4 DEF Outcome, Stage2Outcome
  <2>4. latest' \in [Lines -> LineData]
    <3>1. CASE latest' = latest
      BY <1>1, <3>1
    <3>2. CASE latest' = [latest EXCEPT ![st1.req.line] = Merge(@, st1.req)]
      <4>1. Merge(latest[st1.req.line], st1.req) \in LineData
        BY <1>1, <2>2, RequestFields
      <4> QED
        BY <1>1, <2>2, <3>2, <4>1
    <3> QED
      BY <2>1, <3>1, <3>2 DEF Outcome, DataOutcome
  <2>5. /\ waitq' \in [Lines -> Seq(Requests)]
        /\ deps' \in [Lines -> SUBSET Deps]
        /\ fetchWay' \in [Lines -> Ways]
        /\ rtabErr' \in [Lines -> BOOLEAN]
        /\ popNext' \in Lines \cup {NoLine}
        /\ fence' \in Requests \cup {None}
        /\ fencePend' \in BOOLEAN
    BY <2>1, RtabType DEF Outcome
  <2>6. /\ UNCHANGED <<dirty, wback, fetch, mshr, fifo, flush>> /\ st1' = None
        /\ plru' \subseteq Ways /\ issued' \subseteq Tids
        /\ uc' \in Uncached \cup {None}
    BY <1>1, <2>1 DEF Outcome, Stage1Frame, RestOutcome
  <2> QED
    BY <1>1, <2>3, <2>4, <2>5, <2>6
<1>6. CASE Stage2Vbuf
  BY <1>1, <1>6 DEF Stage2Vbuf, dirVars, rtabVars, missVars
<1>7. CASE Stage2Miss
  <2>1. st2 \in Stage2Ops /\ st2.op = "MISS"
    BY <1>1, <1>7 DEF Stage2Miss
  <2>2. st2.entry \in Misses /\ st2.entry.way \in Ways
    BY <2>1, Stage2Fields DEF Misses
  <2> QED
    BY <1>1, <1>7, <2>2 DEF Stage2Miss, rtabVars
<1>8. CASE Stage2Dir
  <2>1. st2 \in Stage2Ops /\ st2.op = "DIR"
    BY <1>1, <1>8 DEF Stage2Dir
  <2>2. st2.way \in Ways /\ st2.line \in Lines
    BY <2>1, Stage2Fields
  <2>3. data[st2.way] \in LineData
    BY <2>2 DEF ControlInv, TypeOK, VbufTypeOK
  <2>4. flush' \in [Lines -> LineData \cup {None}]
    BY <1>1, <1>8, <2>2, <2>3 DEF Stage2Dir
  <2> QED
    BY <1>1, <1>8, <2>2, <2>4 DEF Stage2Dir, rtabVars, missVars
<1>9. CASE UcMem
  <2>1. uc \in Uncached
    BY <1>1, <1>9 DEF UcMem
  <2>2. uc.req \in Requests
    BY <2>1 DEF Uncached
  <2>3. uc.req.line \in Lines /\ \A d \in LineData : Merge(d, uc.req) \in LineData
    BY <2>2, RequestFields
  <2>4. uc' \in Uncached
    BY <1>9, <2>1 DEF UcMem, Uncached
  <2>5. latest' \in [Lines -> LineData]
    <3>1. CASE latest' = latest
      BY <1>1, <3>1
    <3>2. CASE latest' = [latest EXCEPT ![uc.req.line] = Merge(@, uc.req)]
      <4>1. Merge(latest[uc.req.line], uc.req) \in LineData
        BY <1>1, <2>3
      <4> QED
        BY <1>1, <2>3, <3>2, <4>1
    <3> QED
      BY <1>9, <3>1, <3>2 DEF UcMem
  <2> QED
    BY <1>1, <1>9, <2>4, <2>5 DEF UcMem, dirVars, rtabVars, missVars
<1>10. CASE UcDone
  BY <1>1, <1>10 DEF UcDone, Respond, dirVars, rtabVars, missVars
<1>11. CASE FenceRelease
  BY <1>1, <1>11 DEF FenceRelease, dirVars, missVars
<1>12. CASE MissSend
  <2>1. PICK m \in mshr : mshr' = (mshr \ {m}) \cup {[m EXCEPT !.phase = "mem"]}
    BY <1>12 DEF MissSend
  <2>2. [m EXCEPT !.phase = "mem"] \in Misses
    BY <1>1 DEF Misses
  <2>3. mshr' \subseteq Misses
    BY <1>1, <2>1, <2>2
  <2>4. deps' \in [Lines -> SUBSET Deps]
    BY <1>1, <1>12 DEF MissSend
  <2> QED
    BY <1>1, <1>12, <2>3, <2>4 DEF MissSend, dirVars
<1>13. CASE MissResp
  <2>1. PICK m \in mshr, err \in BOOLEAN :
            /\ mshr' = (mshr \ {m}) \cup {[m EXCEPT !.phase = "resp"]}
            /\ fifo' = Append(fifo, [line |-> m.req.line, err |-> err,
                                     data |-> mem[m.req.line]])
    BY <1>13 DEF MissResp
  <2>2. m \in Misses /\ [m EXCEPT !.phase = "resp"] \in Misses
    BY <1>1 DEF Misses
  <2>3. m.req.line \in Lines
    BY MissFacts DEF ControlInv
  <2>4. mem[m.req.line] \in LineData
    BY <2>3 DEF ControlInv, TypeOK, VbufTypeOK
  <2> DEFINE x == [line |-> m.req.line, err |-> err, data |-> mem[m.req.line]]
  <2>5. x \in Refills
    BY <2>3, <2>4 DEF Refills
  <2>6. fifo' \in Seq(Refills) /\ mshr' \subseteq Misses
    <3>1. fifo \in Seq(Refills) /\ fifo' = Append(fifo, x)
      BY <1>1, <2>1
    <3> HIDE DEF x
    <3>2. fifo' \in Seq(Refills)
      BY <2>5, <3>1
    <3> QED
      BY <1>1, <2>1, <2>2, <3>2
  <2> QED
    BY <1>1, <1>13, <2>6 DEF MissResp, dirVars, rtabVars
<1>14. CASE Refill
  <2>1. PICK m \in mshr :
            /\ mshr' = mshr \ {m} /\ fifo' = Tail(fifo)
            /\ fetch' = fetch \ {m.way}
            /\ RefillRam(m)
            /\ issued' = issued \/ Respond(m.req)
            /\ RefillWakeUp(m.req.line, m.way, Head(fifo).err)
    BY <1>14, RefillStep
  <2>2. fifo # <<>> /\ UNCHANGED <<st1, st2, flush, uc>>
    BY <1>14 DEF Refill
  <2>3. m.way \in Ways /\ m.req.line \in Lines /\ m.req \in Requests
    BY MissFacts DEF ControlInv
  <2>4. fifo' \in Seq(Refills)
    BY <1>1, <2>1, <2>2
  <2>5. latest' \in [Lines -> LineData]
    <3>1. CASE latest' = latest
      BY <1>1, <3>1
    <3>2. CASE latest' = [latest EXCEPT ![m.req.line] = Merge(@, m.req)]
      <4>1. Merge(latest[m.req.line], m.req) \in LineData
        BY <1>1, <2>3, RequestFields
      <4> QED
        BY <1>1, <2>3, <3>2, <4>1
    <3> QED
      BY <2>1, <3>1, <3>2 DEF RefillRam
  <2>6. dirty' \subseteq Ways /\ wback' \subseteq Ways /\ fetch' \subseteq Ways
    BY <1>1, <2>1, <2>3 DEF RefillRam
  <2>7. plru' \subseteq Ways
    <3>1. plru' = plru \/ PlruUpdate(m.req.line, m.way)
      BY <2>1 DEF RefillRam
    <3> QED
      BY <1>1, <2>3, <3>1, PlruType
  <2>8. deps' \in [Lines -> SUBSET Deps]
    BY <1>1, <2>1 DEF RefillWakeUp
  <2>9. rtabErr' \in [Lines -> BOOLEAN]
    BY <1>1, <2>1 DEF RefillWakeUp
  <2>10. UNCHANGED <<waitq, fetchWay, popNext, fence, fencePend>>
    BY <2>1 DEF RefillWakeUp
  <2>11. issued' \subseteq Tids /\ mshr' \subseteq Misses
    BY <1>1, <2>1 DEF Respond
  <2> QED
    BY <1>1, <2>2, <2>4, <2>5, <2>6, <2>7, <2>8, <2>9, <2>10, <2>11
<1>15. CASE FlushAck
  <2>1. PICK l \in Lines :
            /\ flush' = [flush EXCEPT ![l] = None]
            /\ deps' = [k \in Lines |->
                          deps[k] \ ({"flush_not_ready"} \cup
                                     (IF k = l THEN {"flush_hit"} ELSE {}))]
    BY <1>15 DEF FlushAck
  <2>2. flush' \in [Lines -> LineData \cup {None}]
    BY <1>1, <2>1
  <2>3. deps' \in [Lines -> SUBSET Deps]
    BY <1>1, <2>1
  <2> QED
    BY <1>1, <1>15, <2>2, <2>3 DEF FlushAck, dirVars, missVars
<1>16. CASE VbufDone
  <2>1. deps' = [deps EXCEPT ![nline] = @ \ {"vbuf_hit"}]
    BY <1>16 DEF VbufDone
  <2>2. deps' \in [Lines -> SUBSET Deps]
    BY <1>1, <2>1
  <2> QED
    BY <1>1, <1>16, <2>2 DEF VbufDone, dirVars, missVars
<1>17. CASE VbufStep
  BY <1>1, <1>17 DEF VbufStep, ctrlVars
<1> QED
  BY <1>2, <1>3, <1>4, <1>5, <1>6, <1>7, <1>8, <1>9, <1>10, <1>11, <1>12,
     <1>13, <1>14, <1>15, <1>16, <1>17 DEF Next, Stage2

LEMMA QueueStep ==
    ASSUME ControlInv, Next
    PROVE  QueueOK'
<1>1. QueueOK /\ ControlTypeOK
  BY DEF ControlInv, TypeOK, ControlTypeOK
<1>2. CASE AcceptCore
  <2>1. popNext = NoLine
    BY <1>2 DEF AcceptCore, RtabValid, ReplayLines
  <2>2. PICK r \in Requests : st1' = [req |-> r, replay |-> FALSE]
    BY <1>2 DEF AcceptCore
  <2>3. ~st1'.replay
    BY <2>2
  <2>4. UNCHANGED <<waitq, fence, uc, popNext>>
    BY <1>2 DEF AcceptCore, rtabVars
  <2> QED
    BY <1>1, <2>1, <2>3, <2>4 DEF QueueOK, IsFence
<1>3. CASE AcceptFence
  <2>1. popNext = NoLine /\ IsFence(fence)
    BY <1>1, <1>3 DEF AcceptFence, FenceReady, QueueOK
  <2>2. st1'.req = fence
    BY <1>3 DEF AcceptFence
  <2>3. UNCHANGED <<waitq, fence, uc, popNext>>
    BY <1>3 DEF AcceptFence, rtabVars
  <2> QED
    BY <1>1, <2>1, <2>2, <2>3 DEF QueueOK, IsFence
<1>4. ASSUME NEW l \in Lines, AcceptReplay(l)
      PROVE  QueueOK'
  <2>1. waitq[l] # <<>>
    BY <1>1, <1>4 DEF AcceptReplay, Stage0Free, ReplayLines, QueueOK
  <2>2. waitq[l] \in Seq(Requests) /\ Len(waitq[l]) \in Nat
    BY <1>1 DEF ControlTypeOK
  <2>3. 1 \in 1 .. Len(waitq[l]) /\ Head(waitq[l]) = waitq[l][1]
    BY <2>1, <2>2
  <2>4. Head(waitq[l]).line = l /\ ~IsFence(Head(waitq[l]))
    BY <1>1, <2>3 DEF QueueOK
  <2>5. st1'.req = Head(waitq[l]) /\ st1'.replay = TRUE
    BY <1>4 DEF AcceptReplay
  <2>6. popNext' = IF Len(waitq[l]) > 1 THEN l ELSE NoLine
    BY <1>4 DEF AcceptReplay
  <2>7. UNCHANGED <<waitq, fence, uc>>
    BY <1>4 DEF AcceptReplay
  <2> QED
    BY <1>1, <2>1, <2>4, <2>5, <2>6, <2>7 DEF QueueOK, IsFence
<1>5. CASE Stage1
  <2> DEFINE r == st1.req
             l == st1.req.line
  <2>1. Stage1Frame /\ RtabOutcome /\ RestOutcome
    BY <1>5, Stage1Outcome DEF Outcome, ControlInv, DirectoryConsistent
  <2>2. r \in Requests /\ l \in Lines /\ st1.replay \in BOOLEAN
    BY <2>1, Stage1Request DEF Stage1Frame, ControlInv
  <2>3. st1 # None /\ st1' = None
    BY <2>1 DEF Stage1Frame
  <2>4. uc' # None => IsFence(uc'.req)
    BY <1>1, <2>1 DEF RestOutcome, QueueOK, IsFence
  <2>5. waitq \in [Lines -> Seq(Requests)]
    BY <1>1 DEF ControlTypeOK
  <2>6. \A k \in Lines : \A i \in 1 .. Len(waitq[k]) :
            waitq[k][i].line = k /\ ~IsFence(waitq[k][i])
    BY <1>1 DEF QueueOK
  <2>7. popNext # NoLine =>
            /\ st1.replay /\ ~IsFence(r) /\ l = popNext
            /\ Len(waitq[popNext]) > 1
    BY <1>1, <2>3 DEF QueueOK
  <2>8. SUFFICES /\ \A k \in Lines : \A i \in 1 .. Len(waitq'[k]) :
                        waitq'[k][i].line = k /\ ~IsFence(waitq'[k][i])
                 /\ fence' # None => IsFence(fence')
                 /\ popNext' # NoLine => waitq'[popNext'] # <<>>
    BY <2>3, <2>4, <2>8 DEF QueueOK, IsFence
  <2>9. fence # None => IsFence(fence)
    BY <1>1 DEF QueueOK
  <2>10. CASE ~st1.replay /\ UNCHANGED rtabVars
    BY <2>6, <2>7, <2>9, <2>10 DEF rtabVars
  <2>11. CASE Commit
    <3>1. CASE ~st1.replay
      BY <2>6, <2>7, <2>9, <2>11, <3>1 DEF Commit, rtabVars
    <3>2. CASE st1.replay /\ IsFence(r)
      BY <2>6, <2>7, <2>9, <2>11, <3>2 DEF Commit
    <3>3. CASE st1.replay /\ ~IsFence(r)
      <4>1. waitq' = [waitq EXCEPT ![l] = Tail(@)] /\ UNCHANGED <<popNext, fence>>
        BY <2>11, <3>3 DEF Commit
      <4>2. waitq[l] # <<>> /\ waitq[l] \in Seq(Requests)
        BY <1>1, <2>2, <2>3, <2>5, <3>3 DEF QueueOK
      <4>3. waitq'[l] = Tail(waitq[l]) /\ \A k \in Lines \ {l} : waitq'[k] = waitq[k]
        BY <2>2, <2>5, <4>1
      <4>4. /\ Len(Tail(waitq[l])) = Len(waitq[l]) - 1
            /\ \A i \in 1 .. Len(Tail(waitq[l])) :
                  i + 1 \in 1 .. Len(waitq[l]) /\ Tail(waitq[l])[i] = waitq[l][i + 1]
        BY <4>2
      <4>5. \A i \in 1 .. Len(waitq'[l]) :
                waitq'[l][i].line = l /\ ~IsFence(waitq'[l][i])
        BY <2>2, <2>6, <4>3, <4>4
      <4>6. \A k \in Lines : \A i \in 1 .. Len(waitq'[k]) :
                waitq'[k][i].line = k /\ ~IsFence(waitq'[k][i])
        BY <2>6, <4>3, <4>5
      <4>7. popNext' # NoLine => waitq'[popNext'] # <<>>
        <5> SUFFICES ASSUME popNext # NoLine
                     PROVE  waitq'[l] # <<>>
          BY <2>7, <4>1
        <5>1. Len(waitq'[l]) > 0
          BY <2>7, <4>2, <4>3, <4>4
        <5> QED
          BY <5>1
      <4> QED
        BY <2>9, <4>1, <4>6, <4>7
    <3> QED
      BY <2>2, <3>1, <3>2, <3>3
  <2>12. ASSUME ~IsFence(r), ~Linked(r), NEW d \in SUBSET Deps, NEW w \in Ways,
                OnHold(d, w)
         PROVE  /\ \A k \in Lines : \A i \in 1 .. Len(waitq'[k]) :
                      waitq'[k][i].line = k /\ ~IsFence(waitq'[k][i])
                /\ fence' = fence /\ popNext' = NoLine
    <3>1. fence' = fence /\ popNext' = NoLine
      BY <2>12 DEF OnHold
    <3>2. CASE waitq' = waitq
      BY <2>6, <3>1, <3>2
    <3>3. CASE waitq' = [waitq EXCEPT ![l] = <<r>>]
      <4>1. waitq'[l] = <<r>> /\ \A k \in Lines \ {l} : waitq'[k] = waitq[k]
        BY <2>2, <2>5, <3>3
      <4>2. \A i \in 1 .. Len(waitq'[l]) :
                waitq'[l][i].line = l /\ ~IsFence(waitq'[l][i])
        BY <2>12, <4>1
      <4> QED
        BY <2>6, <3>1, <4>1, <4>2
    <3> QED
      BY <2>12, <3>2, <3>3 DEF OnHold
  <2>13. CASE /\ Linked(r)
              /\ waitq' = [waitq EXCEPT ![l] = Append(@, r)]
              /\ UNCHANGED <<popNext, fence>>
    <3>1. ~st1.replay /\ ~IsFence(r) /\ popNext = NoLine
      BY <2>7, <2>13 DEF Linked
    <3>2. waitq[l] \in Seq(Requests)
      BY <2>2, <2>5
    <3>3. waitq'[l] = Append(waitq[l], r) /\ \A k \in Lines \ {l} : waitq'[k] = waitq[k]
      BY <2>2, <2>5, <2>13
    <3>4. /\ Len(Append(waitq[l], r)) = Len(waitq[l]) + 1
          /\ Append(waitq[l], r)[Len(waitq[l]) + 1] = r
          /\ \A i \in 1 .. Len(waitq[l]) : Append(waitq[l], r)[i] = waitq[l][i]
      BY <2>2, <3>2
    <3>5. Len(waitq[l]) \in Nat
      BY <3>2
    <3>6. ASSUME NEW i \in 1 .. Len(waitq'[l])
          PROVE  waitq'[l][i].line = l /\ ~IsFence(waitq'[l][i])
      <4>1. i \in 1 .. Len(waitq[l]) \/ i = Len(waitq[l]) + 1
        BY <3>3, <3>4, <3>5
      <4> QED
        BY <2>2, <2>6, <3>1, <3>3, <3>4, <4>1
    <3> QED
      BY <2>6, <2>9, <2>13, <3>1, <3>3, <3>6
  <2>14. CASE IsFence(r) /\ FenceOnHold
    BY <2>6, <2>7, <2>14 DEF FenceOnHold
  <2> QED
    BY <2>1, <2>9, <2>10, <2>11, <2>12, <2>13, <2>14 DEF RtabOutcome
<1>6. CASE Stage2
  BY <1>1, <1>6 DEF Stage2, Stage2Vbuf, Stage2Miss, Stage2Dir, rtabVars, QueueOK, IsFence
<1>7. CASE UcMem
  <2>1. uc \in Uncached /\ uc'.req = uc.req
    BY <1>1, <1>7 DEF UcMem, ControlTypeOK, Uncached
  <2>2. IsFence(uc.req) /\ UNCHANGED <<st1, waitq, fence, popNext>>
    BY <1>1, <1>7 DEF UcMem, QueueOK, rtabVars
  <2> QED
    BY <1>1, <2>1, <2>2 DEF QueueOK, IsFence
<1>8. CASE UcDone \/ FenceRelease \/ MissSend \/ MissResp \/ FlushAck
           \/ VbufDone \/ VbufStep
  <2>1. UNCHANGED <<st1, waitq, fence, popNext>> /\ (uc' = uc \/ uc' = None)
    BY <1>8 DEF UcDone, FenceRelease, MissSend, MissResp, FlushAck, VbufDone,
       VbufStep, rtabVars, ctrlVars
  <2> QED
    BY <1>1, <2>1 DEF QueueOK, IsFence
<1>9. CASE Refill
  <2>1. UNCHANGED <<st1, uc>>
    BY <1>9 DEF Refill
  <2>2. UNCHANGED <<waitq, fence, popNext>>
    BY <1>9, RefillStep DEF RefillWakeUp
  <2> QED
    BY <1>1, <2>1, <2>2 DEF QueueOK, IsFence
<1> QED
  BY <1>2, <1>3, <1>4, <1>5, <1>6, <1>7, <1>8, <1>9 DEF Next

\* A capture is not disturbed, whatever else moves.
LEMMA CaptureOKStep ==
    ASSUME ControlInv, Next
    PROVE  CaptureOK'
<1>1. CaptureOK /\ Stage2OK /\ TypeOK /\ DirectoryConsistent
  BY DEF ControlInv
<1>2. CASE AcceptCore \/ AcceptFence \/ (\E l \in Lines : AcceptReplay(l))
  <2>1. /\ state # "CAPTURE" /\ (st2 = None \/ st2.op = "VBUF")
        /\ UNCHANGED <<state, st2>>
    BY <1>2 DEF AcceptCore, AcceptFence, AcceptReplay, Stage0Free, St2Empty,
       CapturePending, vbufVars
  <2> QED
    BY <2>1 DEF CaptureOK
<1>3. CASE Stage1
  <2>1. Stage1Frame
    BY <1>1, <1>3, Stage1Outcome DEF Outcome, DirectoryConsistent
  <2> QED
    BY <1>1, <2>1 DEF CaptureOK, Stage1Frame, vbufRegs
<1>4. CASE Stage2Vbuf
  <2>1. /\ AllocReady /\ st2.way \in dirty /\ tag[st2.way] = st2.line
    BY <1>1, <1>4 DEF Stage2Vbuf, Stage2OK
  <2>2. st2.way \notin fetch
    BY <1>1, <2>1 DEF DirectoryConsistent
  <2>3. /\ VbufAlloc(st2.line, st2.way) /\ st2' = None
        /\ UNCHANGED <<tag, dirty, fetch>>
    BY <1>4, <2>1 DEF Stage2Vbuf, ramVars, dirVars
  <2> QED
    BY <2>1, <2>2, <2>3 DEF CaptureOK, VbufAlloc
<1>5. CASE Stage2Miss
  <2>1. st1 = None
    BY <1>1, <1>5 DEF CaptureOK, Stage2Miss
  <2>2. state = "CAPTURE" => way # st2.entry.way
    BY <1>1, <1>5 DEF Stage2Miss, Stage2OK
  <2>3. UNCHANGED <<st1, state, nline, way, tag>> /\ fetch' = fetch \cup {st2.entry.way}
    BY <1>5 DEF Stage2Miss, VbufSafeConsume, vbufRegs, ramVars
  <2> QED
    BY <1>1, <2>1, <2>2, <2>3 DEF CaptureOK
<1>6. CASE Stage2Dir
  <2>1. st1 = None /\ st1' = None
    BY <1>1, <1>6 DEF CaptureOK, Stage2Dir
  <2>2. UNCHANGED <<state, nline, way, tag, fetch>>
    BY <1>6 DEF Stage2Dir, vbufVars
  <2> QED
    BY <1>1, <2>1, <2>2 DEF CaptureOK
<1>7. CASE UcMem \/ UcDone \/ FenceRelease \/ MissSend \/ MissResp \/ FlushAck
  <2>1. UNCHANGED <<vbufRegs, tag, dirty, fetch, st1, st2>>
    BY <1>7 DEF UcMem, UcDone, FenceRelease, MissSend, MissResp, FlushAck,
       vbufVars, vbufRegs, dirVars
  <2> QED
    BY <1>1, <2>1 DEF CaptureOK, vbufRegs
<1>8. CASE Refill
  <2>1. PICK m \in mshr : fetch' = fetch \ {m.way} /\ RefillRam(m)
    BY <1>8, RefillStep
  <2>2. m.way \in fetch /\ m.way \in Ways
    BY <1>1, MissFacts
  <2>3. state = "CAPTURE" => way # m.way
    BY <1>1, <2>2 DEF CaptureOK
  <2>4. st1 = None /\ UNCHANGED <<st1, st2, state, nline, way>>
    BY <1>8 DEF Refill, vbufRegs
  <2>5. way # m.way => tag'[way] = tag[way]
    BY <1>1, <2>1, <2>2 DEF RefillRam, TypeOK, VbufTypeOK
  <2> QED
    BY <1>1, <2>1, <2>3, <2>4, <2>5 DEF CaptureOK
<1>9. CASE VbufDone
  <2>1. state' = "IDLE" /\ UNCHANGED <<st1, st2>>
    BY <1>9 DEF VbufDone, VbufMemResp, VbufRelease
  <2> QED
    BY <1>1, <2>1 DEF CaptureOK
<1>10. CASE VbufStep
  <2>1. UNCHANGED ctrlVars
    BY <1>10 DEF VbufStep
  <2>2. state' = "CAPTURE" => state = "CAPTURE" /\ UNCHANGED <<nline, way, tag>>
    BY <1>10 DEF VbufStep, VbufRead, VbufCapture, VbufStartWriteBack,
       VbufMemReq, VbufMemData
  <2> QED
    BY <1>1, <2>1, <2>2 DEF CaptureOK, ctrlVars
<1> QED
  BY <1>2, <1>3, <1>4, <1>5, <1>6, <1>7, <1>8, <1>9, <1>10 DEF Next, Stage2

LEMMA Stage2Step ==
    ASSUME ControlInv, Next
    PROVE  Stage2OK'
<1>1. CaptureOK /\ Stage2OK /\ TypeOK /\ DirectoryConsistent
  BY DEF ControlInv
<1>2. CASE AcceptCore \/ AcceptFence \/ (\E l \in Lines : AcceptReplay(l))
  <2>1. UNCHANGED <<vbufVars, dirty, fetch, st2, mshr, flush>>
    BY <1>2 DEF AcceptCore, AcceptFence, AcceptReplay, dirVars, missVars
  <2> QED
    BY <1>1, <2>1 DEF Stage2OK, vbufVars, AllocReady, SafeToOverwrite, Hit, HitWays,
       CheckHit, valid, FlushHit, MshrHit
<1>3. CASE Stage1
  <2>1. Stage1Frame /\ Stage2Outcome
    BY <1>1, <1>3, Stage1Outcome DEF Outcome, DirectoryConsistent
  <2>2. st1 # None
    BY <2>1 DEF Stage1Frame
  <2>3. UNCHANGED <<state, nline, way, safeValid, safeNline, tag, dirty, fetch,
                    mshr, flush>>
    BY <2>1 DEF Stage1Frame, vbufRegs
  <2>4. CASE st2' = None
    BY <2>4 DEF Stage2OK
  <2>5. ASSUME NEW w \in dirty, ~SafeToOverwrite(tag[w]), AllocReady,
               st2' = [op |-> "VBUF", line |-> tag[w], way |-> w]
        PROVE  Stage2OK'
    <3>1. st2'.op = "VBUF" /\ st2'.line = tag[w] /\ st2'.way = w
      BY <2>5
    <3> QED
      BY <2>3, <2>5, <3>1 DEF Stage2OK, AllocReady, SafeToOverwrite
  <2>6. ASSUME NEW e \in Misses, NEW c \in BOOLEAN,
               e.req = st1.req, e.way \notin fetch,
               ~Hit(st1.req.line), HandlersFree(st1.req.line),
               e.way \notin dirty \/ SafeToOverwrite(tag[e.way]),
               st2' = [op |-> "MISS", entry |-> e, consume |-> c]
        PROVE  Stage2OK'
    <3>1. st2'.op = "MISS" /\ st2'.entry = e
      BY <2>6
    <3>2. state = "CAPTURE" => way \in dirty /\ ~SafeToOverwrite(tag[way])
      BY <1>1, <2>2 DEF CaptureOK, ControlInv, NoStaleSafeFlag
    <3>3. state = "CAPTURE" => way # e.way
      BY <2>6, <3>2
    <3> QED
      BY <2>3, <2>6, <3>1, <3>3 DEF Stage2OK, HandlersFree, Hit, HitWays, CheckHit, valid,
         FlushHit, MshrHit
  <2>7. ASSUME NEW w \in Ways, NEW b \in BOOLEAN, NEW d \in BOOLEAN,
               NEW f \in BOOLEAN, tag[w] = st1.req.line, w \notin fetch,
               st2' = [op |-> "DIR", way |-> w, line |-> st1.req.line,
                       wback |-> b, dirty |-> d, flush |-> f]
        PROVE  Stage2OK'
    <3>1. st2'.op = "DIR" /\ st2'.way = w /\ st2'.line = st1.req.line
      BY <2>7
    <3> QED
      BY <2>3, <2>7, <3>1 DEF Stage2OK
  <2> QED
    BY <2>1, <2>4, <2>5, <2>6, <2>7 DEF Stage2Outcome
<1>4. CASE Stage2
  BY <1>4 DEF Stage2, Stage2Vbuf, Stage2Miss, Stage2Dir, Stage2OK
<1>5. CASE UcMem \/ UcDone \/ FenceRelease
  <2>1. UNCHANGED <<vbufRegs, tag, dirty, fetch, st2, mshr, flush>>
    BY <1>5 DEF UcMem, UcDone, FenceRelease, dirVars, missVars, vbufVars, vbufRegs
  <2> QED
    BY <1>1, <2>1 DEF Stage2OK, vbufRegs, AllocReady, SafeToOverwrite, Hit, HitWays,
       CheckHit, valid, FlushHit, MshrHit
<1>6. CASE MissSend \/ MissResp
  <2>1. UNCHANGED <<vbufVars, dirty, fetch, st2, flush>>
    BY <1>6 DEF MissSend, MissResp, dirVars
  <2>2. PICK m \in mshr, p \in {"mem", "resp"} :
            mshr' = (mshr \ {m}) \cup {[m EXCEPT !.phase = p]}
    BY <1>6 DEF MissSend, MissResp
  <2>3. [m EXCEPT !.phase = p].req = m.req
    BY <1>1 DEF TypeOK, Misses
  <2>4. \A l : MshrHit(l)' => MshrHit(l)
    BY <2>2, <2>3 DEF MshrHit
  <2> QED
    BY <1>1, <2>1, <2>4 DEF Stage2OK, vbufVars, AllocReady, SafeToOverwrite, Hit, HitWays,
       CheckHit, valid, FlushHit
<1>7. CASE Refill
  <2>1. PICK m \in mshr : fetch' = fetch \ {m.way} /\ RefillRam(m)
    BY <1>7, RefillStep
  <2>2. m.way \in Ways /\ m.way \in fetch /\ m.way \notin dirty
    BY <1>1, MissFacts
  <2>3. (st2 # None => st2.op = "VBUF") /\ UNCHANGED <<st2, vbufRegs>>
    BY <1>7 DEF Refill, St2Empty
  <2>4. st2 # None =>
            /\ AllocReady /\ st2.way \in dirty /\ tag[st2.way] = st2.line
            /\ ~SafeToOverwrite(st2.line)
    BY <1>1, <2>3 DEF Stage2OK
  <2>5. st2 # None => st2.way \in Ways /\ st2.way # m.way
    BY <1>1, <2>2, <2>4 DEF TypeOK
  <2>6. st2 # None => st2.way \in dirty' /\ tag'[st2.way] = tag[st2.way]
    BY <1>1, <2>1, <2>2, <2>4, <2>5 DEF RefillRam, TypeOK, VbufTypeOK
  <2> QED
    BY <2>3, <2>4, <2>6 DEF Stage2OK, vbufRegs, AllocReady, SafeToOverwrite
<1>8. CASE FlushAck
  <2>1. UNCHANGED <<vbufRegs, tag, dirty, fetch, st2, mshr>>
    BY <1>8 DEF FlushAck, dirVars, missVars
  <2>2. PICK l \in Lines : flush' = [flush EXCEPT ![l] = None]
    BY <1>8 DEF FlushAck
  <2>3. \A k \in Lines : FlushHit(k)' => FlushHit(k)
    BY <1>1, <2>2 DEF FlushHit, TypeOK
  <2>4. st2 # None /\ st2.op = "MISS" => st2.entry.req.line \in Lines
    BY <1>1, Stage2Fields, RequestFields DEF TypeOK, Misses
  <2> QED
    BY <1>1, <2>1, <2>3, <2>4 DEF Stage2OK, vbufRegs, AllocReady, SafeToOverwrite, Hit,
       HitWays, CheckHit, valid, MshrHit
<1>9. CASE VbufDone
  <2>1. state = "WAIT_RESP" /\ state' = "IDLE" /\ UNCHANGED <<nline, way, tag>>
    BY <1>9 DEF VbufDone, VbufMemResp, VbufRelease
  <2>2. UNCHANGED <<dirty, fetch, st2, mshr, flush>>
    BY <1>9 DEF VbufDone, dirVars, missVars
  <2> QED
    BY <1>1, <2>1, <2>2 DEF Stage2OK, AllocReady, Hit, HitWays, CheckHit, valid, FlushHit,
       MshrHit
<1>10. CASE VbufStep
  <2>1. UNCHANGED <<dirty, fetch, st2, mshr, flush>>
    BY <1>10 DEF VbufStep, ctrlVars
  <2>2. /\ state # "IDLE" /\ UNCHANGED <<nline, way, tag>>
        /\ state' = "CAPTURE" => state = "CAPTURE"
    BY <1>10 DEF VbufStep, VbufRead, VbufCapture, VbufStartWriteBack,
       VbufMemReq, VbufMemData
  <2> QED
    BY <1>1, <2>1, <2>2 DEF Stage2OK, AllocReady, Hit, HitWays, CheckHit, valid, FlushHit,
       MshrHit
<1> QED
  BY <1>2, <1>3, <1>4, <1>5, <1>6, <1>7, <1>8, <1>9, <1>10 DEF Next

LEMMA DirectoryStep ==
    ASSUME ControlInv, Next
    PROVE  DirectoryConsistent'
<1>1. CaptureOK /\ Stage2OK /\ TypeOK /\ DirectoryConsistent
  BY DEF ControlInv
<1>2. \A v, w \in Ways : tag'[v] = tag'[w] /\ tag'[v] # NoLine => v = w
  BY VbufPartStep DEF NoStaleSafeFlag
<1> DEFINE Bits ==
             /\ dirty \cap fetch = {}
             /\ \A w \in dirty : tag[w] # NoLine
           Owners ==
             /\ fetch = {m.way : m \in mshr}
             /\ \A m, n \in mshr :
                   m.way = n.way \/ m.req.line = n.req.line => m = n
           Apart ==
             \A m \in mshr :
                /\ ~Hit(m.req.line)
                /\ ~CheckHit(m.req.line)
                /\ ~FlushHit(m.req.line)
<1>3. SUFFICES Bits' /\ Owners' /\ Apart'
  BY <1>2, <1>3 DEF DirectoryConsistent
<1>4. Bits /\ Owners /\ Apart
  BY <1>1 DEF DirectoryConsistent
<1>5. CASE AcceptCore \/ AcceptFence \/ (\E l \in Lines : AcceptReplay(l))
           \/ UcMem \/ UcDone \/ FenceRelease
  <2>1. UNCHANGED <<vbufRegs, tag, dirty, fetch, mshr, flush>>
    BY <1>5 DEF AcceptCore, AcceptFence, AcceptReplay, UcMem, UcDone,
       FenceRelease, dirVars, missVars, vbufVars, vbufRegs
  <2> QED
    BY <1>4, <2>1 DEF vbufRegs, Hit, HitWays, CheckHit, valid, FlushHit
<1>6. CASE Stage1
  <2>1. Stage1Frame
    BY <1>1, <1>6, Stage1Outcome DEF Outcome, DirectoryConsistent
  <2> QED
    BY <1>4, <2>1 DEF Stage1Frame, vbufRegs, Hit, HitWays, CheckHit, valid, FlushHit
<1>7. CASE Stage2Vbuf
  <2>1. st2 \in Stage2Ops /\ st2.op = "VBUF"
    BY <1>1, <1>7 DEF Stage2Vbuf, TypeOK
  <2>2. AllocReady /\ tag[st2.way] = st2.line /\ st2.way \in Ways
    BY <1>1, <1>7, <2>1, Stage2Fields DEF Stage2OK, Stage2Vbuf
  <2>3. nline' = st2.line /\ UNCHANGED <<tag, dirty, fetch, mshr, flush>>
    BY <1>7, <2>2 DEF Stage2Vbuf, VbufAlloc, ramVars, dirVars, missVars
  <2>4. ASSUME NEW m \in mshr
        PROVE  m.req.line # st2.line
    BY <1>1, <2>2, MissFacts
  <2> QED
    BY <1>4, <2>3, <2>4 DEF Hit, HitWays, CheckHit, valid, FlushHit
<1>8. CASE Stage2Miss
  <2> DEFINE e == st2.entry
  <2>1. st2 # None /\ st2 \in Stage2Ops /\ st2.op = "MISS"
    BY <1>1, <1>8 DEF Stage2Miss, TypeOK
  <2>2. e \in Misses /\ e.way \in Ways
    BY <2>1, Stage2Fields DEF Misses
  <2>3. /\ e.way \notin fetch /\ ~Hit(e.req.line) /\ ~CheckHit(e.req.line)
        /\ ~FlushHit(e.req.line) /\ ~MshrHit(e.req.line)
    BY <1>1, <2>1 DEF Stage2OK
  <2>4. /\ mshr' = mshr \cup {e} /\ dirty' = dirty \ {e.way}
        /\ fetch' = fetch \cup {e.way}
        /\ UNCHANGED <<state, nline, tag, flush>>
    BY <1>8 DEF Stage2Miss, VbufSafeConsume, vbufRegs, ramVars
  <2> HIDE DEF e
  <2>5. Bits'
    BY <1>4, <2>4
  <2>6. Owners'
    <3>1. fetch' = {m.way : m \in mshr'}
      BY <1>4, <2>4
    <3>2. \A m \in mshr : m.way # e.way /\ m.req.line # e.req.line
      BY <1>4, <2>3 DEF MshrHit
    <3> QED
      BY <1>4, <2>4, <3>1, <3>2
  <2>7. Apart'
    BY <1>4, <2>3, <2>4 DEF Hit, HitWays, CheckHit, valid, FlushHit
  <2> QED
    BY <2>5, <2>6, <2>7
<1>9. CASE Stage2Dir
  <2>1. st2 # None /\ st2 \in Stage2Ops /\ st2.op = "DIR"
    BY <1>1, <1>9 DEF Stage2Dir, TypeOK
  <2>2. st2.way \in Ways /\ st2.line \in Lines
    BY <2>1, Stage2Fields
  <2>3. tag[st2.way] = st2.line /\ st2.way \notin fetch
    BY <1>1, <2>1 DEF Stage2OK
  <2>4. /\ dirty' = IF st2.dirty THEN dirty \cup {st2.way} ELSE dirty \ {st2.way}
        /\ flush' = IF st2.flush THEN [flush EXCEPT ![st2.line] = data[st2.way]]
                    ELSE flush
        /\ UNCHANGED <<state, nline, tag, fetch, mshr>>
    BY <1>9 DEF Stage2Dir, vbufVars, missVars
  <2>5. Bits'
    BY <1>4, <2>2, <2>3, <2>4, VbufAssumption
  <2>6. Apart'
    <3> SUFFICES ASSUME NEW m \in mshr
                 PROVE  ~Hit(m.req.line)' /\ ~CheckHit(m.req.line)' /\ ~FlushHit(m.req.line)'
      BY <2>4
    <3>1. m.req.line \in Lines /\ m.req.line # st2.line
      BY <1>1, <2>2, <2>3, MissFacts
    <3>2. flush'[m.req.line] = flush[m.req.line]
      BY <1>1, <2>4, <3>1 DEF TypeOK
    <3> QED
      BY <1>4, <2>4, <3>2 DEF Hit, HitWays, CheckHit, valid, FlushHit
  <2> QED
    BY <1>4, <2>4, <2>5, <2>6
<1>10. CASE MissSend \/ MissResp
  <2>1. UNCHANGED <<vbufVars, dirty, fetch, flush>>
    BY <1>10 DEF MissSend, MissResp, dirVars
  <2>2. PICK m \in mshr, p \in {"mem", "resp"} :
            mshr' = (mshr \ {m}) \cup {[m EXCEPT !.phase = p]}
    BY <1>10 DEF MissSend, MissResp
  <2> DEFINE n == [m EXCEPT !.phase = p]
  <2>3. n.req = m.req /\ n.way = m.way
    BY <1>1 DEF TypeOK, Misses
  <2>4. mshr' = (mshr \ {m}) \cup {n}
    BY <2>2
  <2> HIDE DEF n
  <2>5. Owners'
    <3>1. {k.way : k \in mshr'} = {k.way : k \in mshr}
      BY <2>3, <2>4
    <3> QED
      BY <1>4, <2>1, <2>3, <2>4, <3>1
  <2>6. Apart'
    BY <1>4, <2>1, <2>3, <2>4 DEF vbufVars, Hit, HitWays, CheckHit, valid, FlushHit
  <2> QED
    BY <1>4, <2>1, <2>5, <2>6 DEF vbufVars
<1>11. CASE Refill
  <2>1. PICK m \in mshr :
            mshr' = mshr \ {m} /\ fetch' = fetch \ {m.way} /\ RefillRam(m)
    BY <1>11, RefillStep
  <2>2. /\ m.way \in Ways /\ m.way \in fetch /\ m.way \notin dirty
        /\ m.req.line \in Lines
    BY <1>1, MissFacts
  <2>3. UNCHANGED <<state, nline, flush>>
    BY <1>11 DEF Refill, vbufRegs
  <2>4. \A w \in Ways \ {m.way} : tag'[w] = tag[w]
    BY <1>1, <2>1, <2>2 DEF RefillRam, TypeOK, VbufTypeOK
  <2>5. tag'[m.way] = m.req.line \/ (tag'[m.way] = NoLine /\ m.way \notin dirty')
    BY <1>1, <2>1, <2>2 DEF RefillRam, TypeOK, VbufTypeOK
  <2>6. dirty' \subseteq dirty \cup {m.way}
    BY <2>1 DEF RefillRam
  <2>7. Bits'
    <3>1. dirty \subseteq Ways
      BY <1>1 DEF TypeOK
    <3> QED
      BY <1>4, <2>1, <2>2, <2>4, <2>5, <2>6, <3>1, VbufAssumption
  <2>8. Owners'
    <3>1. fetch' = {k.way : k \in mshr'}
      BY <1>4, <2>1
    <3> QED
      BY <1>4, <2>1, <3>1
  <2>9. Apart'
    <3> SUFFICES ASSUME NEW k \in mshr, k # m
                 PROVE  ~Hit(k.req.line)' /\ ~CheckHit(k.req.line)' /\ ~FlushHit(k.req.line)'
      BY <2>1
    <3>1. k.req.line # m.req.line
      BY <1>4
    <3>2. k.req.line \in Lines /\ \A w \in Ways : tag[w] # k.req.line
      BY <1>1, MissFacts
    <3>3. \A w \in Ways : tag'[w] # k.req.line
      BY <2>4, <2>5, <3>1, <3>2, VbufAssumption
    <3> QED
      BY <1>4, <2>3, <3>3 DEF Hit, HitWays, CheckHit, valid, FlushHit
  <2> QED
    BY <2>7, <2>8, <2>9
<1>12. CASE FlushAck
  <2>1. UNCHANGED <<vbufRegs, tag, dirty, fetch, mshr>>
    BY <1>12 DEF FlushAck, dirVars, missVars
  <2>2. PICK l \in Lines : flush' = [flush EXCEPT ![l] = None]
    BY <1>12 DEF FlushAck
  <2>3. \A k \in Lines : FlushHit(k)' => FlushHit(k)
    BY <1>1, <2>2 DEF FlushHit, TypeOK
  <2>4. \A m \in mshr : m.req.line \in Lines
    BY <1>1, MissFacts
  <2> QED
    BY <1>4, <2>1, <2>3, <2>4 DEF vbufRegs, Hit, HitWays, CheckHit, valid
<1>13. CASE VbufDone
  <2>1. state' = "IDLE" /\ UNCHANGED <<nline, tag, dirty, fetch, mshr, flush>>
    BY <1>13 DEF VbufDone, VbufMemResp, VbufRelease, dirVars, missVars
  <2> QED
    BY <1>4, <2>1 DEF Hit, HitWays, CheckHit, valid, FlushHit
<1>14. CASE VbufStep
  <2>1. state # "IDLE" /\ UNCHANGED <<nline, tag, dirty, fetch, mshr, flush>>
    BY <1>14 DEF VbufStep, VbufRead, VbufCapture, VbufStartWriteBack,
       VbufMemReq, VbufMemData, ctrlVars
  <2> QED
    BY <1>4, <2>1 DEF Hit, HitWays, CheckHit, valid, FlushHit
<1> QED
  BY <1>5, <1>6, <1>7, <1>8, <1>9, <1>10, <1>11, <1>12, <1>13, <1>14
     DEF Next, Stage2

\* The refills in the FIFO stay those of outstanding misses.
LEMMA FifoStep ==
    ASSUME ControlInv, Next
    PROVE  FifoOK'
<1>1. TypeOK /\ DirectoryConsistent /\ FifoOK
  BY DEF ControlInv
<1>2. fifo \in Seq(Refills) /\ Len(fifo) \in Nat
  BY <1>1 DEF TypeOK
<1>3. CASE Stage2Miss
  <2>1. mshr \subseteq mshr' /\ fifo' = fifo
    BY <1>3 DEF Stage2Miss
  <2> QED
    BY <1>1, <2>1 DEF FifoOK
<1>4. CASE MissSend
  <2>1. PICK m \in mshr : m.phase = "send" /\ mshr \ {m} \subseteq mshr'
    BY <1>4 DEF MissSend
  <2>2. fifo' = fifo
    BY <1>4 DEF MissSend
  <2> QED
    BY <1>1, <2>1, <2>2 DEF FifoOK
<1>5. CASE MissResp
  <2>1. PICK m \in mshr, err \in BOOLEAN :
            /\ m.phase = "mem"
            /\ mshr' = (mshr \ {m}) \cup {[m EXCEPT !.phase = "resp"]}
            /\ fifo' = Append(fifo, [line |-> m.req.line, err |-> err,
                                     data |-> mem[m.req.line]])
    BY <1>5 DEF MissResp
  <2> DEFINE x == [line |-> m.req.line, err |-> err, data |-> mem[m.req.line]]
             n == [m EXCEPT !.phase = "resp"]
  <2>2. n \in mshr' /\ n.req = m.req /\ n.phase = "resp" /\ x.line = m.req.line
    BY <1>1, <2>1 DEF TypeOK, Misses
  <2>3. mshr \ {m} \subseteq mshr' /\ fifo' = Append(fifo, x)
    BY <2>1
  <2> HIDE DEF x, n
  <2>4. /\ Len(fifo') = Len(fifo) + 1 /\ fifo'[Len(fifo) + 1] = x
        /\ \A i \in 1 .. Len(fifo) : fifo'[i] = fifo[i]
    BY <1>2, <2>3
  <2>5. \A i \in 1 .. Len(fifo) : fifo[i].line # m.req.line
    BY <1>1, <2>1 DEF FifoOK, DirectoryConsistent
  <2>6. \A i \in 1 .. Len(fifo') : i \in 1 .. Len(fifo) \/ i = Len(fifo) + 1
    BY <1>2, <2>4
  <2>7. \A i \in 1 .. Len(fifo) :
            \E k \in mshr' : k.req.line = fifo[i].line /\ k.phase = "resp"
    BY <1>1, <2>1, <2>3 DEF FifoOK
  <2>8. \A i \in 1 .. Len(fifo') :
            \E k \in mshr' : k.req.line = fifo'[i].line /\ k.phase = "resp"
    BY <2>2, <2>4, <2>6, <2>7
  <2>9. \A i, j \in 1 .. Len(fifo') : fifo'[i].line = fifo'[j].line => i = j
    BY <1>1, <2>2, <2>4, <2>5, <2>6 DEF FifoOK
  <2> QED
    BY <2>8, <2>9 DEF FifoOK
<1>6. CASE Refill
  <2>1. PICK m \in mshr :
            m.req.line = Head(fifo).line /\ mshr' = mshr \ {m} /\ fifo' = Tail(fifo)
    BY <1>6, RefillStep
  <2>2. fifo # <<>>
    BY <1>6 DEF Refill
  <2>3. /\ Len(fifo') = Len(fifo) - 1 /\ Head(fifo) = fifo[1] /\ 1 \in 1 .. Len(fifo)
        /\ \A i \in 1 .. Len(fifo') :
              i + 1 \in 1 .. Len(fifo) /\ fifo'[i] = fifo[i + 1] /\ i + 1 # 1
    BY <1>2, <2>1, <2>2
  <2>4. \A i \in 1 .. Len(fifo') : fifo'[i].line # m.req.line
    BY <1>1, <2>1, <2>3 DEF FifoOK
  <2>5. \A i \in 1 .. Len(fifo') :
            \E k \in mshr' : k.req.line = fifo'[i].line /\ k.phase = "resp"
    BY <1>1, <2>1, <2>3, <2>4 DEF FifoOK
  <2>6. ASSUME NEW i \in 1 .. Len(fifo'), NEW j \in 1 .. Len(fifo'),
               fifo'[i].line = fifo'[j].line
        PROVE  i = j
    <3>1. i + 1 = j + 1
      BY <1>1, <2>3, <2>6 DEF FifoOK
    <3> QED
      BY <1>2, <2>3, <3>1
  <2> QED
    BY <2>5, <2>6 DEF FifoOK
<1>7. CASE Stage1
  <2>1. Stage1Frame
    BY <1>1, <1>7, Stage1Outcome DEF Outcome, DirectoryConsistent
  <2> QED
    BY <1>1, <2>1 DEF FifoOK, Stage1Frame
<1>8. CASE UNCHANGED missVars
  BY <1>1, <1>8 DEF FifoOK, missVars
<1> QED
  BY <1>3, <1>4, <1>5, <1>6, <1>7, <1>8
     DEF Next, Stage2, AcceptCore, AcceptFence, AcceptReplay, Stage2Vbuf,
         Stage2Dir, UcMem, UcDone, FenceRelease, FlushAck, VbufDone, VbufStep,
         ctrlVars, missVars

-----------------------------------------------------------------------------
(* What holds of the cache with any operations.                              *)

\* The control invariant is inductive.
THEOREM ControlInvariant == Spec => []ControlInv
<1>1. Init => ControlInv
  <2> SUFFICES ASSUME Init
               PROVE  ControlInv
    OBVIOUS
  <2>1. V0 \in Vals /\ Lowest(Ways) \in Ways /\ 0 \in BeatIdx
    BY WaysType, VbufAssumption, HpdcacheAssumption DEF BeatIdx
  <2>2. [i \in BeatIdx |-> V0] \in LineData
    BY <2>1 DEF LineData
  <2>3. VbufTypeOK
    <3>1. victim \in LineData /\ snap \in LineData /\ burst \in Seq(Vals)
      BY <2>2 DEF Init
    <3>2. /\ tag \in [Ways -> Lines \cup {NoLine}] /\ data \in [Ways -> LineData]
          /\ mem \in [Lines -> LineData]
      BY <2>2 DEF Init
    <3>3. /\ state = "IDLE" /\ nline = NoLine /\ way \in Ways /\ beat \in BeatIdx
          /\ readAccept \in BOOLEAN /\ rdata \in Vals /\ wbBeat \in BeatIdx
          /\ safeValid \in BOOLEAN /\ safeNline = NoLine
      BY <2>1 DEF Init
    <3> QED
      BY <3>1, <3>2, <3>3 DEF VbufTypeOK, VbufStates, valid
  <2>4. ControlTypeOK
    <3>1. /\ waitq \in [Lines -> Seq(Requests)] /\ deps \in [Lines -> SUBSET Deps]
          /\ fetchWay \in [Lines -> Ways] /\ rtabErr \in [Lines -> BOOLEAN]
      BY <2>1 DEF Init
    <3>2. /\ flush \in [Lines -> LineData \cup {None}]
          /\ latest \in [Lines -> LineData]
      BY <2>2 DEF Init
    <3>3. /\ dirty = {} /\ wback = {} /\ fetch = {} /\ plru = {}
          /\ st1 = None /\ st2 = None /\ popNext = NoLine
          /\ fence = None /\ fencePend = FALSE /\ uc = None /\ issued = {}
          /\ mshr = {} /\ fifo \in Seq(Refills)
      BY DEF Init
    <3> QED
      BY <3>1, <3>2, <3>3 DEF ControlTypeOK
  <2>5. BurstFollowsVictim
    <3>1. burst = <<>> /\ Len(burst) = 0 /\ state = "IDLE"
      BY DEF Init
    <3> QED
      BY <3>1 DEF BurstFollowsVictim
  <2>6. NoStaleSafeFlag
    BY DEF Init, NoStaleSafeFlag
  <2>7. QueueOK
    <3>1. \A l \in Lines : waitq[l] = <<>> /\ Len(waitq[l]) = 0
      BY DEF Init
    <3> QED
      BY <3>1 DEF Init, QueueOK
  <2>8. CaptureOK /\ Stage2OK
    BY DEF Init, CaptureOK, Stage2OK
  <2>9. DirectoryConsistent
    BY DEF Init, DirectoryConsistent
  <2>10. FifoOK
    <3>1. fifo = <<>> /\ Len(fifo) = 0
      BY DEF Init
    <3> QED
      BY <3>1 DEF FifoOK
  <2> QED
    BY <2>3, <2>4, <2>5, <2>6, <2>7, <2>8, <2>9, <2>10 DEF ControlInv, TypeOK, ControlTypeOK
<1>2. ControlInv /\ [Next]_hpdVars => ControlInv'
  <2> SUFFICES ASSUME ControlInv, [Next]_hpdVars
               PROVE  ControlInv'
    OBVIOUS
  <2>1. CASE Next
    <3>1. VbufTypeOK' /\ BurstFollowsVictim' /\ NoStaleSafeFlag'
      BY <2>1, VbufPartStep
    <3>2. ControlTypeOK'
      BY <2>1, ControlTypeStep
    <3>3. TypeOK'
      BY <3>1, <3>2 DEF TypeOK, ControlTypeOK
    <3> QED
      BY <2>1, <3>1, <3>3, QueueStep, CaptureOKStep, Stage2Step, DirectoryStep,
         FifoStep
         DEF ControlInv
  <2>2. CASE UNCHANGED hpdVars
    BY <2>2 DEF hpdVars, vbufVars, ctrlVars, ControlInv, TypeOK, VbufTypeOK, valid,
       BurstFollowsVictim, NoStaleSafeFlag, QueueOK, CaptureOK, Stage2OK, FifoOK,
       DirectoryConsistent, SafeToOverwrite, AllocReady, Hit, HitWays, CheckHit,
       FlushHit, MshrHit, IsFence
  <2> QED
    BY <2>1, <2>2
<1> QED
  BY <1>1, <1>2, PTL DEF Spec

\* Every register and table of the cache keeps its type (TypeOK).
THEOREM HpdcacheTypeCorrect == Spec => []TypeOK
<1>1. ControlInv => TypeOK
  BY DEF ControlInv
<1> QED
  BY <1>1, ControlInvariant, PTL

\* The directory, the MSHR, the victim buffer and the flush controller agree
\* on where every line is (DirectoryConsistent).
THEOREM DirectoryIsConsistent == Spec => []DirectoryConsistent
<1>1. ControlInv => DirectoryConsistent
  BY DEF ControlInv
<1> QED
  BY <1>1, ControlInvariant, PTL

-----------------------------------------------------------------------------
(* The data, without AMOs.                                                   *)

\* The core issues loads, stores and prefetches only.
NoAmo == "AMO" \notin Ops

-----------------------------------------------------------------------------
(* The inductive invariant of the data, without AMOs.                        *)

\* Dirty lines are write-back lines, and a directory update that clears a
\* dirty bit flushes the line.
DirtyOK ==
    /\ dirty \subseteq wback
    /\ \A m \in mshr : m.dirty => m.wback
    /\ st2 # None /\ st2.op = "MISS" =>
          (st2.entry.dirty => st2.entry.wback)
    /\ st2 # None /\ st2.op = "DIR" =>
          /\ st2.dirty => st2.wback
          /\ ~st2.dirty /\ st2.way \in dirty => st2.flush

\* Every copy of a line that may still be read is the newest.
CopiesAreLatest ==
    /\ \A w \in Ways : tag[w] # NoLine => data[w] = latest[tag[w]]
    /\ valid => snap = latest[nline]
    /\ \A l \in Lines : FlushHit(l) => flush[l] = latest[l]
    /\ \A i \in 1 .. Len(fifo) : fifo[i].data = latest[fifo[i].line]

\* NoLostStore, where a pending directory update counts only if it will set
\* the dirty bit.
LatestIsSomewhere ==
    \A l \in Lines :
        \/ mem[l] = latest[l]
        \/ \E w \in HitWays(l) :
              \/ w \in dirty
              \/ st2 # None /\ st2.op = "DIR" /\ st2.way = w /\ st2.dirty
        \/ CheckHit(l)
        \/ FlushHit(l)

DataInv ==
    /\ ControlInv
    /\ VbufInv
    /\ DirtyOK
    /\ CopiesAreLatest
    /\ LatestIsSomewhere

-----------------------------------------------------------------------------
(* The victim buffer inside the cache.                                       *)

\* Without AMOs the uncached handler stays idle.
LEMMA UncachedIdle ==
    ASSUME NoAmo, ControlInv
    PROVE  uc = None
<1>1. uc # None => uc.req \in Requests /\ uc.req.op = "AMO"
  BY DEF ControlInv, TypeOK, QueueOK, Uncached, IsFence
<1> QED
  BY <1>1, RequestFields DEF NoAmo

\* The cache implements the victim buffer in its environment (VbufSpec): every
\* step of the controller, the miss handler and the flush controller is a step
\* of the buffer, a step its environment may take, or none of its business.
THEOREM CacheImplementsVbuf ==
    ASSUME NoAmo
    PROVE  Spec => VbufSpec
<1>1. Init => VbufInit
  <2> SUFFICES ASSUME Init
               PROVE  VbufInit
    OBVIOUS
  <2>1. V0 \in Vals /\ Lowest(Ways) \in Ways
    BY WaysType, HpdcacheAssumption
  <2>2. [i \in BeatIdx |-> V0] \in LineData
    BY <2>1 DEF LineData
  <2>3. /\ data \in [Ways -> LineData] /\ mem \in [Lines -> LineData]
        /\ victim \in LineData
    BY <2>2 DEF Init
  <2> QED
    BY <2>1, <2>3 DEF Init, VbufInit
<1>2. ControlInv /\ [Next]_hpdVars => [VbufNext]_vbufVars
  <2> SUFFICES ASSUME ControlInv, [Next]_hpdVars
               PROVE  [VbufNext]_vbufVars
    OBVIOUS
  <2>1. CASE Next
    BY <2>1, VbufRefinement, UncachedIdle DEF UcDone
  <2>2. CASE UNCHANGED hpdVars
    BY <2>2 DEF hpdVars
  <2> QED
    BY <2>1, <2>2
<1> QED
  BY <1>1, <1>2, ControlInvariant, PTL DEF Spec, VbufSpec

\* So everything proved of the buffer holds inside the cache: the capture is
\* undisturbed, the copy is exact, the burst complete and the flag fresh.
THEOREM VbufInvariantInCache ==
    ASSUME NoAmo
    PROVE  Spec => []VbufInv
BY CacheImplementsVbuf, VbufInvariant, PTL

\* A write-back by the cache leaves in memory the line that was evicted
\* (WriteBackIsVictim).
THEOREM CacheWriteBackIsExact ==
    ASSUME NoAmo
    PROVE  Spec => WriteBackIsVictim
BY CacheImplementsVbuf, WriteBackIsExact, PTL

-----------------------------------------------------------------------------
(* Preservation of the data invariant.                                       *)

\* What a step of the cache hands to a miss is safe: the action of
\* DirtyVictimCaptured.
VictimSafe ==
    \A w \in Ways :
        w \in dirty /\ w \in fetch' =>
            \/ Captured /\ nline = tag[w] /\ victim = data[w]
            \/ mem[tag[w]] = data[w]

\* The memory holds the newest contents of a line that is being fetched.
LEMMA MissReadsLatest ==
    ASSUME DataInv, NEW m \in mshr
    PROVE  mem[m.req.line] = latest[m.req.line]
<1>1. TypeOK /\ DirectoryConsistent /\ LatestIsSomewhere
  BY DEF DataInv, ControlInv
<1>2. /\ m.req.line \in Lines /\ \A w \in Ways : tag[w] # m.req.line
      /\ ~CheckHit(m.req.line) /\ ~FlushHit(m.req.line)
  BY <1>1, MissFacts
<1> QED
  BY <1>1, <1>2 DEF LatestIsSomewhere, HitWays

LEMMA DirtyStep ==
    ASSUME DataInv, Next
    PROVE  DirtyOK'
<1>1. TypeOK /\ DirectoryConsistent /\ DirtyOK
  BY DEF DataInv, ControlInv
<1>2. CASE Stage1
  <2>1. Stage1Frame /\ Stage2Outcome
    BY <1>1, <1>2, Stage1Outcome DEF Outcome, DirectoryConsistent
  <2>2. UNCHANGED <<dirty, wback, mshr>>
    BY <2>1 DEF Stage1Frame
  <2>3. st2' # None /\ st2'.op = "MISS" => (st2'.entry.dirty => st2'.entry.wback)
    BY <2>1 DEF Stage2Outcome
  <2>4. st2' # None /\ st2'.op = "DIR" =>
            /\ st2'.dirty => st2'.wback
            /\ ~st2'.dirty /\ st2'.way \in dirty => st2'.flush
    BY <1>1, <2>1 DEF Stage2Outcome, DirtyOK
  <2> QED
    BY <1>1, <2>2, <2>3, <2>4 DEF DirtyOK
<1>3. CASE Stage2Miss
  <2>1. /\ mshr' = mshr \cup {st2.entry} /\ dirty' \subseteq dirty
        /\ wback' = wback /\ st2' = None /\ st2 # None /\ st2.op = "MISS"
    BY <1>3 DEF Stage2Miss
  <2> QED
    BY <1>1, <2>1 DEF DirtyOK
<1>4. CASE Stage2Dir
  <2>1. /\ st2 # None /\ st2.op = "DIR" /\ st2' = None /\ mshr' = mshr
        /\ wback' = IF st2.wback THEN wback \cup {st2.way} ELSE wback \ {st2.way}
        /\ dirty' = IF st2.dirty THEN dirty \cup {st2.way} ELSE dirty \ {st2.way}
    BY <1>4 DEF Stage2Dir, missVars
  <2> QED
    BY <1>1, <2>1 DEF DirtyOK
<1>5. CASE Stage2Vbuf
  <2>1. st2' = None /\ UNCHANGED <<dirty, wback, mshr>>
    BY <1>5 DEF Stage2Vbuf, dirVars, missVars
  <2> QED
    BY <1>1, <2>1 DEF DirtyOK
<1>6. CASE MissSend \/ MissResp
  <2>1. UNCHANGED <<dirty, wback, st2>>
    BY <1>6 DEF MissSend, MissResp, dirVars
  <2>2. PICK m \in mshr, p \in {"mem", "resp"} :
            mshr' = (mshr \ {m}) \cup {[m EXCEPT !.phase = p]}
    BY <1>6 DEF MissSend, MissResp
  <2> DEFINE n == [m EXCEPT !.phase = p]
  <2>3. n.dirty = m.dirty /\ n.wback = m.wback
    BY <1>1 DEF TypeOK, Misses
  <2>4. mshr' = (mshr \ {m}) \cup {n}
    BY <2>2
  <2> HIDE DEF n
  <2> QED
    BY <1>1, <2>1, <2>3, <2>4 DEF DirtyOK
<1>7. CASE Refill
  <2>1. PICK m \in mshr : mshr' = mshr \ {m} /\ RefillRam(m)
    BY <1>7, RefillStep
  <2>2. UNCHANGED st2 /\ (st2 # None => st2.op = "VBUF")
    BY <1>7 DEF Refill, St2Empty
  <2>3. m.dirty => m.wback
    BY <1>1 DEF DirtyOK
  <2> QED
    BY <1>1, <2>1, <2>2, <2>3 DEF DirtyOK, RefillRam
<1>8. CASE UNCHANGED <<dirty, wback, mshr, st2>>
  BY <1>1, <1>8 DEF DirtyOK
<1> QED
  BY <1>2, <1>3, <1>4, <1>5, <1>6, <1>7, <1>8
     DEF Next, Stage2, AcceptCore, AcceptFence, AcceptReplay, UcMem, UcDone,
         FenceRelease, FlushAck, VbufDone, VbufStep, ctrlVars, dirVars, missVars

LEMMA CopiesStep ==
    ASSUME NoAmo, DataInv, Next
    PROVE  CopiesAreLatest'
<1>1. /\ ControlInv /\ TypeOK /\ DirectoryConsistent /\ Stage2OK /\ FifoOK
      /\ CopiesAreLatest
  BY DEF DataInv, ControlInv
<1>2. /\ fifo \in Seq(Refills) /\ Len(fifo) \in Nat
      /\ tag \in [Ways -> Lines \cup {NoLine}] /\ data \in [Ways -> LineData]
      /\ latest \in [Lines -> LineData]
      /\ flush \in [Lines -> LineData \cup {None}]
      /\ (valid => nline \in Lines)
  BY <1>1 DEF TypeOK, VbufTypeOK
<1>3. \A i \in 1 .. Len(fifo) : fifo[i].line \in Lines /\ MshrHit(fifo[i].line)
  <2>1. \A i \in 1 .. Len(fifo) : fifo[i] \in Refills
    BY <1>2
  <2> QED
    BY <1>1, <2>1 DEF Refills, FifoOK, MshrHit
<1> DEFINE InWays == \A w \in Ways : tag[w] # NoLine => data[w] = latest[tag[w]]
           InVbuf == valid => snap = latest[nline]
           InFlush == \A l \in Lines : FlushHit(l) => flush[l] = latest[l]
           InFifo == \A i \in 1 .. Len(fifo) : fifo[i].data = latest[fifo[i].line]
<1>4. InWays /\ InVbuf /\ InFlush /\ InFifo
  BY <1>1 DEF CopiesAreLatest
<1>5. SUFFICES InWays' /\ InVbuf' /\ InFlush' /\ InFifo'
  BY <1>5 DEF CopiesAreLatest
<1>6. CASE Stage1
  <2> DEFINE r == st1.req
             l == st1.req.line
  <2>1. Stage1Frame /\ DataOutcome
    BY <1>1, <1>6, Stage1Outcome DEF Outcome, DirectoryConsistent
  <2>2. UNCHANGED <<state, nline, snap, tag, flush, fifo>>
    BY <2>1 DEF Stage1Frame, vbufRegs
  <2>3. CASE UNCHANGED <<data, latest>>
    BY <1>4, <2>2, <2>3 DEF valid, FlushHit
  <2>4. CASE ~UNCHANGED <<data, latest>>
    <3>1. l \in Lines
      BY <1>1, <2>1, Stage1Request DEF Stage1Frame
    <3>2. PICK w \in Ways :
              /\ tag[w] = l /\ HandlersFree(l)
              /\ data' = [data EXCEPT ![w] = Merge(@, r)]
              /\ latest' = [latest EXCEPT ![l] = Merge(@, r)]
      BY <2>1, <2>4 DEF DataOutcome
    <3>3. data'[w] = Merge(data[w], r) /\ \A v \in Ways \ {w} : data'[v] = data[v]
      BY <1>2, <3>2
    <3>4. latest'[l] = Merge(latest[l], r) /\ \A k \in Lines \ {l} : latest'[k] = latest[k]
      BY <1>2, <3>1, <3>2
    <3>5. \A v \in Ways \ {w} : tag[v] # l
      BY <1>1, <3>1, <3>2, VbufAssumption DEF DirectoryConsistent
    <3>6. data[w] = latest[l]
      BY <1>4, <3>1, <3>2, VbufAssumption
    <3>7. InWays'
      BY <1>2, <1>4, <2>2, <3>2, <3>3, <3>4, <3>5, <3>6
    <3>8. InVbuf' /\ InFlush'
      BY <1>2, <1>4, <2>2, <3>2, <3>4 DEF HandlersFree, CheckHit, valid, FlushHit
    <3>9. InFifo'
      BY <1>3, <1>4, <2>2, <3>2, <3>4 DEF HandlersFree
    <3> QED
      BY <3>7, <3>8, <3>9
  <2> QED
    BY <2>3, <2>4
<1>7. CASE Stage2Vbuf
  <2>1. st2 \in Stage2Ops /\ st2.op = "VBUF" /\ st2 # None
    BY <1>1, <1>7 DEF Stage2Vbuf, TypeOK
  <2>2. /\ st2.way \in Ways /\ st2.line \in Lines /\ tag[st2.way] = st2.line
        /\ AllocReady
    BY <1>1, <2>1, Stage2Fields DEF Stage2OK
  <2>3. /\ snap' = data[st2.way] /\ nline' = st2.line
        /\ UNCHANGED <<tag, data, fifo, flush, latest>>
    BY <1>7, <2>2 DEF Stage2Vbuf, VbufAlloc, ramVars, missVars
  <2> QED
    BY <1>4, <2>2, <2>3, VbufAssumption DEF FlushHit
<1>8. CASE Stage2Dir
  <2>1. st2 \in Stage2Ops /\ st2.op = "DIR" /\ st2 # None
    BY <1>1, <1>8 DEF Stage2Dir, TypeOK
  <2>2. st2.way \in Ways /\ st2.line \in Lines /\ tag[st2.way] = st2.line
    BY <1>1, <2>1, Stage2Fields DEF Stage2OK
  <2>3. /\ flush' = IF st2.flush THEN [flush EXCEPT ![st2.line] = data[st2.way]]
                    ELSE flush
        /\ UNCHANGED <<state, nline, snap, tag, data, fifo, latest>>
    BY <1>8 DEF Stage2Dir, vbufVars, missVars
  <2>4. data[st2.way] = latest[st2.line]
    BY <1>4, <2>2, VbufAssumption
  <2>5. \A k \in Lines : flush'[k] = flush[k] \/ flush'[k] = latest[k]
    BY <1>2, <2>2, <2>3, <2>4
  <2> QED
    BY <1>4, <2>3, <2>5 DEF valid, FlushHit
<1>9. CASE MissResp
  <2>1. PICK m \in mshr, err \in BOOLEAN :
            fifo' = Append(fifo, [line |-> m.req.line, err |-> err,
                                  data |-> mem[m.req.line]])
    BY <1>9 DEF MissResp
  <2> DEFINE x == [line |-> m.req.line, err |-> err, data |-> mem[m.req.line]]
  <2>2. x.data = latest[x.line] /\ fifo' = Append(fifo, x)
    BY <2>1, MissReadsLatest
  <2> HIDE DEF x
  <2>3. /\ Len(fifo') = Len(fifo) + 1 /\ fifo'[Len(fifo) + 1] = x
        /\ \A i \in 1 .. Len(fifo) : fifo'[i] = fifo[i]
    BY <1>2, <2>2
  <2>4. UNCHANGED <<state, nline, snap, tag, data, flush, latest>>
    BY <1>9 DEF MissResp, vbufVars
  <2>5. ASSUME NEW i \in 1 .. Len(fifo')
        PROVE  fifo'[i].data = latest[fifo'[i].line]
    <3>1. i \in 1 .. Len(fifo) \/ i = Len(fifo) + 1
      BY <1>2, <2>3
    <3> QED
      BY <1>4, <2>2, <2>3, <3>1
  <2> QED
    BY <1>4, <2>4, <2>5 DEF valid, FlushHit
<1>10. CASE Refill
  <2>1. PICK m \in mshr :
            /\ m.req.line = Head(fifo).line /\ mshr' = mshr \ {m}
            /\ fifo' = Tail(fifo) /\ RefillRam(m)
    BY <1>10, RefillStep
  <2> DEFINE l == m.req.line
             w == m.way
  <2>2. fifo # <<>> /\ UNCHANGED <<state, nline, snap, flush>>
    BY <1>10 DEF Refill, vbufRegs
  <2>3. /\ w \in Ways /\ l \in Lines /\ \A v \in Ways : tag[v] # l
        /\ ~CheckHit(l) /\ ~FlushHit(l) /\ m.dirty \in BOOLEAN
    BY <1>1, MissFacts
  <2>4. /\ Len(fifo') = Len(fifo) - 1 /\ Head(fifo) = fifo[1] /\ 1 \in 1 .. Len(fifo)
        /\ \A i \in 1 .. Len(fifo') :
              i + 1 \in 1 .. Len(fifo) /\ fifo'[i] = fifo[i + 1] /\ i + 1 # 1
    BY <1>2, <2>1, <2>2
  <2>5. Head(fifo).data = latest[l]
    BY <1>4, <2>1, <2>4
  <2>6. \A i \in 1 .. Len(fifo') : fifo'[i].line # l /\ fifo'[i].line \in Lines
    BY <1>1, <1>3, <2>1, <2>4 DEF FifoOK
  <2>7. \A k \in Lines \ {l} : latest'[k] = latest[k]
    BY <1>2, <2>1, <2>3 DEF RefillRam
  <2>8. InFifo'
    BY <1>4, <2>4, <2>6, <2>7
  <2>9. InVbuf' /\ InFlush'
    BY <1>2, <1>4, <2>2, <2>3, <2>7 DEF CheckHit, valid, FlushHit
  <2>10. InWays'
    <3>1. \A v \in Ways \ {w} : tag'[v] = tag[v] /\ data'[v] = data[v]
      BY <1>2, <2>1, <2>3 DEF RefillRam
    <3>2. CASE Head(fifo).err
      <4>1. tag'[w] = NoLine /\ latest' = latest
        BY <1>2, <2>1, <2>3, <3>2 DEF RefillRam
      <4> QED
        BY <1>4, <3>1, <4>1
    <3>3. CASE ~Head(fifo).err
      <4>1. tag'[w] = l /\ data'[w] = RefillData(m)
        BY <1>2, <2>1, <2>3, <3>3 DEF RefillRam
      <4>2. latest'[l] = IF m.dirty THEN Merge(latest[l], m.req) ELSE latest[l]
        BY <1>2, <2>1, <2>3, <3>3 DEF RefillRam
      <4>3. data'[w] = latest'[l]
        BY <2>5, <4>1, <4>2 DEF RefillData
      <4> QED
        BY <1>2, <1>4, <2>3, <2>7, <3>1, <4>1, <4>3
    <3> QED
      BY <3>2, <3>3
  <2> QED
    BY <2>8, <2>9, <2>10
<1>11. CASE FlushAck
  <2>1. PICK l \in Lines : flush' = [flush EXCEPT ![l] = None]
    BY <1>11 DEF FlushAck
  <2>2. UNCHANGED <<state, nline, snap, tag, data, fifo, latest>>
    BY <1>11 DEF FlushAck, vbufRegs, missVars
  <2>3. \A k \in Lines : flush'[k] = None \/ flush'[k] = flush[k]
    BY <1>2, <2>1
  <2> QED
    BY <1>4, <2>2, <2>3 DEF valid, FlushHit
<1>12. CASE VbufDone \/ VbufStep
  <2>1. UNCHANGED <<nline, snap, tag, data, flush, fifo, latest>> /\ state # "IDLE"
    BY <1>12 DEF VbufDone, VbufMemResp, VbufRelease, VbufStep, VbufRead,
       VbufCapture, VbufStartWriteBack, VbufMemReq, VbufMemData, ctrlVars, missVars
  <2> QED
    BY <1>4, <2>1 DEF valid, FlushHit
<1>13. CASE UNCHANGED <<state, nline, snap, tag, data, flush, fifo, latest>>
  BY <1>4, <1>13 DEF valid, FlushHit
<1>14. ~UcMem /\ ~UcDone
  BY <1>1, UncachedIdle DEF UcMem, UcDone
<1> QED
  BY <1>6, <1>7, <1>8, <1>9, <1>10, <1>11, <1>12, <1>13, <1>14
     DEF Next, Stage2, AcceptCore, AcceptFence, AcceptReplay, Stage2Miss,
         VbufSafeConsume, FenceRelease, MissSend, vbufVars, vbufRegs, ramVars,
         missVars

LEMMA SomewhereStep ==
    ASSUME NoAmo, DataInv, Next, VictimSafe
    PROVE  LatestIsSomewhere'
<1>1. /\ ControlInv /\ TypeOK /\ DirectoryConsistent /\ CaptureOK /\ Stage2OK
      /\ DirtyOK /\ CopiesAreLatest /\ LatestIsSomewhere /\ VbufInv
  BY DEF DataInv, ControlInv
<1>2. /\ tag \in [Ways -> Lines \cup {NoLine}]
      /\ mem \in [Lines -> LineData] /\ latest \in [Lines -> LineData]
      /\ flush \in [Lines -> LineData \cup {None}]
      /\ dirty \subseteq Ways
  BY <1>1 DEF TypeOK, VbufTypeOK
<1> DEFINE Marked(w) == \/ w \in dirty
                        \/ st2 # None /\ st2.op = "DIR" /\ st2.way = w /\ st2.dirty
           Safe(l) == \/ mem[l] = latest[l]
                      \/ \E w \in Ways : tag[w] = l /\ Marked(w)
                      \/ CheckHit(l)
                      \/ FlushHit(l)
<1>3. \A l \in Lines : Safe(l)
  BY <1>1 DEF LatestIsSomewhere, HitWays
<1>4. SUFFICES ASSUME NEW l \in Lines
               PROVE  Safe(l)'
  BY <1>4 DEF LatestIsSomewhere, HitWays
<1>5. CASE Stage1
  <2>1. Stage1Frame /\ DataOutcome
    BY <1>1, <1>5, Stage1Outcome DEF Outcome, DirectoryConsistent
  <2>2. st2 = None /\ UNCHANGED <<state, nline, tag, mem, dirty, flush>>
    BY <2>1 DEF Stage1Frame, vbufRegs
  <2>3. CASE latest'[l] = latest[l]
    BY <1>3, <2>2, <2>3 DEF CheckHit, valid, FlushHit
  <2>4. CASE latest'[l] # latest[l]
    <3>1. st1.req.line \in Lines
      BY <1>1, <2>1, Stage1Request DEF Stage1Frame
    <3>2. PICK w \in Ways :
              /\ tag[w] = st1.req.line
              /\ latest' = [latest EXCEPT ![st1.req.line] = Merge(@, st1.req)]
              /\ \/ w \in dirty
                 \/ st2' = [op |-> "DIR", way |-> w, line |-> st1.req.line,
                            wback |-> TRUE, dirty |-> TRUE, flush |-> FALSE]
      BY <2>1, <2>4 DEF DataOutcome
    <3>3. st1.req.line = l
      BY <1>2, <2>4, <3>1, <3>2
    <3>4. CASE w \in dirty
      BY <2>2, <3>2, <3>3, <3>4
    <3>5. CASE st2' = [op |-> "DIR", way |-> w, line |-> st1.req.line,
                       wback |-> TRUE, dirty |-> TRUE, flush |-> FALSE]
      <4>1. st2'.op = "DIR" /\ st2'.way = w /\ st2'.dirty = TRUE
        BY <3>5
      <4>2. st2' \in Stage2Ops
        BY <3>1, <3>5 DEF Stage2Ops
      <4> QED
        BY <2>2, <3>2, <3>3, <4>1, <4>2, NoneAssumption
    <3> QED
      BY <3>2, <3>4, <3>5
  <2> QED
    BY <2>3, <2>4
<1>6. CASE Stage2Vbuf
  <2>1. /\ AllocReady /\ st2 # None /\ st2.op = "VBUF"
        /\ UNCHANGED <<tag, mem, dirty, flush, latest>>
    BY <1>1, <1>6 DEF Stage2Vbuf, Stage2OK, ramVars, dirVars
  <2> QED
    BY <1>3, <2>1 DEF AllocReady, CheckHit, valid, FlushHit
<1>7. CASE Stage2Miss
  <2> DEFINE v == st2.entry.way
  <2>1. /\ st2 # None /\ st2.op = "MISS"
        /\ dirty' = dirty \ {v} /\ fetch' = fetch \cup {v}
        /\ UNCHANGED <<state, nline, tag, mem, flush, latest>>
    BY <1>7 DEF Stage2Miss, VbufSafeConsume, vbufRegs, ramVars
  <2> HIDE DEF v
  <2>2. CASE v \in dirty /\ tag[v] = l
    <3>1. v \in Ways /\ v \in fetch'
      BY <1>2, <2>1, <2>2
    <3>2. (Captured /\ nline = l) \/ mem[l] = data[v]
      BY <2>2, <3>1 DEF VictimSafe
    <3>3. data[v] = latest[l]
      BY <1>1, <2>2, <3>1, VbufAssumption DEF CopiesAreLatest
    <3> QED
      BY <2>1, <3>2, <3>3 DEF Captured, CheckHit, valid
  <2>3. CASE ~(v \in dirty /\ tag[v] = l)
    BY <1>3, <2>1, <2>3 DEF CheckHit, valid, FlushHit
  <2> QED
    BY <2>2, <2>3
<1>8. CASE Stage2Dir
  <2>1. st2 # None /\ st2 \in Stage2Ops /\ st2.op = "DIR"
    BY <1>1, <1>8 DEF Stage2Dir, TypeOK
  <2>2. st2.way \in Ways /\ st2.line \in Lines /\ tag[st2.way] = st2.line
    BY <1>1, <2>1, Stage2Fields DEF Stage2OK
  <2>3. /\ dirty' = IF st2.dirty THEN dirty \cup {st2.way} ELSE dirty \ {st2.way}
        /\ flush' = IF st2.flush THEN [flush EXCEPT ![st2.line] = data[st2.way]]
                    ELSE flush
        /\ UNCHANGED <<state, nline, tag, mem, latest>>
    BY <1>8 DEF Stage2Dir, vbufVars
  <2>4. data[st2.way] \in LineData /\ None \notin LineData
    BY <1>1, <2>2, NoneAssumption DEF TypeOK, VbufTypeOK
  <2>5. FlushHit(l) => FlushHit(l)'
    BY <1>2, <2>2, <2>3, <2>4 DEF FlushHit
  <2>6. ASSUME NEW w \in Ways, tag[w] = l, Marked(w)
        PROVE  Safe(l)'
    <3>1. CASE w \in dirty'
      BY <2>3, <2>6, <3>1
    <3>2. CASE w \notin dirty'
      <4>1. w = st2.way /\ ~st2.dirty /\ w \in dirty
        BY <2>3, <2>6, <3>2
      <4>2. st2.flush /\ st2.line = l
        BY <1>1, <2>1, <2>2, <2>6, <4>1 DEF DirtyOK
      <4>3. flush'[l] = data[st2.way]
        BY <1>2, <2>3, <4>2
      <4> QED
        BY <2>4, <4>3 DEF FlushHit
    <3> QED
      BY <3>1, <3>2
  <2> QED
    BY <1>3, <2>3, <2>5, <2>6 DEF CheckHit, valid
<1>9. CASE Refill
  <2>1. PICK m \in mshr : RefillRam(m)
    BY <1>9, RefillStep
  <2>2. /\ m.way \in Ways /\ m.way \notin dirty /\ m.req.line \in Lines
        /\ \A v \in Ways : tag[v] # m.req.line
    BY <1>1, MissFacts
  <2>3. (st2 # None => st2.op = "VBUF") /\ UNCHANGED <<state, nline, mem, st2, flush>>
    BY <1>9 DEF Refill, St2Empty, vbufRegs
  <2>4. mem[m.req.line] = latest[m.req.line]
    BY MissReadsLatest
  <2>5. \A v \in Ways \ {m.way} : tag'[v] = tag[v] /\ (v \in dirty => v \in dirty')
    BY <1>2, <2>1, <2>2 DEF RefillRam
  <2>6. CASE l # m.req.line
    <3>1. latest'[l] = latest[l]
      BY <1>2, <2>1, <2>2, <2>6 DEF RefillRam
    <3>2. ASSUME NEW w \in Ways, tag[w] = l, Marked(w)
          PROVE  w # m.way /\ w \in dirty
      BY <2>2, <2>3, <3>2
    <3> QED
      BY <1>3, <2>3, <2>5, <3>1, <3>2 DEF CheckHit, valid, FlushHit
  <2>7. CASE l = m.req.line
    <3>1. CASE latest'[l] = latest[l]
      BY <2>3, <2>4, <2>7, <3>1
    <3>2. CASE latest'[l] # latest[l]
      <4>1. m.way \in dirty' /\ tag'[m.way] = l
        BY <1>2, <2>1, <2>2, <2>7, <3>2 DEF RefillRam
      <4> QED
        BY <2>2, <4>1
    <3> QED
      BY <3>1, <3>2
  <2> QED
    BY <2>6, <2>7
<1>10. CASE FlushAck
  <2>1. PICK k \in Lines :
            /\ FlushHit(k) /\ mem' = [mem EXCEPT ![k] = flush[k]]
            /\ flush' = [flush EXCEPT ![k] = None]
    BY <1>10 DEF FlushAck
  <2>2. UNCHANGED <<state, nline, tag, dirty, st2, latest>>
    BY <1>10 DEF FlushAck, vbufRegs, dirVars
  <2>3. CASE k = l
    <3>1. mem'[l] = latest[l]
      BY <1>1, <1>2, <2>1, <2>3 DEF CopiesAreLatest
    <3> QED
      BY <2>2, <3>1
  <2>4. CASE k # l
    <3>1. mem'[l] = mem[l] /\ flush'[l] = flush[l]
      BY <1>2, <2>1, <2>4
    <3> QED
      BY <1>3, <2>2, <3>1 DEF CheckHit, valid, FlushHit
  <2> QED
    BY <2>3, <2>4
<1>11. CASE VbufDone
  <2>1. /\ state = "WAIT_RESP"
        /\ mem' = [mem EXCEPT ![nline] = [i \in BeatIdx |-> burst[i + 1]]]
        /\ UNCHANGED <<nline, tag>>
    BY <1>11 DEF VbufDone, VbufMemResp, VbufRelease
  <2>2. UNCHANGED <<dirty, st2, flush, latest>>
    BY <1>11 DEF VbufDone, dirVars
  <2>3. nline \in Lines /\ victim \in LineData
    BY <1>1, <2>1 DEF TypeOK, VbufTypeOK, valid
  <2>4. \A i \in BeatIdx : burst[i + 1] = victim[i]
    BY <1>1, <2>1, VbufAssumption DEF VbufInv, BurstFollowsVictim, BeatIdx
  <2>5. [i \in BeatIdx |-> burst[i + 1]] = victim
    BY <2>3, <2>4 DEF LineData
  <2>6. victim = snap /\ snap = latest[nline]
    BY <1>1, <2>1 DEF VbufInv, CapturedCopyAgrees, Captured, CopiesAreLatest, valid
  <2>7. CASE nline = l
    <3>1. mem'[l] = latest[l]
      BY <1>2, <2>1, <2>3, <2>5, <2>6, <2>7
    <3> QED
      BY <2>2, <3>1
  <2>8. CASE nline # l
    <3>1. mem'[l] = mem[l] /\ ~CheckHit(l)
      BY <1>2, <2>1, <2>3, <2>8 DEF CheckHit
    <3> QED
      BY <1>3, <2>1, <2>2, <3>1 DEF FlushHit
  <2> QED
    BY <2>7, <2>8
<1>12. CASE VbufStep
  <2>1. /\ UNCHANGED <<nline, tag, mem, dirty, st2, flush, latest>>
        /\ state' # "IDLE"
    BY <1>12 DEF VbufStep, VbufRead, VbufCapture, VbufStartWriteBack,
       VbufMemReq, VbufMemData, ctrlVars
  <2> QED
    BY <1>3, <2>1 DEF CheckHit, valid, FlushHit
<1>13. CASE UNCHANGED <<state, nline, tag, mem, dirty, st2, flush, latest>>
  BY <1>3, <1>13 DEF CheckHit, valid, FlushHit
<1>14. ~UcMem /\ ~UcDone
  BY <1>1, UncachedIdle DEF UcMem, UcDone
<1> QED
  BY <1>5, <1>6, <1>7, <1>8, <1>9, <1>10, <1>11, <1>12, <1>13, <1>14
     DEF Next, Stage2, AcceptCore, AcceptFence, AcceptReplay, FenceRelease,
         MissSend, MissResp, vbufVars, dirVars

-----------------------------------------------------------------------------
\* The data invariant holds as long as no dirty way is handed to a miss before
\* its contents are safe (DirtyVictimCaptured).
THEOREM DataInvariant ==
    ASSUME NoAmo
    PROVE  Spec /\ DirtyVictimCaptured => []DataInv
<1>1. Init /\ ControlInv /\ VbufInv => DataInv
  <2> SUFFICES ASSUME Init, ControlInv, VbufInv
               PROVE  DataInv
    OBVIOUS
  <2>1. fifo = <<>> /\ Len(fifo) = 0
    BY DEF Init
  <2>3. DirtyOK
    BY DEF Init, DirtyOK
  <2>4. CopiesAreLatest
    BY <2>1 DEF Init, CopiesAreLatest, valid, FlushHit
  <2>5. LatestIsSomewhere
    BY DEF Init, LatestIsSomewhere
  <2> QED
    BY <2>3, <2>4, <2>5 DEF DataInv
<1>2. DataInv /\ ControlInv' /\ VbufInv' /\ [Next]_hpdVars /\ [VictimSafe]_hpdVars
          => DataInv'
  <2> SUFFICES ASSUME DataInv, ControlInv', VbufInv', [Next]_hpdVars,
                      [VictimSafe]_hpdVars
               PROVE  DataInv'
    OBVIOUS
  <2>1. CASE Next /\ VictimSafe
    BY <2>1, DirtyStep, CopiesStep, SomewhereStep DEF DataInv
  <2>2. CASE UNCHANGED hpdVars
    <3>1. DirtyOK'
      BY <2>2 DEF hpdVars, ctrlVars, DataInv, DirtyOK
    <3>2. CopiesAreLatest' /\ LatestIsSomewhere'
      BY <2>2 DEF hpdVars, ctrlVars, vbufVars, DataInv, CopiesAreLatest,
         LatestIsSomewhere, HitWays, CheckHit, valid, FlushHit
    <3> QED
      BY <3>1, <3>2 DEF DataInv
  <2> QED
    BY <2>1, <2>2
<1> QED
  BY <1>1, <1>2, ControlInvariant, VbufInvariantInCache, PTL
     DEF Spec, DirtyVictimCaptured, VictimSafe

\* A load returns the last store, from the data RAM and from the victim buffer
\* (LoadsSeeLatest).
THEOREM LoadsAreFresh ==
    ASSUME NoAmo
    PROVE  Spec /\ DirtyVictimCaptured => []LoadsSeeLatest
<1>1. DataInv => LoadsSeeLatest
  BY DEF DataInv, CopiesAreLatest, LoadsSeeLatest, VbufInv, CapturedCopyAgrees,
     FwdHit, Captured, valid
<1> QED
  BY <1>1, DataInvariant, PTL

\* No store is lost (NoLostStore): if one were, a dirty way would have been
\* handed to a miss without being captured.
THEOREM StoresAreKept ==
    ASSUME NoAmo
    PROVE  Spec /\ DirtyVictimCaptured => []NoLostStore
<1>1. DataInv => NoLostStore
  BY DEF DataInv, LatestIsSomewhere, NoLostStore
<1> QED
  BY <1>1, DataInvariant, PTL
=============================================================================
