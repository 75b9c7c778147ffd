----------------------------- MODULE VbufProofs -----------------------------
(***************************************************************************)
(* Proofs about the victim buffer, for any number of lines, ways, beats    *)
(* and values.  The five invariants that TLC checks on a small instance    *)
(* are proved together: each is needed by the induction step of another.   *)
(***************************************************************************)
EXTENDS Vbuf, TLAPS

\* The inductive invariant of the victim buffer in its environment.
VbufInv ==
    /\ VbufTypeOK
    /\ CaptureConsistent
    /\ CapturedCopyAgrees
    /\ BurstFollowsVictim
    /\ NoStaleSafeFlag

\* Every step keeps the registers in their types.
LEMMA TypeStep ==
    ASSUME VbufTypeOK, BurstFollowsVictim, [VbufNext]_vbufVars
    PROVE  VbufTypeOK'
<1> USE VbufAssumption DEF VbufTypeOK, BurstFollowsVictim, VbufStates, BeatIdx, LineData, valid
<1>1. CASE VbufRead
  BY <1>1 DEF VbufRead
<1>2. CASE VbufCapture
  <2>1. victim' \in LineData
    BY <1>2 DEF VbufCapture
  <2>2. beat' \in BeatIdx
    BY <1>2 DEF VbufCapture, CaptureLastBeat
  <2> QED
    BY <1>2, <2>1, <2>2 DEF VbufCapture
<1>3. CASE VbufStartWriteBack
  BY <1>3 DEF VbufStartWriteBack
<1>4. CASE VbufMemReq
  BY <1>4 DEF VbufMemReq
<1>5. CASE VbufMemData
  BY <1>5 DEF VbufMemData, WbLastBeat
<1>6. CASE VbufMemResp
  <2>1. \A i \in BeatIdx : i + 1 \in 1 .. Len(burst)
    BY <1>6 DEF VbufMemResp, VbufRelease
  <2>2. [i \in BeatIdx |-> burst[i + 1]] \in LineData
    BY <2>1
  <2>3. mem' \in [Lines -> LineData]
    BY <1>6, <2>2 DEF VbufMemResp
  <2>4. VbufRelease /\ UNCHANGED <<tag, data>>
    BY <1>6 DEF VbufMemResp
  <2>5. state' = "IDLE" /\ wbBeat' = 0 /\ readAccept' = FALSE /\ burst' = <<>>
    BY <2>4 DEF VbufRelease
  <2>6. UNCHANGED <<nline, way, victim, beat, rdata, safeValid, safeNline,
                    snap, tag, data>>
    BY <2>4 DEF VbufRelease
  <2>7. burst' \in Seq(Vals) /\ wbBeat' \in BeatIdx
    BY <2>5
  <2> QED
    BY <2>3, <2>5, <2>6, <2>7
<1>7. CASE EnvAlloc
  BY <1>7 DEF EnvAlloc, VbufAlloc, AllocReady, SafeToOverwrite
<1>8. CASE EnvStore
  <2>1. PICK w \in Ways, b \in BeatIdx, v \in Vals :
            data' = [data EXCEPT ![w][b] = v]
    BY <1>8 DEF EnvStore
  <2>2. [data[w] EXCEPT ![b] = v] \in LineData
    OBVIOUS
  <2>3. data' \in [Ways -> LineData]
    BY <2>1, <2>2
  <2> QED
    BY <1>8, <2>3 DEF EnvStore, vbufRegs
<1>9. CASE EnvRefill
  <2>1. PICK w \in Ways, l \in Lines, d \in LineData :
            /\ tag' = [tag EXCEPT ![w] = l]
            /\ data' = [data EXCEPT ![w] = d]
    BY <1>9 DEF EnvRefill
  <2>2. UNCHANGED <<vbufRegs, mem>>
    BY <1>9 DEF EnvRefill
  <2>3. tag' \in [Ways -> Lines \cup {NoLine}] /\ data' \in [Ways -> LineData]
    BY <2>1
  <2> QED
    BY <2>2, <2>3 DEF vbufRegs
<1>10. CASE EnvInvalidate
  BY <1>10 DEF EnvInvalidate, vbufRegs
<1>11. CASE EnvConsume
  BY <1>11 DEF EnvConsume, VbufSafeConsume
<1>12. CASE EnvMemWrite
  <2>1. PICK l \in Lines, d \in LineData : mem' = [mem EXCEPT ![l] = d]
    BY <1>12 DEF EnvMemWrite
  <2>2. UNCHANGED <<vbufRegs, tag, data>>
    BY <1>12 DEF EnvMemWrite
  <2>3. mem' \in [Lines -> LineData]
    BY <2>1
  <2> QED
    BY <2>2, <2>3 DEF vbufRegs
<1>13. CASE UNCHANGED vbufVars
  BY <1>13 DEF vbufVars
<1> QED
  BY <1>1, <1>2, <1>3, <1>4, <1>5, <1>6, <1>7, <1>8, <1>9, <1>10, <1>11,
     <1>12, <1>13 DEF VbufNext

\* No step of the cache disturbs a capture in progress.
LEMMA CaptureStep ==
    ASSUME VbufInv, [VbufNext]_vbufVars
    PROVE  CaptureConsistent'
<1> USE VbufAssumption DEF VbufInv, VbufTypeOK, CaptureConsistent, NoStaleSafeFlag, BeatIdx, LineData, valid, CheckHit
<1>1. CASE VbufRead
  BY <1>1 DEF VbufRead
<1>2. CASE VbufCapture
  BY <1>2 DEF VbufCapture, CaptureLastBeat
<1>3. CASE VbufStartWriteBack
  BY <1>3 DEF VbufStartWriteBack
<1>4. CASE VbufMemReq
  BY <1>4 DEF VbufMemReq
<1>5. CASE VbufMemData
  BY <1>5 DEF VbufMemData, WbLastBeat
<1>6. CASE VbufMemResp
  BY <1>6 DEF VbufMemResp, VbufRelease
<1>7. CASE EnvAlloc
  BY <1>7 DEF EnvAlloc, VbufAlloc, AllocReady, SafeToOverwrite
<1>8. CASE EnvStore
  BY <1>8 DEF EnvStore, vbufRegs
<1>9. CASE EnvRefill
  BY <1>9 DEF EnvRefill, Cached, vbufRegs
<1>10. CASE EnvInvalidate
  BY <1>10 DEF EnvInvalidate, vbufRegs
<1>11. CASE EnvConsume
  BY <1>11 DEF EnvConsume, VbufSafeConsume
<1>12. CASE EnvMemWrite
  BY <1>12 DEF EnvMemWrite, vbufRegs
<1>13. CASE UNCHANGED vbufVars
  BY <1>13 DEF vbufVars
<1> QED
  BY <1>1, <1>2, <1>3, <1>4, <1>5, <1>6, <1>7, <1>8, <1>9, <1>10, <1>11,
     <1>12, <1>13 DEF VbufNext

\* The captured copy never diverges from the cached line.
LEMMA CopyStep ==
    ASSUME VbufInv, [VbufNext]_vbufVars
    PROVE  CapturedCopyAgrees'
<1> USE VbufAssumption DEF VbufInv, VbufTypeOK, CaptureConsistent, CapturedCopyAgrees, NoStaleSafeFlag, Captured, BeatIdx, LineData, valid, CheckHit
<1>1. CASE VbufRead
  BY <1>1 DEF VbufRead
<1>2. CASE VbufCapture
  <2>1. CASE ~CaptureLastBeat
    BY <1>2, <2>1 DEF VbufCapture
  <2>2. CASE CaptureLastBeat
    <3>1. \A i \in BeatIdx : victim'[i] = snap[i]
      BY <1>2, <2>2 DEF VbufCapture, CaptureLastBeat
    <3>2. victim' = snap
      BY <1>2, <3>1 DEF VbufCapture
    <3>3. \A w \in Ways : tag[w] = nline => data[w] = snap
      BY <1>2 DEF VbufCapture
    <3> QED
      BY <1>2, <3>2, <3>3 DEF VbufCapture
  <2> QED
    BY <2>1, <2>2
<1>3. CASE VbufStartWriteBack
  BY <1>3 DEF VbufStartWriteBack
<1>4. CASE VbufMemReq
  BY <1>4 DEF VbufMemReq
<1>5. CASE VbufMemData
  BY <1>5 DEF VbufMemData, WbLastBeat
<1>6. CASE VbufMemResp
  BY <1>6 DEF VbufMemResp, VbufRelease
<1>7. CASE EnvAlloc
  BY <1>7 DEF EnvAlloc, VbufAlloc, AllocReady, SafeToOverwrite
<1>8. CASE EnvStore
  BY <1>8 DEF EnvStore, vbufRegs
<1>9. CASE EnvRefill
  BY <1>9 DEF EnvRefill, Cached, vbufRegs
<1>10. CASE EnvInvalidate
  BY <1>10 DEF EnvInvalidate, vbufRegs
<1>11. CASE EnvConsume
  BY <1>11 DEF EnvConsume, VbufSafeConsume
<1>12. CASE EnvMemWrite
  BY <1>12 DEF EnvMemWrite, vbufRegs
<1>13. CASE UNCHANGED vbufVars
  BY <1>13 DEF vbufVars
<1> QED
  BY <1>1, <1>2, <1>3, <1>4, <1>5, <1>6, <1>7, <1>8, <1>9, <1>10, <1>11,
     <1>12, <1>13 DEF VbufNext

\* The memory receives the beats of the victim in order.
LEMMA BurstStep ==
    ASSUME VbufTypeOK, BurstFollowsVictim, [VbufNext]_vbufVars
    PROVE  BurstFollowsVictim'
<1> USE VbufAssumption DEF VbufTypeOK, BurstFollowsVictim, BeatIdx, LineData, valid
<1>1. CASE VbufRead
  BY <1>1 DEF VbufRead
<1>2. CASE VbufCapture
  BY <1>2 DEF VbufCapture, CaptureLastBeat
<1>3. CASE VbufStartWriteBack
  BY <1>3 DEF VbufStartWriteBack
<1>4. CASE VbufMemReq
  BY <1>4 DEF VbufMemReq
<1>5. CASE VbufMemData
  BY <1>5 DEF VbufMemData, WbLastBeat
<1>6. CASE VbufMemResp
  BY <1>6 DEF VbufMemResp, VbufRelease
<1>7. CASE EnvAlloc
  BY <1>7 DEF EnvAlloc, VbufAlloc, AllocReady, SafeToOverwrite
<1>8. CASE EnvStore
  BY <1>8 DEF EnvStore, CheckHit, vbufRegs
<1>9. CASE EnvRefill
  BY <1>9 DEF EnvRefill, CheckHit, Cached, vbufRegs
<1>10. CASE EnvInvalidate
  BY <1>10 DEF EnvInvalidate, vbufRegs
<1>11. CASE EnvConsume
  BY <1>11 DEF EnvConsume, VbufSafeConsume
<1>12. CASE EnvMemWrite
  BY <1>12 DEF EnvMemWrite, vbufRegs
<1>13. CASE UNCHANGED vbufVars
  BY <1>13 DEF vbufVars
<1> QED
  BY <1>1, <1>2, <1>3, <1>4, <1>5, <1>6, <1>7, <1>8, <1>9, <1>10, <1>11,
     <1>12, <1>13 DEF VbufNext

\* Lines stay unique and a capture never starts under its own safe flag.
LEMMA SafeStep ==
    ASSUME VbufTypeOK, NoStaleSafeFlag, [VbufNext]_vbufVars
    PROVE  NoStaleSafeFlag'
<1> USE VbufAssumption DEF VbufTypeOK, NoStaleSafeFlag, SafeToOverwrite, valid
<1>1. CASE VbufRead
  BY <1>1 DEF VbufRead
<1>2. CASE VbufCapture
  BY <1>2 DEF VbufCapture, CaptureLastBeat
<1>3. CASE VbufStartWriteBack
  BY <1>3 DEF VbufStartWriteBack
<1>4. CASE VbufMemReq
  BY <1>4 DEF VbufMemReq
<1>5. CASE VbufMemData
  BY <1>5 DEF VbufMemData, WbLastBeat
<1>6. CASE VbufMemResp
  BY <1>6 DEF VbufMemResp, VbufRelease
<1>7. CASE EnvAlloc
  BY <1>7 DEF EnvAlloc, VbufAlloc, AllocReady
<1>8. CASE EnvStore
  BY <1>8 DEF EnvStore, CheckHit, vbufRegs
<1>9. CASE EnvRefill
  BY <1>9 DEF EnvRefill, CheckHit, Cached, vbufRegs
<1>10. CASE EnvInvalidate
  BY <1>10 DEF EnvInvalidate, vbufRegs
<1>11. CASE EnvConsume
  BY <1>11 DEF EnvConsume, VbufSafeConsume
<1>12. CASE EnvMemWrite
  BY <1>12 DEF EnvMemWrite, vbufRegs
<1>13. CASE UNCHANGED vbufVars
  BY <1>13 DEF vbufVars
<1> QED
  BY <1>1, <1>2, <1>3, <1>4, <1>5, <1>6, <1>7, <1>8, <1>9, <1>10, <1>11,
     <1>12, <1>13 DEF VbufNext

-----------------------------------------------------------------------------
\* VbufInv holds initially and is preserved by every step.
THEOREM VbufInvariant == VbufSpec => []VbufInv
<1>1. VbufInit => VbufInv
  <2> SUFFICES ASSUME VbufInit
               PROVE  VbufInv
    OBVIOUS
  <2> USE VbufAssumption DEF VbufInit
  <2>1. VbufTypeOK
    <3>1. 0 \in BeatIdx
      BY DEF BeatIdx
    <3>2. burst \in Seq(Vals)
      OBVIOUS
    <3>3. tag \in [Ways -> Lines \cup {NoLine}]
      OBVIOUS
    <3> QED
      BY <3>1, <3>2, <3>3 DEF VbufTypeOK, valid, VbufStates
  <2>2. CaptureConsistent /\ CapturedCopyAgrees
    BY DEF CaptureConsistent, CapturedCopyAgrees, Captured
  <2>3. BurstFollowsVictim
    <3>1. burst = <<>> /\ Len(burst) = 0 /\ state = "IDLE"
      OBVIOUS
    <3> QED
      BY <3>1 DEF BurstFollowsVictim
  <2>4. NoStaleSafeFlag
    BY DEF NoStaleSafeFlag
  <2> QED
    BY <2>1, <2>2, <2>3, <2>4 DEF VbufInv
<1>2. VbufInv /\ [VbufNext]_vbufVars => VbufInv'
  <2> SUFFICES ASSUME VbufInv, [VbufNext]_vbufVars
               PROVE  VbufInv'
    OBVIOUS
  <2>1. VbufTypeOK'
    BY TypeStep DEF VbufInv
  <2> QED
    BY <2>1, CaptureStep, CopyStep, BurstStep, SafeStep DEF VbufInv
<1> QED
  BY <1>1, <1>2, PTL DEF VbufSpec

\* Every register of the buffer keeps its type (VbufTypeOK).
THEOREM VbufTypeCorrect == VbufSpec => []VbufTypeOK
<1>1. VbufInv => VbufTypeOK
  BY DEF VbufInv
<1> QED
  BY <1>1, VbufInvariant, PTL

\* A capture in progress is never disturbed: the way keeps the line and the
\* contents the victim had at allocation (CaptureConsistent).
THEOREM CaptureIsConsistent == VbufSpec => []CaptureConsistent
<1>1. VbufInv => CaptureConsistent
  BY DEF VbufInv
<1> QED
  BY <1>1, VbufInvariant, PTL

\* Forwarded data and cached data agree (CapturedCopyAgrees).
THEOREM CapturedCopyIsExact == VbufSpec => []CapturedCopyAgrees
<1>1. VbufInv => CapturedCopyAgrees
  BY DEF VbufInv
<1> QED
  BY <1>1, VbufInvariant, PTL

\* The memory receives the victim's beats, complete and in order
\* (BurstFollowsVictim).
THEOREM BurstIsVictim == VbufSpec => []BurstFollowsVictim
<1>1. VbufInv => BurstFollowsVictim
  BY DEF VbufInv
<1> QED
  BY <1>1, VbufInvariant, PTL

\* No line is captured while flagged safe, or cached twice (NoStaleSafeFlag).
THEOREM SafeFlagIsFresh == VbufSpec => []NoStaleSafeFlag
<1>1. VbufInv => NoStaleSafeFlag
  BY DEF VbufInv
<1> QED
  BY <1>1, VbufInvariant, PTL

\* The step that frees the entry leaves the evicted line in memory
\* (WriteBackIsVictim).
THEOREM WriteBackIsExact == VbufSpec => WriteBackIsVictim
<1> DEFINE A == state = "WAIT_RESP" /\ state' = "IDLE" => mem'[nline] = snap
<1>1. VbufInv /\ [VbufNext]_vbufVars => [A]_vbufVars
  <2> SUFFICES ASSUME VbufInv, VbufNext, state = "WAIT_RESP", state' = "IDLE"
               PROVE  mem'[nline] = snap
    BY DEF vbufVars
  <2> USE VbufAssumption
  <2>1. VbufMemResp
    BY DEF VbufNext, VbufRead, VbufCapture, VbufStartWriteBack, VbufMemReq,
           VbufMemData, EnvAlloc, VbufAlloc, EnvStore, EnvRefill,
           EnvInvalidate, EnvConsume, VbufSafeConsume, EnvMemWrite, vbufRegs
  <2>2. nline \in Lines /\ mem \in [Lines -> LineData] /\ victim \in LineData
    BY DEF VbufInv, VbufTypeOK, valid
  <2>3. mem'[nline] = [i \in BeatIdx |-> burst[i + 1]]
    BY <2>1, <2>2 DEF VbufMemResp
  <2>4. \A i \in BeatIdx : burst[i + 1] = victim[i]
    BY DEF VbufInv, BurstFollowsVictim, BeatIdx
  <2>5. victim = snap
    BY DEF VbufInv, CapturedCopyAgrees, Captured
  <2> QED
    BY <2>2, <2>3, <2>4, <2>5 DEF LineData
<1> QED
  BY <1>1, VbufInvariant, PTL DEF VbufSpec, WriteBackIsVictim

=============================================================================
