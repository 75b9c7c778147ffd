----------------------------- MODULE RtabProofs -----------------------------
(***************************************************************************)
(* Proofs about the replay table, for any number of entries, lines and     *)
(* requests: its linked lists stay well formed and the assertions of the   *)
(* code hold, every entry in use is on the list of its line, and the lists *)
(* implement the queues of ReplayQueue.                                    *)
(***************************************************************************)
EXTENDS Rtab, FiniteSetTheorems, SequenceTheorems, WellFoundedInduction,
        TLAPS

\* A request of the core in stage 1 finds a free entry, and an empty table in
\* single-entry mode.
Room == Core => valid # Entries /\ (SingleEntry => valid = {})

\* The inductive invariant of the replay table.
RtabInv == TypeOK /\ Room /\ ListsWellFormed /\ FenceAlone

\* The priority encoder of free_alloc finds a free entry unless all are used.
LEMMA FreeEntryIsFree ==
    ASSUME valid \subseteq Entries, valid # Entries
    PROVE  FreeEntry \in Entries \ valid
<1> DEFINE S == Entries \ valid
<1>1. S \subseteq Nat /\ S # {}
  <2>1. S \subseteq Nat
    BY NAssumption DEF Entries
  <2>2. S # {}
    BY Zenon
  <2> QED
    BY <2>1, <2>2
<1>2. PICK e \in S : \A f \in S : ~(<<f, e>> \in OpToRel(<, Nat))
  <2> HIDE DEF S
  <2> QED
    BY <1>1, NatLessThanWellFounded, WFMin, Zenon
<1>3. \A f \in S : ~(f < e)
  BY <1>1, <1>2 DEF OpToRel
<1>4. \A f \in S : e <= f
  BY <1>1, <1>3
<1> QED
  BY <1>4 DEF FreeEntry

\* What is in stage 1 after each kind of step of stage 0.
LEMMA Stage1After ==
    ASSUME TypeOK, NEW STATE hd
    PROVE  /\ Idle(hd) => ~Core' /\ ~Replayed'
           /\ \A e \in Entries : PopTry(e, hd) =>
                 ~Core' /\ Replayed' /\ st1'.ptr = e /\ st1' \in Stage1Requests
           /\ TakeCore(hd) => Core' /\ ~Replayed' /\ st1' \in Stage1Requests
<1> USE NoneAssumption DEF Core, Replayed, Stage1Requests
<1>1. Idle(hd) => ~Core' /\ ~Replayed'
  BY DEF Idle
<1>2. ASSUME NEW e \in Entries, PopTry(e, hd)
      PROVE  ~Core' /\ Replayed' /\ st1'.ptr = e /\ st1' \in Stage1Requests
  <2>1. st1' \in Stage1Requests
    BY <1>2 DEF PopTry, TypeOK
  <2> QED
    BY <1>2, <2>1 DEF PopTry
<1>3. ASSUME TakeCore(hd)
      PROVE  Core' /\ ~Replayed' /\ st1' \in Stage1Requests
  <2>1. PICK r \in Requests : st1' = [req |-> r, replay |-> FALSE, ptr |-> 0]
    BY <1>3 DEF TakeCore
  <2>2. st1' \in Stage1Requests
    BY <2>1, NAssumption DEF Entries
  <2>3. st1'.replay = FALSE
    BY <2>1
  <2> QED
    BY <2>2, <2>3
<1> QED
  BY <1>1, <1>2, <1>3

\* The entry that is popped next is valid; it has no predecessor but the one
\* in stage 1, and a fence is popped only once its dependency is cleared.
LEMMA PopSelFacts ==
    ASSUME RtabInv, NEW e \in PopSel
    PROVE  /\ e \in valid
           /\ Replayed => e # st1.ptr
           /\ \A f \in valid \ tailq :
                 nextq[f] = e => Replayed /\ f = st1.ptr
           /\ deps[e] # "pend"
<1> USE DEF RtabInv, TypeOK, ListsWellFormed, LinksWellFormed, PopFollowsStage1,
            PopSel, Popped
<1>1. CASE popState = "HEAD"
  BY <1>1 DEF ready
<1>2. CASE popState = "NEXT_WAIT"
  <2>1. ~Replayed
    BY <1>2
  <2>2. e = popNext /\ Popped = {popNext}
    BY <1>2, <2>1
  <2> QED
    BY <2>1, <2>2 DEF FenceAlone
<1>3. CASE popState = "NEXT"
  <2>1. Replayed /\ e = nextq[st1.ptr] /\ Popped = {st1.ptr}
    BY <1>3
  <2>2. st1.ptr \in valid \ tailq
    BY <1>3, <2>1
  <2>3. e \in valid /\ e # st1.ptr /\ e \notin headq
    BY <2>1, <2>2
  <2>4. deps[e] # "pend"
    BY <2>3 DEF FenceAlone
  <2> QED
    BY <2>1, <2>2, <2>3, <2>4
<1> QED
  BY <1>1, <1>2, <1>3

\* Answering or leaving stage 1, and taking the next request, keeps the lists
\* well formed.
LEMMA ListsServe ==
    ASSUME RtabInv, Stage0(FALSE, headq),
           valid' = valid \ (IF Replayed THEN {st1.ptr} ELSE {}),
           UNCHANGED <<tailq, nextq, req>>
    PROVE  ListsWellFormed'
<1> USE DEF RtabInv, TypeOK, ListsWellFormed
<1>1. OneTail'
  BY DEF OneTail
<1>2. CASE Idle(headq)
  <2>1. ~Core' /\ ~Replayed'
    BY <1>2, Stage1After
  <2>2. PopFollowsStage1'
    BY <1>2, <2>1 DEF PopFollowsStage1, Idle
  <2>3. LinksWellFormed'
    BY <1>2, <2>1 DEF LinksWellFormed, PopFollowsStage1, Popped, Idle
  <2> QED
    BY <1>1, <2>2, <2>3
<1>3. ASSUME NEW e \in PopSel, PopTry(e, headq)
      PROVE  ListsWellFormed'
  <2>1. /\ e \in valid
        /\ Replayed => e # st1.ptr
        /\ \A f \in valid \ tailq : nextq[f] = e => Replayed /\ f = st1.ptr
    BY PopSelFacts
  <2>2. ~Core' /\ Replayed' /\ st1'.ptr = e
    BY <1>3, <2>1, Stage1After
  <2>3. PopFollowsStage1'
    BY <1>3, <2>2 DEF PopFollowsStage1, PopTry
  <2>4. LinksWellFormed'
    BY <1>3, <2>1, <2>2 DEF LinksWellFormed, Popped, PopTry
  <2> QED
    BY <1>1, <2>3, <2>4
<1>4. CASE TakeCore(headq)
  <2>1. Core' /\ ~Replayed'
    BY <1>4, Stage1After
  <2>2. popState' = "HEAD" /\ headq' = headq
    BY <1>4 DEF TakeCore, CoreReady, PopValid
  <2>3. LinksWellFormed'
    BY <2>1, <2>2 DEF LinksWellFormed, Popped
  <2> QED
    BY <1>1, <2>1, <2>2, <2>3 DEF PopFollowsStage1
<1> QED
  BY <1>2, <1>3, <1>4 DEF Stage0

\* A step that holds a request of the core, alone or behind its list.
LEMMA HoldFacts ==
    ASSUME RtabInv, Alloc \/ Link
    PROVE  /\ Core /\ st1.req \in Requests
           /\ FreeEntry \in Entries \ valid
           /\ ~Core' /\ ~Replayed' /\ st1' = None
           /\ Popped = {} /\ Popped' = {}
           /\ popState = "HEAD" /\ popState' = "HEAD" /\ popNext' = popNext
<1>1. Core
  BY DEF Alloc, Link
<1>2. FreeEntry \in Entries \ valid
  BY <1>1, FreeEntryIsFree DEF RtabInv, TypeOK, Room
<1>3. Idle(headq \cup {FreeEntry}) \/ Idle(headq \ {FreeEntry})
  BY DEF Alloc, Link, Stage0
<1>4. st1' = None /\ popState = "HEAD" /\ popState' = "HEAD" /\ popNext' = popNext
  BY <1>1, <1>3 DEF Idle, RtabInv, ListsWellFormed, PopFollowsStage1
<1>5. ~Core' /\ ~Replayed' /\ ~Replayed
  BY <1>1, <1>4 DEF Core, Replayed
<1>6. st1.req \in Requests
  BY <1>1 DEF Core, RtabInv, TypeOK, Stage1Requests
<1> QED
  BY <1>1, <1>2, <1>4, <1>5, <1>6 DEF Popped

\* alloc_i starts a well-formed list of one entry.
LEMMA ListsAlloc ==
    ASSUME RtabInv, Alloc
    PROVE  ListsWellFormed'
<1> DEFINE n == FreeEntry
<1>1. /\ n \in Entries \ valid /\ ~Core' /\ ~Replayed'
      /\ Popped' = {} /\ popState' = "HEAD" /\ st1.req \in Requests
  BY HoldFacts
<1>2. /\ valid' = valid \cup {n} /\ tailq' = tailq \cup {n} /\ nextq' = nextq
      /\ req' = [req EXCEPT ![n] = st1.req] /\ ~Conflict
  BY DEF Alloc
<1>3. headq' = headq \cup {n}
  BY DEF Alloc, Stage0, Idle
<1> HIDE DEF n
<1> USE DEF RtabInv, TypeOK, ListsWellFormed
<1>4. LinksWellFormed'
  BY <1>1, <1>2, <1>3 DEF LinksWellFormed
<1>5. OneTail'
  <2>1. \A e \in valid : ~st1.req.fence => req[e].line # st1.req.line
    BY <1>2 DEF Conflict, CheckHit
  <2> QED
    BY <1>1, <1>2, <2>1 DEF OneTail
<1> QED
  BY <1>1, <1>4, <1>5 DEF PopFollowsStage1

\* alloc_and_link_i appends an entry to the list of its line, whose tail is
\* not being popped.
LEMMA ListsLink ==
    ASSUME RtabInv, Link
    PROVE  ListsWellFormed'
<1> DEFINE n == FreeEntry
<1> DEFINE old == CheckTail(st1.req.line)
<1>1. /\ n \in Entries \ valid /\ ~Core' /\ ~Replayed' /\ Core
      /\ Popped' = {} /\ popState' = "HEAD" /\ st1.req \in Requests
  BY HoldFacts
<1>2. /\ valid' = valid \cup {n} /\ tailq' = (tailq \ old) \cup {n}
      /\ nextq' = [e \in Entries |-> IF e \in old THEN n ELSE nextq[e]]
      /\ req' = [req EXCEPT ![n] = st1.req]
  BY DEF Link
<1>3. headq' = headq \ {n}
  BY DEF Link, Stage0, Idle
<1>4. \A e \in valid : e \in old <=> e \in tailq /\ req[e].line = st1.req.line
  BY DEF CheckTail, CheckHit
<1>5. old \subseteq valid
  BY DEF CheckTail, CheckHit
<1>6. \A e, f \in old : e = f
  BY <1>1, <1>4, <1>5 DEF RtabInv, FenceAlone, ListsWellFormed, OneTail
<1> HIDE DEF n, old
<1> USE DEF RtabInv, TypeOK, ListsWellFormed
<1>7. LinksWellFormed'
  <2>1. headq' \subseteq valid' /\ Popped' \subseteq valid' \ headq'
    BY <1>1, <1>2, <1>3 DEF LinksWellFormed
  <2>2. ASSUME NEW e \in valid' \ tailq'
        PROVE  /\ nextq'[e] \in valid' \ headq'
               /\ req'[nextq'[e]].line = req'[e].line
               /\ \A f \in valid' \ tailq' : nextq'[e] = nextq'[f] => e = f
    <3>1. e \in valid /\ (e \in old \/ e \notin tailq)
      BY <1>2, <2>2
    <3>2. CASE e \in old
      BY <1>1, <1>2, <1>3, <1>4, <1>5, <1>6, <3>1, <3>2 DEF LinksWellFormed
    <3>3. CASE e \notin old
      BY <1>1, <1>2, <1>3, <1>4, <1>5, <3>1, <3>3 DEF LinksWellFormed
    <3> QED
      BY <3>2, <3>3
  <2> QED
    BY <1>1, <2>1, <2>2 DEF LinksWellFormed
<1>8. OneTail'
  BY <1>1, <1>2, <1>4 DEF OneTail
<1> QED
  BY <1>1, <1>7, <1>8 DEF PopFollowsStage1

\* pop_rback_i puts the entry in stage 1 back at the head of its list.
LEMMA ListsRollback ==
    ASSUME RtabInv, Rollback
    PROVE  ListsWellFormed'
<1> USE DEF RtabInv, TypeOK, ListsWellFormed
<1>1. ~Core' /\ ~Replayed'
  BY DEF Rollback, Core, Replayed
<1>2. Replayed /\ popState' = "HEAD" /\ Popped' = {}
  BY <1>1 DEF Rollback, PopFollowsStage1, Popped
<1>3. Popped = {st1.ptr}
  BY <1>2 DEF Popped
<1>4. LinksWellFormed'
  BY <1>2, <1>3 DEF Rollback, LinksWellFormed
<1> QED
  BY <1>1, <1>2, <1>4 DEF Rollback, OneTail, PopFollowsStage1

\* Every step keeps the linked lists well formed.
LEMMA ListsStep ==
    ASSUME RtabInv, [Next]_rtabVars
    PROVE  ListsWellFormed'
<1>1. CASE Pass
  <2>1. ~Replayed
    BY <1>1 DEF Pass, Core, Replayed
  <2> QED
    BY <1>1, <2>1, ListsServe DEF Pass
<1>2. CASE Commit
  BY <1>2, ListsServe DEF Commit
<1>3. CASE Wake \/ WakeFence \/ UNCHANGED rtabVars
  BY <1>3 DEF Wake, WakeFence, rtabVars, RtabInv, ListsWellFormed,
              LinksWellFormed, PopFollowsStage1, OneTail, Popped, Core, Replayed
<1> QED
  BY <1>1, <1>2, <1>3, ListsAlloc, ListsLink, ListsRollback DEF Next

\* Whatever stage 0 does, its registers keep their types, and a request of the
\* core finds room.
LEMMA Stage0Step ==
    ASSUME RtabInv, NEW STATE hd, NEW CONSTANT nop, Stage0(nop, hd),
           hd \subseteq Entries, valid' \subseteq valid \/ nop
    PROVE  /\ headq' \subseteq Entries
           /\ popState' \in {"HEAD", "NEXT", "NEXT_WAIT"}
           /\ popNext' \in Entries
           /\ st1' = None \/ st1' \in Stage1Requests
           /\ Room'
<1> USE DEF RtabInv, TypeOK
<1>1. CASE Idle(hd)
  <2>1. ~Core'
    BY <1>1, Stage1After
  <2> QED
    BY <1>1, <2>1 DEF Idle, Room
<1>2. ASSUME NEW e \in PopSel, PopTry(e, hd)
      PROVE  /\ headq' \subseteq Entries
             /\ popState' \in {"HEAD", "NEXT", "NEXT_WAIT"}
             /\ popNext' \in Entries
             /\ st1' = None \/ st1' \in Stage1Requests
             /\ Room'
  <2>1. e \in Entries
    BY DEF PopSel, ready
  <2>2. ~Core' /\ st1' \in Stage1Requests
    BY <1>2, <2>1, Stage1After
  <2> QED
    BY <1>2, <2>1, <2>2 DEF PopTry, Room
<1>3. CASE ~nop /\ TakeCore(hd)
  <2>1. st1' \in Stage1Requests
    BY <1>3, Stage1After
  <2>2. ~Full
    BY <1>3 DEF TakeCore, CoreReady
  <2>3. valid' # Entries
    BY <1>3, <2>2 DEF Full
  <2>4. SingleEntry => valid' = {}
    BY <1>3, <2>2 DEF Full
  <2> QED
    BY <1>3, <2>1, <2>3, <2>4 DEF TakeCore, Room
<1> QED
  BY <1>1, <1>2, <1>3 DEF Stage0

\* Every step keeps the registers in their types and room for the request in
\* stage 1.
LEMMA TypeStep ==
    ASSUME RtabInv, [Next]_rtabVars
    PROVE  TypeOK' /\ Room'
<1>1. CASE Pass
  <2>1. headq \subseteq Entries /\ valid' \subseteq valid /\ Stage0(FALSE, headq)
    BY <1>1 DEF Pass, RtabInv, TypeOK
  <2>2. UNCHANGED <<valid, tailq, nextq, deps, req>>
    BY <1>1 DEF Pass
  <2> QED
    BY <2>1, <2>2, Stage0Step DEF RtabInv, TypeOK
<1>2. CASE Commit
  <2>1. headq \subseteq Entries /\ valid' \subseteq valid /\ Stage0(FALSE, headq)
    BY <1>2 DEF Commit, RtabInv, TypeOK
  <2>2. UNCHANGED <<tailq, nextq, deps, req>>
    BY <1>2 DEF Commit
  <2> QED
    BY <2>1, <2>2, Stage0Step DEF RtabInv, TypeOK
<1>3. CASE Alloc
  <2>1. FreeEntry \in Entries /\ st1.req \in Requests
    BY <1>3, HoldFacts
  <2>2. /\ valid' = valid \cup {FreeEntry} /\ tailq' = tailq \cup {FreeEntry}
        /\ UNCHANGED nextq /\ req' = [req EXCEPT ![FreeEntry] = st1.req]
        /\ Stage0(TRUE, headq \cup {FreeEntry})
    BY <1>3 DEF Alloc
  <2>3. deps' \in [Entries -> {"none", "wait", "pend"}]
    BY <1>3, <2>1 DEF Alloc, DepsOf, RtabInv, TypeOK
  <2>4. headq \cup {FreeEntry} \subseteq Entries
    BY <2>1 DEF RtabInv, TypeOK
  <2> QED
    BY <2>1, <2>2, <2>3, <2>4, Stage0Step DEF RtabInv, TypeOK
<1>4. CASE Link
  <2>1. FreeEntry \in Entries /\ st1.req \in Requests
    BY <1>4, HoldFacts
  <2>2. /\ valid' = valid \cup {FreeEntry} /\ UNCHANGED deps
        /\ req' = [req EXCEPT ![FreeEntry] = st1.req]
        /\ Stage0(TRUE, headq \ {FreeEntry})
    BY <1>4 DEF Link
  <2>3. tailq' \subseteq Entries /\ nextq' \in [Entries -> Entries]
    BY <1>4, <2>1 DEF Link, RtabInv, TypeOK
  <2>4. headq \ {FreeEntry} \subseteq Entries
    BY DEF RtabInv, TypeOK
  <2> QED
    BY <2>1, <2>2, <2>3, <2>4, Stage0Step DEF RtabInv, TypeOK
<1>5. CASE Rollback
  <2>1. Replayed /\ st1.ptr \in Entries /\ st1' = None
    BY <1>5 DEF Rollback, Replayed, RtabInv, TypeOK, Stage1Requests
  <2>2. deps' \in [Entries -> {"none", "wait", "pend"}]
    BY <1>5, <2>1 DEF Rollback, DepsOf, RtabInv, TypeOK
  <2>3. Room'
    BY <2>1 DEF Room, Core
  <2> QED
    BY <1>5, <2>1, <2>2, <2>3 DEF Rollback, RtabInv, TypeOK
<1>6. CASE Wake \/ WakeFence \/ UNCHANGED rtabVars
  <2>1. deps' \in [Entries -> {"none", "wait", "pend"}]
    BY <1>6 DEF Wake, WakeFence, rtabVars, RtabInv, TypeOK
  <2>2. UNCHANGED <<valid, headq, tailq, nextq, req, popState, popNext, st1>>
    BY <1>6 DEF Wake, WakeFence, rtabVars
  <2> QED
    BY <2>1, <2>2 DEF RtabInv, TypeOK, Room, Core
<1> QED
  BY <1>1, <1>2, <1>3, <1>4, <1>5, <1>6 DEF Next

\* Answering or leaving stage 1, and taking the next request, keeps a fence
\* alone: a request of the core follows only when no fence is left.
LEMMA FenceServe ==
    ASSUME RtabInv, Stage0(FALSE, headq),
           valid' = valid \ (IF Replayed THEN {st1.ptr} ELSE {}),
           UNCHANGED <<tailq, nextq, deps, req>>
    PROVE  FenceAlone'
<1> USE DEF RtabInv, TypeOK, FenceAlone
<1>1. Replayed => st1.ptr \notin headq
  BY DEF ListsWellFormed, LinksWellFormed, Popped
<1>2. CASE Idle(headq)
  <2>1. ~Core' /\ ~Replayed' /\ headq' = headq
    BY <1>2, Stage1After DEF Idle
  <2> QED
    BY <1>1, <2>1
<1>3. ASSUME NEW e \in PopSel, PopTry(e, headq)
      PROVE  FenceAlone'
  <2>1. e \in valid /\ (Replayed => e # st1.ptr) /\ deps[e] # "pend"
    BY PopSelFacts
  <2>2. ~Core' /\ Replayed' /\ st1'.ptr = e
    BY <1>3, <2>1, Stage1After
  <2>3. headq' = headq \ {e}
    BY <1>3 DEF PopTry
  <2> QED
    BY <1>1, <2>1, <2>2, <2>3
<1>4. CASE TakeCore(headq)
  <2>1. Core' /\ ~Replayed' /\ headq' = headq
    BY <1>4, Stage1After DEF TakeCore
  <2>2. ready = {} /\ \A e \in Entries : deps[e] # "pend"
    BY <1>4 DEF TakeCore, CoreReady, PopValid, FenceWaits
  <2>3. \A e \in valid' : ~req[e].fence
    BY <2>2 DEF ready
  <2> QED
    BY <1>1, <2>1, <2>2, <2>3
<1> QED
  BY <1>2, <1>3, <1>4 DEF Stage0

\* Every step keeps a fence alone.
LEMMA FenceStep ==
    ASSUME RtabInv, [Next]_rtabVars
    PROVE  FenceAlone'
<1> USE DEF FenceAlone
<1>1. CASE Pass
  <2>1. ~Replayed
    BY <1>1 DEF Pass, Core, Replayed
  <2> QED
    BY <1>1, <2>1, FenceServe DEF Pass
<1>2. CASE Commit
  BY <1>2, FenceServe DEF Commit
<1>3. CASE Alloc
  <2> DEFINE n == FreeEntry
  <2>1. n \in Entries \ valid /\ ~Core' /\ ~Replayed' /\ Core
    BY <1>3, HoldFacts
  <2>2. /\ valid' = valid \cup {n} /\ tailq' = tailq \cup {n}
        /\ req' = [req EXCEPT ![n] = st1.req] /\ headq' = headq \cup {n}
    BY <1>3 DEF Alloc, Stage0, Idle
  <2>3. PICK d \in DepsOf(st1.req) : deps' = [deps EXCEPT ![n] = d]
    BY <1>3 DEF Alloc
  <2>4. /\ st1.req.fence => d = "pend"
        /\ ~st1.req.fence => d # "pend"
    BY <2>3 DEF DepsOf
  <2> HIDE DEF n
  <2>5. \A e \in valid : ~req[e].fence
    BY <2>1 DEF RtabInv
  <2>6. \A e \in valid : req'[e] = req[e] /\ deps'[e] = deps[e]
    BY <2>1, <2>2, <2>3 DEF RtabInv, TypeOK
  <2>7. req'[n] = st1.req /\ deps'[n] = d
    BY <2>1, <2>2, <2>3 DEF RtabInv, TypeOK
  <2>8. \A e \in Entries : deps'[e] = "pend" => e = n /\ st1.req.fence
    BY <2>1, <2>3, <2>4, <2>5 DEF RtabInv, TypeOK
  <2> QED
    BY <2>1, <2>2, <2>4, <2>5, <2>6, <2>7, <2>8
<1>4. CASE Link
  <2> DEFINE n == FreeEntry
  <2>1. n \in Entries \ valid /\ ~Core' /\ ~Replayed' /\ Core
    BY <1>4, HoldFacts
  <2>2. /\ valid' = valid \cup {n} /\ deps' = deps
        /\ req' = [req EXCEPT ![n] = st1.req] /\ ~st1.req.fence
    BY <1>4 DEF Link, Conflict
  <2> HIDE DEF n
  <2>3. \A e \in valid' : ~req'[e].fence
    BY <2>1, <2>2 DEF RtabInv, TypeOK
  <2>4. \A e \in Entries : deps'[e] # "pend"
    BY <2>1, <2>2 DEF RtabInv
  <2> QED
    BY <2>1, <2>3, <2>4
<1>5. CASE Rollback
  <2> DEFINE p == st1.ptr
  <2>1. ~Core' /\ ~Replayed' /\ Replayed
    BY <1>5 DEF Rollback, Core, Replayed
  <2>2. /\ headq' = headq \cup {p}
        /\ UNCHANGED <<valid, tailq, req>>
    BY <1>5 DEF Rollback
  <2>3. PICK d \in DepsOf(st1.req) : deps' = [deps EXCEPT ![p] = d]
    BY <1>5 DEF Rollback
  <2>4. /\ st1.req.fence => d = "pend"
        /\ ~st1.req.fence => d # "pend"
    BY <2>3 DEF DepsOf
  <2>5. p \in valid
    BY <2>1 DEF RtabInv, ListsWellFormed, LinksWellFormed, Popped
  <2>6. st1.req = req[p]
    BY <2>1 DEF RtabInv, ListsWellFormed, PopFollowsStage1
  <2> QED
    BY <2>1, <2>2, <2>3, <2>4, <2>5, <2>6 DEF RtabInv, TypeOK
<1>6. CASE Wake \/ WakeFence \/ UNCHANGED rtabVars
  <2>1. \A e \in Entries :
            /\ deps'[e] = "pend" => deps[e] = "pend"
            /\ deps'[e] = "wait" => deps[e] = "wait"
    BY <1>6 DEF Wake, WakeFence, rtabVars, RtabInv, TypeOK
  <2>2. UNCHANGED <<valid, headq, tailq, req, st1>>
    BY <1>6 DEF Wake, WakeFence, rtabVars
  <2>3. valid \subseteq Entries
    BY DEF RtabInv, TypeOK
  <2> QED
    BY <2>1, <2>2, <2>3 DEF RtabInv, Core, Replayed
<1> QED
  BY <1>1, <1>2, <1>3, <1>4, <1>5, <1>6 DEF Next

\* RtabInv is an invariant of the replay table, for any number of entries.
THEOREM RtabInvariant == Spec => []RtabInv
<1>1. Init => RtabInv
  <2> SUFFICES ASSUME Init PROVE RtabInv
    OBVIOUS
  <2>1. 0 \in Entries
    BY NAssumption DEF Entries
  <2>2. ~Core /\ ~Replayed /\ Popped = {}
    BY DEF Init, Core, Replayed, Popped
  <2>3. TypeOK
    BY <2>1 DEF Init, TypeOK
  <2>4. ListsWellFormed
    BY <2>2 DEF Init, ListsWellFormed, LinksWellFormed, PopFollowsStage1, OneTail
  <2>5. FenceAlone
    BY <2>2 DEF Init, FenceAlone
  <2> QED
    BY <2>2, <2>3, <2>4, <2>5 DEF RtabInv, Room
<1>2. RtabInv /\ [Next]_rtabVars => RtabInv'
  BY TypeStep, ListsStep, FenceStep DEF RtabInv
<1> QED
  BY <1>1, <1>2, PTL DEF Spec

\* Registers of the table and of stage 1 keep their types (TypeOK); the encoder
\* that allocates entries always finds one.
THEOREM RtabTypeCorrect == Spec => []TypeOK
<1>1. RtabInv => TypeOK
  BY DEF RtabInv
<1> QED
  BY <1>1, RtabInvariant, PTL

\* Links never cross, dangle or lead to an entry being popped
\* (ListsWellFormed).
THEOREM ListsStayWellFormed == Spec => []ListsWellFormed
<1>1. RtabInv => ListsWellFormed
  BY DEF RtabInv
<1> QED
  BY <1>1, RtabInvariant, PTL

\* A fence is on hold alone (FenceAlone).
THEOREM FenceStaysAlone == Spec => []FenceAlone
<1>1. RtabInv => FenceAlone
  BY DEF RtabInv
<1> QED
  BY <1>1, RtabInvariant, PTL

\* A set whose elements are all equal has one element at most.
LEMMA AtMostOne ==
    ASSUME NEW S, \A e, f \in S : e = f
    PROVE  Cardinality(S) <= 1
<1>1. CASE S = {}
  BY <1>1, FS_EmptySet
<1>2. CASE S # {}
  <2>1. PICK e \in S : TRUE
    BY <1>2
  <2>2. S = {e}
    BY <2>1
  <2> QED
    BY <2>2, FS_Singleton
<1> QED
  BY <1>1, <1>2

\* The assertions in the code of the replay table never fail
\* (AssertionsHold).
THEOREM RtabAssertions == Spec => []AssertionsHold
<1>1. RtabInv => AssertionsHold
  <2> SUFFICES ASSUME RtabInv PROVE AssertionsHold
    OBVIOUS
  <2>1. ASSUME Core PROVE Cardinality(CheckTail(st1.req.line)) <= 1
    <3>1. \A e, f \in CheckTail(st1.req.line) : e = f
      BY <2>1 DEF RtabInv, FenceAlone, ListsWellFormed, OneTail, CheckTail,
                  CheckHit
    <3> QED
      BY <3>1, AtMostOne
  <2>2. Core => valid # Entries
    BY DEF RtabInv, Room
  <2>3. Core /\ SingleEntry => ~Conflict
    BY DEF RtabInv, Room, Conflict, CheckHit
  <2>4. Replayed => st1.ptr \in valid
    BY DEF RtabInv, ListsWellFormed, LinksWellFormed, Popped
  <2>5. Cardinality({e \in Entries : deps[e] = "pend"}) <= 1
    <3> DEFINE S == {e \in Entries : deps[e] = "pend"}
    <3>1. \A e, f \in S : e = f
      BY DEF RtabInv, FenceAlone
    <3> HIDE DEF S
    <3>2. Cardinality(S) <= 1
      BY <3>1, AtMostOne
    <3> QED
      BY <3>2 DEF S
  <2> QED
    BY <2>1, <2>2, <2>3, <2>4, <2>5 DEF AssertionsHold
<1> QED
  BY <1>1, RtabInvariant, PTL

\* Induction on the naturals, for the elements of a set.
LEMMA SetInduction ==
    ASSUME NEW S, 0 \in S, \A n \in Nat : n \in S => n + 1 \in S
    PROVE  Nat \subseteq S
<1> SUFFICES ASSUME Nat \ S # {} PROVE FALSE
  OBVIOUS
<1> DEFINE T == Nat \ S
<1>1. PICK m \in T : \A k \in T : ~(<<k, m>> \in OpToRel(<, Nat))
  <2>1. T \subseteq Nat /\ T # {}
    OBVIOUS
  <2> HIDE DEF T
  <2> QED
    BY <2>1, NatLessThanWellFounded, WFMin, Zenon
<1>2. \A k \in T : ~(k < m)
  BY <1>1 DEF OpToRel
<1>3. m # 0 /\ m - 1 \in Nat /\ m - 1 \notin T
  BY <1>2
<1>4. m - 1 + 1 \in S
  BY <1>3
<1> QED
  BY <1>3, <1>4

\* The recursive definition of Follow has a solution.
LEMMA FollowDef ==
    ASSUME NEW nx \in [Entries -> Entries], NEW e \in Entries
    PROVE  Follow(e, nx) = [i \in 0 .. N |->
                               IF i = 0 THEN e ELSE nx[Follow(e, nx)[i - 1]]]
<1> DEFINE Walk(n) == {f \in [0 .. n -> Entries] :
                          f[0] = e /\ \A i \in 1 .. n : f[i] = nx[f[i - 1]]}
<1> DEFINE S == {n \in Nat : Walk(n) # {}}
<1>1. 0 \in S
  <2>1. [i \in 0 .. 0 |-> e] \in Walk(0)
    OBVIOUS
  <2> QED
    BY <2>1
<1>2. ASSUME NEW n \in Nat, n \in S PROVE n + 1 \in S
  <2>1. PICK f \in [0 .. n -> Entries] :
            f[0] = e /\ \A i \in 1 .. n : f[i] = nx[f[i - 1]]
    BY <1>2
  <2> DEFINE g == [i \in 0 .. n + 1 |-> IF i <= n THEN f[i] ELSE nx[f[n]]]
  <2>2. g \in [0 .. n + 1 -> Entries]
    BY <2>1
  <2>3. g[0] = e
    BY <2>1
  <2>4. ASSUME NEW i \in 1 .. n + 1 PROVE g[i] = nx[g[i - 1]]
    BY <2>1
  <2>5. g \in Walk(n + 1)
    BY <2>2, <2>3, <2>4
  <2> QED
    BY <2>5
<1>3. N \in S
  <2> HIDE DEF S
  <2> QED
    BY <1>1, <1>2, SetInduction, NAssumption
<1>4. PICK f \in [0 .. N -> Entries] :
          f[0] = e /\ \A i \in 1 .. N : f[i] = nx[f[i - 1]]
  BY <1>3
<1>5. f = [i \in 0 .. N |-> IF i = 0 THEN e ELSE nx[f[i - 1]]]
  BY <1>4, NAssumption
<1> QED
  BY <1>5, Zenon DEF Follow

\* p is a list that starts at entry e and ends at the first tail.
IsList(p, e, nx, tl) ==
    /\ p \in Seq(Entries) /\ Len(p) \in 1 .. N
    /\ p[1] = e
    /\ \A i \in 1 .. Len(p) - 1 : p[i] \notin tl /\ p[i + 1] = nx[p[i]]
    /\ p[Len(p)] \in tl

\* LinkedList is the only list that starts at e.
LEMMA OnlyList ==
    ASSUME NEW nx \in [Entries -> Entries], NEW tl, NEW e \in Entries, NEW p,
           IsList(p, e, nx, tl)
    PROVE  LinkedList(e, nx, tl) = p
<1> DEFINE k == Len(p)
<1> DEFINE node == Follow(e, nx)
<1> DEFINE ends == {i \in 0 .. N : node[i] \in tl}
<1>1. k \in 1 .. N /\ p \in [1 .. k -> Entries]
  BY LenProperties DEF IsList
<1>2. /\ node[0] = e
      /\ \A i \in 1 .. N : node[i] = nx[node[i - 1]]
  <2> HIDE DEF node
  <2>1. node = [i \in 0 .. N |-> IF i = 0 THEN e ELSE nx[node[i - 1]]]
    BY FollowDef DEF node
  <2> QED
    BY <2>1, NAssumption
<1> HIDE DEF node
<1>3. \A i \in 0 .. k - 1 : node[i] = p[i + 1]
  <2> DEFINE S == {i \in Nat : i <= k - 1 => node[i] = p[i + 1]}
  <2>1. 0 \in S
    BY <1>2 DEF IsList
  <2>2. ASSUME NEW i \in Nat, i \in S PROVE i + 1 \in S
    <3> SUFFICES ASSUME i + 1 <= k - 1 PROVE node[i + 1] = p[i + 2]
      BY <1>1
    <3>1. node[i] = p[i + 1]
      BY <1>1, <2>2
    <3>2. i + 1 \in 1 .. N /\ i + 1 \in 1 .. k - 1
      BY <1>1, NAssumption
    <3>3. node[i + 1] = nx[node[(i + 1) - 1]] /\ p[(i + 1) + 1] = nx[p[i + 1]]
      BY <1>2, <3>2 DEF IsList
    <3> QED
      BY <3>1, <3>3
  <2>3. Nat \subseteq S
    <3> HIDE DEF S
    <3> QED
      BY <2>1, <2>2, SetInduction
  <2> QED
    BY <1>1, <2>3
<1>4. k - 1 \in ends /\ \A i \in ends : k - 1 <= i
  <2>1. k - 1 \in 0 .. N /\ node[k - 1] = p[k] /\ p[k] \in tl
    <3>1. k - 1 \in 0 .. N /\ k - 1 \in 0 .. k - 1 /\ (k - 1) + 1 = k
      BY <1>1, NAssumption
    <3>2. p[k] \in tl
      BY DEF IsList
    <3> HIDE DEF k
    <3> QED
      BY <1>3, <3>1, <3>2
  <2>2. ASSUME NEW i \in 0 .. N, i < k - 1 PROVE node[i] \notin tl
    <3>1. i + 1 \in 1 .. k - 1 /\ i \in 0 .. k - 1
      BY <1>1, <2>2
    <3> QED
      BY <1>3, <3>1 DEF IsList
  <2> QED
    BY <1>1, <2>1, <2>2, NAssumption
<1>5. (CHOOSE i \in ends : \A j \in ends : i <= j) = k - 1
  <2>1. \A i \in ends : (\A j \in ends : i <= j) => i = k - 1
    <3>1. ends \subseteq Int /\ k - 1 \in Int
      BY <1>1, NAssumption
    <3> HIDE DEF ends, k
    <3> QED
      BY <1>4, <3>1
  <2> HIDE DEF ends, k
  <2> QED
    BY <1>4, <2>1
<1>6. LinkedList(e, nx, tl) = [i \in 1 .. (k - 1) + 1 |-> node[i - 1]]
  <2> HIDE DEF k
  <2> QED
    BY <1>4, <1>5, Zenon DEF LinkedList, node
<1>7. [i \in 1 .. (k - 1) + 1 |-> node[i - 1]] = [i \in 1 .. k |-> p[i]]
  BY <1>1, <1>3
<1> QED
  BY <1>1, <1>6, <1>7

\* P maps every start of a list to its list: the lists contain the entries of
\* val, each one once, and a list holds requests of one line.
Laid(P, starts, val, nx, tl, rq) ==
    /\ \A e \in starts : IsList(P[e], e, nx, tl)
    /\ \A e \in starts : \A i \in 1 .. Len(P[e]) :
          P[e][i] \in val /\ rq[P[e][i]].line = rq[e].line
    /\ \A f \in val : \E e \in starts : \E i \in 1 .. Len(P[e]) : P[e][i] = f
    /\ \A e, f \in starts :
          \A i \in 1 .. Len(P[e]), j \in 1 .. Len(P[f]) :
              P[e][i] = P[f][j] => e = f /\ i = j

\* The first and the last entry of a list, and where it has a tail.
LEMMA ListEnds ==
    ASSUME NEW p, NEW e, NEW nx, NEW tl, IsList(p, e, nx, tl)
    PROVE  /\ Len(p) \in Nat /\ 1 \in 1 .. Len(p) /\ Len(p) \in 1 .. Len(p)
           /\ p[1] = e /\ p[Len(p)] \in tl
           /\ p \in [1 .. Len(p) -> Entries]
           /\ \A i \in 1 .. Len(p) : p[i] \in tl => i = Len(p)
<1>1. Len(p) \in Nat /\ Len(p) >= 1 /\ p[1] = e /\ p[Len(p)] \in tl
  BY NAssumption DEF IsList
<1>2. p \in [1 .. Len(p) -> Entries]
  BY LenProperties DEF IsList
<1>3. ASSUME NEW i \in 1 .. Len(p), p[i] \in tl, i # Len(p) PROVE FALSE
  <2>1. i \in 1 .. Len(p) - 1
    BY <1>1, <1>3
  <2> QED
    BY <1>3, <2>1 DEF IsList
<1>4. 1 \in 1 .. Len(p) /\ Len(p) \in 1 .. Len(p)
  BY <1>1
<1> QED
  BY <1>1, <1>2, <1>3, <1>4, Zenon

\* Starts are the first entries of their lists, and they are in use.
LEMMA StartsListed ==
    ASSUME NEW P, NEW st, NEW val, NEW nx, NEW tl, NEW rq,
           Laid(P, st, val, nx, tl, rq)
    PROVE  /\ st \subseteq val
           /\ \A e \in st : 1 \in 1 .. Len(P[e]) /\ P[e][1] = e
<1>1. ASSUME NEW e \in st PROVE 1 \in 1 .. Len(P[e]) /\ P[e][1] = e
  BY ListEnds DEF Laid
<1>2. ASSUME NEW e \in st PROVE e \in val
  BY <1>1 DEF Laid
<1> QED
  BY <1>1, <1>2

\* The lists of a layout are the linked lists of the table.
LEMMA LaidIsLinked ==
    ASSUME NEW nx \in [Entries -> Entries], NEW st, NEW val, val \subseteq Entries,
           NEW tl, NEW rq, NEW P, Laid(P, st, val, nx, tl, rq)
    PROVE  /\ \A e \in st : LinkedList(e, nx, tl) = P[e]
           /\ Laid([e \in st |-> LinkedList(e, nx, tl)], st, val, nx, tl, rq)
<1>1. ASSUME NEW e \in st PROVE LinkedList(e, nx, tl) = P[e]
  <2>1. e \in Entries
    BY StartsListed
  <2>2. IsList(P[e], e, nx, tl)
    BY DEF Laid
  <2> QED
    BY <2>1, <2>2, OnlyList
<1>2. SUFFICES ASSUME NEW Q, Q = [e \in st |-> LinkedList(e, nx, tl)]
               PROVE  Laid(Q, st, val, nx, tl, rq)
  BY <1>1
<1>3. \A e \in st : Q[e] = P[e]
  BY <1>1, <1>2
<1> QED
  BY <1>3 DEF Laid

\* Different entries of the table: N at most.
LEMMA DistinctEntries ==
    ASSUME NEW p \in Seq(Entries),
           \A i, j \in 1 .. Len(p) : p[i] = p[j] => i = j
    PROVE  Len(p) <= N
<1>1. Len(p) \in Nat /\ p \in [1 .. Len(p) -> Entries]
  BY LenProperties
<1>2. p \in Injection(1 .. Len(p), Entries)
  BY <1>1 DEF Injection, IsInjective
<1>3. IsFiniteSet(Entries) /\ Cardinality(Entries) = N
  <2>1. /\ IsFiniteSet(0 .. N - 1)
        /\ Cardinality(0 .. N - 1) =
              IF 0 > N - 1 THEN 0 ELSE (N - 1) - 0 + 1
    BY FS_Interval, NAssumption
  <2> QED
    BY <2>1, NAssumption DEF Entries
<1>4. Cardinality(1 .. Len(p)) <= N
  BY <1>2, <1>3, FS_Injection
<1>5. Cardinality(1 .. Len(p)) = IF 1 > Len(p) THEN 0 ELSE Len(p) - 1 + 1
  BY <1>1, FS_Interval
<1> QED
  BY <1>1, <1>4, <1>5, NAssumption

\* A new list of one entry that was free.
LEMMA LaidAlloc ==
    ASSUME NEW P, NEW st, NEW val, NEW nx, NEW tl, NEW rq, NEW rq2,
           Laid(P, st, val, nx, tl, rq), val \subseteq Entries,
           NEW n \in Entries \ val, \A e \in val : rq2[e] = rq[e],
           NEW Q, \A e \in st \cup {n} : Q[e] = IF e = n THEN <<n>> ELSE P[e]
    PROVE  Laid(Q, st \cup {n}, val \cup {n}, nx, tl \cup {n}, rq2)
<1>1. st \subseteq val /\ n \notin st
  BY StartsListed
<1>a. Q[n] = <<n>>
  OBVIOUS
<1>2. Q[n] = <<n>> /\ Len(Q[n]) = 1 /\ Q[n][1] = n /\ 1 .. Len(Q[n]) = {1}
  BY <1>a
<1>3. \A e \in st : Q[e] = P[e]
  BY <1>1
<1>4. \A e \in st : \A i \in 1 .. Len(P[e]) : P[e][i] \in val /\ P[e][i] # n
  BY DEF Laid
<1>5. ASSUME NEW e \in st PROVE IsList(P[e], e, nx, tl \cup {n})
  <2>1. IsList(P[e], e, nx, tl)
    BY DEF Laid
  <2>2. \A i \in 1 .. Len(P[e]) - 1 : P[e][i] # n
    BY <1>4, <2>1, NAssumption DEF IsList
  <2> QED
    BY <2>1, <2>2 DEF IsList
<1>6. IsList(Q[n], n, nx, tl \cup {n})
  BY <1>2, NAssumption DEF IsList
<1>7. \A e \in st \cup {n} : IsList(Q[e], e, nx, tl \cup {n})
  BY <1>3, <1>5, <1>6
<1>8. \A e \in st \cup {n} : \A i \in 1 .. Len(Q[e]) :
          Q[e][i] \in val \cup {n} /\ rq2[Q[e][i]].line = rq2[e].line
  <2>1. ASSUME NEW e \in st, NEW i \in 1 .. Len(P[e])
        PROVE  P[e][i] \in val /\ rq2[P[e][i]].line = rq2[e].line
    <3>1. P[e][i] \in val /\ rq[P[e][i]].line = rq[e].line
      BY DEF Laid
    <3> QED
      BY <1>1, <3>1
  <2> QED
    BY <1>2, <1>3, <2>1
<1>9. \A f \in val \cup {n} : \E e \in st \cup {n} : \E i \in 1 .. Len(Q[e]) : Q[e][i] = f
  <2>1. ASSUME NEW f \in val
        PROVE  \E e \in st : \E i \in 1 .. Len(Q[e]) : Q[e][i] = f
    BY <1>3 DEF Laid
  <2> QED
    BY <1>2, <2>1
<1>10. ASSUME NEW e \in st \cup {n}, NEW f \in st \cup {n},
              NEW i \in 1 .. Len(Q[e]), NEW j \in 1 .. Len(Q[f]), Q[e][i] = Q[f][j]
       PROVE  e = f /\ i = j
  <2>1. CASE e \in st /\ f \in st
    BY <1>3, <1>10, <2>1 DEF Laid
  <2>2. CASE e = n /\ f = n
    BY <1>2, <2>2
  <2>3. CASE (e = n) # (f = n)
    BY <1>2, <1>3, <1>4, <1>10, <2>3
  <2> QED
    BY <2>1, <2>2, <2>3
<1> QED
  BY <1>7, <1>8, <1>9, <1>10 DEF Laid

\* An entry that was free is linked behind the tail t of the list of s.
LEMMA LaidLink ==
    ASSUME NEW P, NEW st, NEW val, NEW nx, NEW tl, NEW rq, NEW nx2, NEW rq2,
           Laid(P, st, val, nx, tl, rq), val \subseteq Entries,
           NEW n \in Entries \ val,
           NEW s \in st, NEW t, t = P[s][Len(P[s])],
           \A e \in val : nx2[e] = IF e = t THEN n ELSE nx[e],
           \A e \in val : rq2[e] = rq[e], rq2[n].line = rq[t].line,
           NEW Q, \A e \in st : Q[e] = IF e = s THEN Append(P[s], n) ELSE P[e]
    PROVE  Laid(Q, st, val \cup {n}, nx2, (tl \ {t}) \cup {n}, rq2)
<1> DEFINE tl2 == (tl \ {t}) \cup {n}
<1> DEFINE k == Len(P[s])
<1>1. st \subseteq val
  BY StartsListed
<1>2. /\ k \in Nat /\ k \in 1 .. k /\ 1 \in 1 .. k /\ P[s][1] = s
      /\ P[s] \in Seq(Entries) /\ t \in tl
      /\ \A i \in 1 .. k : P[s][i] \in tl => i = k
  BY ListEnds DEF Laid, IsList
<1>3. t \in val
  BY <1>2 DEF Laid
<1>4. /\ Q[s] \in Seq(Entries) /\ Len(Q[s]) = k + 1
      /\ \A i \in 1 .. k : Q[s][i] = P[s][i]
      /\ Q[s][k + 1] = n
  <2>1. Q[s] = Append(P[s], n)
    OBVIOUS
  <2> QED
    BY <1>2, <2>1, AppendProperties
<1>5. \A e \in st : e # s => Q[e] = P[e]
  OBVIOUS
<1>6. \A e \in st : \A i \in 1 .. Len(P[e]) : P[e][i] \in val /\ P[e][i] # n
  BY DEF Laid
<1>7. \A e \in st : \A i \in 1 .. Len(P[e]) : P[e][i] = t => e = s /\ i = k
  BY <1>2 DEF Laid
<1>8. ASSUME NEW e \in st, NEW f \in st,
             NEW i \in 1 .. Len(Q[e]), NEW j \in 1 .. Len(Q[f]), Q[e][i] = Q[f][j]
      PROVE  e = f /\ i = j
  <2>1. ASSUME NEW a \in st, NEW l \in 1 .. Len(Q[a])
        PROVE  \/ a = s /\ l = k + 1 /\ Q[a][l] = n
               \/ l \in 1 .. Len(P[a]) /\ Q[a][l] = P[a][l] /\ Q[a][l] # n
    <3>1. CASE a = s
      <4>1. l = k + 1 \/ l \in 1 .. k
        BY <1>2, <1>4, <3>1
      <4> QED
        BY <1>4, <1>6, <3>1, <4>1
    <3>2. CASE a # s
      BY <1>5, <1>6, <3>2
    <3> QED
      BY <3>1, <3>2
  <2>2. \/ e = s /\ i = k + 1 /\ Q[e][i] = n
        \/ i \in 1 .. Len(P[e]) /\ Q[e][i] = P[e][i] /\ Q[e][i] # n
    BY <2>1
  <2>3. \/ f = s /\ j = k + 1 /\ Q[f][j] = n
        \/ j \in 1 .. Len(P[f]) /\ Q[f][j] = P[f][j] /\ Q[f][j] # n
    BY <2>1
  <2> QED
    BY <1>8, <2>2, <2>3 DEF Laid
<1>9. IsList(Q[s], s, nx2, tl2)
  <2>1. Len(Q[s]) <= N
    <3>1. \A i, j \in 1 .. Len(Q[s]) : Q[s][i] = Q[s][j] => i = j
      BY <1>8
    <3>2. Q[s] \in Seq(Entries)
      BY <1>4
    <3> QED
      BY <3>1, <3>2, DistinctEntries
  <2>2. Len(Q[s]) \in 1 .. N
    <3> HIDE DEF k
    <3> QED
      BY <1>2, <1>4, <2>1, NAssumption
  <2>3. Q[s][1] = s
    BY <1>2, <1>4
  <2>4. ASSUME NEW i \in 1 .. Len(Q[s]) - 1
        PROVE  Q[s][i] \notin tl2 /\ Q[s][i + 1] = nx2[Q[s][i]]
    <3>1. i \in 1 .. k /\ Q[s][i] = P[s][i] /\ P[s][i] \in val /\ P[s][i] # n
      BY <1>2, <1>4, <1>6, <2>4
    <3>2. CASE i = k
      BY <1>3, <1>4, <3>1, <3>2
    <3>3. CASE i # k
      <4>1. i \in 1 .. k - 1 /\ i + 1 \in 1 .. k
        BY <1>2, <3>1, <3>3
      <4>2. P[s][i] \notin tl /\ P[s][i + 1] = nx[P[s][i]]
        BY <4>1 DEF Laid, IsList
      <4>3. P[s][i] # t
        BY <1>2, <4>2
      <4>4. nx2[P[s][i]] = nx[P[s][i]]
        BY <3>1, <4>3
      <4>5. Q[s][i + 1] = P[s][i + 1]
        BY <1>4, <4>1
      <4> HIDE DEF k
      <4> QED
        BY <3>1, <4>2, <4>3, <4>4, <4>5
    <3> QED
      BY <3>2, <3>3
  <2>5. Q[s][Len(Q[s])] \in tl2
    BY <1>4
  <2> HIDE DEF tl2
  <2> QED
    BY <1>4, <2>2, <2>3, <2>4, <2>5 DEF IsList
<1>10. ASSUME NEW e \in st, e # s PROVE IsList(Q[e], e, nx2, tl2)
  <2>1. IsList(P[e], e, nx, tl)
    BY DEF Laid
  <2>2. /\ Len(P[e]) \in Nat /\ Len(P[e]) \in 1 .. Len(P[e])
    BY <2>1, ListEnds
  <2>3. \A i \in 1 .. Len(P[e]) : P[e][i] \in val /\ P[e][i] # n /\ P[e][i] # t
    BY <1>6, <1>7, <1>10
  <2>4. \A i \in 1 .. Len(P[e]) - 1 :
            P[e][i] \notin tl2 /\ P[e][i + 1] = nx2[P[e][i]]
    <3> SUFFICES ASSUME NEW i \in 1 .. Len(P[e]) - 1
                 PROVE  P[e][i] \notin tl2 /\ P[e][i + 1] = nx2[P[e][i]]
      OBVIOUS
    <3>1. i \in 1 .. Len(P[e])
      BY <2>2
    <3>2. P[e][i] \notin tl /\ P[e][i + 1] = nx[P[e][i]]
      BY <2>1 DEF IsList
    <3> QED
      BY <2>3, <3>1, <3>2
  <2>5. P[e][Len(P[e])] \in tl2
    BY <2>1, <2>2, <2>3 DEF IsList
  <2>6. Q[e] = P[e]
    BY <1>10
  <2> HIDE DEF tl2
  <2> QED
    BY <2>1, <2>4, <2>5, <2>6 DEF IsList
<1>11. ASSUME NEW e \in st, NEW i \in 1 .. Len(Q[e])
       PROVE  Q[e][i] \in val \cup {n} /\ rq2[Q[e][i]].line = rq2[e].line
  <2>1. \A j \in 1 .. Len(P[e]) :
            P[e][j] \in val \cup {n} /\ rq2[P[e][j]].line = rq2[e].line
    <3> SUFFICES ASSUME NEW j \in 1 .. Len(P[e])
                 PROVE  P[e][j] \in val \cup {n} /\ rq2[P[e][j]].line = rq2[e].line
      OBVIOUS
    <3>1. P[e][j] \in val /\ rq[P[e][j]].line = rq[e].line
      BY DEF Laid
    <3> QED
      BY <1>1, <3>1
  <2>2. CASE e # s
    BY <1>5, <2>1, <2>2
  <2>3. CASE e = s
    <3>1. CASE i \in 1 .. k
      BY <1>4, <2>1, <2>3, <3>1
    <3>2. CASE i = k + 1
      <4>1. rq[t].line = rq[s].line
        BY <1>2 DEF Laid
      <4> QED
        BY <1>1, <1>4, <2>3, <3>2, <4>1
    <3> QED
      BY <1>2, <1>4, <2>3, <3>1, <3>2
  <2> QED
    BY <2>2, <2>3
<1>12. ASSUME NEW f \in val \cup {n}
       PROVE  \E e \in st : \E i \in 1 .. Len(Q[e]) : Q[e][i] = f
  <2>1. CASE f = n
    <3>1. k + 1 \in 1 .. Len(Q[s])
      BY <1>2, <1>4
    <3> QED
      BY <1>4, <2>1, <3>1
  <2>2. CASE f \in val
    <3>1. PICK e \in st : \E i \in 1 .. Len(P[e]) : P[e][i] = f
      BY <2>2 DEF Laid
    <3>2. PICK i \in 1 .. Len(P[e]) : P[e][i] = f
      BY <3>1
    <3>3. i \in 1 .. Len(Q[e]) /\ Q[e][i] = P[e][i]
      BY <1>2, <1>4, <1>5
    <3> QED
      BY <3>2, <3>3
  <2> QED
    BY <2>1, <2>2
<1>13. \A e \in st : IsList(Q[e], e, nx2, tl2)
  BY <1>9, <1>10
<1> QED
  BY <1>8, <1>11, <1>12, <1>13 DEF Laid

\* A list of one entry leaves.
LEMMA LaidLast ==
    ASSUME NEW P, NEW st, NEW val, NEW nx, NEW tl, NEW rq,
           Laid(P, st, val, nx, tl, rq), NEW s \in st, s \in tl
    PROVE  /\ Laid(P, st \ {s}, val \ {s}, nx, tl, rq)
           /\ Len(P[s]) = 1
<1>1. Len(P[s]) = 1 /\ P[s][1] = s /\ 1 .. Len(P[s]) = {1}
  <2>1. /\ 1 \in 1 .. Len(P[s]) /\ P[s][1] = s
        /\ \A i \in 1 .. Len(P[s]) : P[s][i] \in tl => i = Len(P[s])
    BY ListEnds DEF Laid
  <2>2. Len(P[s]) = 1
    BY <2>1
  <2> QED
    BY <2>1, <2>2
<1>2. ASSUME NEW e \in st \ {s}, NEW i \in 1 .. Len(P[e])
      PROVE  P[e][i] \in val \ {s} /\ rq[P[e][i]].line = rq[e].line
  <2>1. P[e][i] # s
    BY <1>1 DEF Laid
  <2> QED
    BY <2>1 DEF Laid
<1>3. ASSUME NEW f \in val \ {s}
      PROVE  \E e \in st \ {s} : \E i \in 1 .. Len(P[e]) : P[e][i] = f
  <2>1. PICK e \in st : \E i \in 1 .. Len(P[e]) : P[e][i] = f
    BY DEF Laid
  <2> QED
    BY <1>1, <2>1
<1> QED
  BY <1>1, <1>2, <1>3 DEF Laid

\* Q is P without the first entry of the list of s, of which m is the next.
Popping(Q, P, st, s, m) ==
    \A e \in (st \ {s}) \cup {m} : Q[e] = IF e = m THEN Tail(P[s]) ELSE P[e]

\* The first of several entries leaves.
LEMMA LaidPop ==
    ASSUME NEW P, NEW st, NEW val, NEW nx, NEW tl, NEW rq,
           Laid(P, st, val, nx, tl, rq), NEW s, s \in st, s \notin tl,
           NEW m, m = nx[s],
           NEW Q, Popping(Q, P, st, s, m)
    PROVE  /\ m \notin st
           /\ Laid(Q, (st \ {s}) \cup {m}, val \ {s}, nx, tl, rq)
<1> USE DEF Popping
<1> DEFINE k == Len(P[s])
<1>1. /\ k \in Nat /\ 1 \in 1 .. k /\ k \in 1 .. k /\ P[s][1] = s
      /\ P[s] \in Seq(Entries) /\ P[s][k] \in tl
      /\ \A i \in 1 .. k : P[s][i] \in tl => i = k
  BY ListEnds DEF Laid, IsList
<1>2. k # 1
  BY <1>1
<1>3. 1 \in 1 .. k - 1 /\ 2 \in 1 .. k
  BY <1>1, <1>2
<1>4. m = P[s][2]
  <2>1. P[s][1 + 1] = nx[P[s][1]]
    BY <1>3 DEF Laid, IsList
  <2> QED
    BY <1>1, <2>1
<1>5. m \notin st
  <2> SUFFICES ASSUME m \in st PROVE FALSE
    OBVIOUS
  <2>1. 1 \in 1 .. Len(P[m]) /\ P[m][1] = m
    BY StartsListed
  <2> QED
    BY <1>3, <1>4, <2>1 DEF Laid
<1>6. P[s] # <<>>
  BY <1>1
<1>7. /\ Q[m] \in Seq(Entries) /\ Len(Q[m]) = k - 1
      /\ \A i \in 1 .. k - 1 : Q[m][i] = P[s][i + 1]
  <2>1. Q[m] = Tail(P[s])
    OBVIOUS
  <2> QED
    BY <1>1, <1>6, <2>1, HeadTailProperties
<1>8. \A e \in st \ {s} : Q[e] = P[e]
  BY <1>5
<1>9. IsList(Q[m], m, nx, tl)
  <2>1. k - 1 \in 1 .. N
    <3>1. k \in 1 .. N
      BY DEF Laid, IsList
    <3> HIDE DEF k
    <3> QED
      BY <1>1, <1>3, <3>1, NAssumption
  <2>2. Q[m][1] = m
    BY <1>3, <1>4, <1>7
  <2>3. ASSUME NEW i \in 1 .. (k - 1) - 1
        PROVE  Q[m][i] \notin tl /\ Q[m][i + 1] = nx[Q[m][i]]
    <3>1. i \in 1 .. k - 1 /\ i + 1 \in 1 .. k - 1
      BY <1>1
    <3>2. P[s][i + 1] \notin tl /\ P[s][(i + 1) + 1] = nx[P[s][i + 1]]
      BY <3>1 DEF Laid, IsList
    <3>3. Q[m][i] = P[s][i + 1] /\ Q[m][i + 1] = P[s][(i + 1) + 1]
      BY <1>7, <3>1
    <3> QED
      BY <3>2, <3>3
  <2>4. Q[m][k - 1] \in tl
    <3>1. k - 1 \in 1 .. k - 1 /\ (k - 1) + 1 = k
      BY <1>1, <1>3
    <3>2. Q[m][k - 1] = P[s][(k - 1) + 1]
      BY <1>7, <3>1
    <3> HIDE DEF k
    <3> QED
      BY <1>1, <3>1, <3>2
  <2> HIDE DEF k
  <2> QED
    BY <1>7, <2>1, <2>2, <2>3, <2>4 DEF IsList
<1>10. \A e \in (st \ {s}) \cup {m} : IsList(Q[e], e, nx, tl)
  BY <1>8, <1>9 DEF Laid
<1>11. ASSUME NEW i \in 1 .. Len(Q[m])
       PROVE  i + 1 \in 1 .. k /\ Q[m][i] = P[s][i + 1]
  BY <1>1, <1>7
<1>12. ASSUME NEW e \in (st \ {s}) \cup {m}, NEW i \in 1 .. Len(Q[e])
       PROVE  Q[e][i] \in val \ {s} /\ rq[Q[e][i]].line = rq[e].line
  <2>1. CASE e = m
    <3>1. i + 1 \in 1 .. k /\ Q[m][i] = P[s][i + 1] /\ i + 1 # 1
      BY <1>11, <2>1
    <3>2. rq[P[s][i + 1]].line = rq[s].line /\ rq[m].line = rq[s].line
      BY <1>3, <1>4, <3>1 DEF Laid
    <3>3. P[s][i + 1] \in val /\ P[s][i + 1] # s
      BY <1>1, <3>1 DEF Laid
    <3> QED
      BY <2>1, <3>1, <3>2, <3>3
  <2>2. CASE e \in st \ {s}
    <3>1. Q[e] = P[e] /\ i \in 1 .. Len(P[e])
      BY <1>8, <2>2
    <3>2. P[e][i] \in val /\ rq[P[e][i]].line = rq[e].line
      BY <2>2, <3>1 DEF Laid
    <3>3. P[e][i] # s
      BY <1>1, <2>2, <3>1 DEF Laid
    <3> QED
      BY <3>1, <3>2, <3>3
  <2> QED
    BY <2>1, <2>2
<1>13. ASSUME NEW f \in val \ {s}
       PROVE  \E e \in (st \ {s}) \cup {m} : \E i \in 1 .. Len(Q[e]) : Q[e][i] = f
  <2>1. PICK e \in st : \E i \in 1 .. Len(P[e]) : P[e][i] = f
    BY DEF Laid
  <2>2. PICK i \in 1 .. Len(P[e]) : P[e][i] = f
    BY <2>1
  <2>3. CASE e = s
    <3>0. i \in 1 .. k /\ P[s][i] = f
      BY <2>2, <2>3
    <3>1. i # 1
      BY <1>1, <3>0
    <3>2. i - 1 \in 1 .. k - 1 /\ (i - 1) + 1 = i
      <4> HIDE DEF k
      <4> QED
        BY <1>1, <3>0, <3>1
    <3>3. Q[m][i - 1] = P[s][(i - 1) + 1] /\ i - 1 \in 1 .. Len(Q[m])
      BY <1>7, <3>2
    <3>4. Q[m][i - 1] = f
      BY <3>0, <3>2, <3>3
    <3> QED
      BY <3>3, <3>4
  <2>4. CASE e # s
    BY <1>8, <2>2, <2>4
  <2> QED
    BY <2>3, <2>4
<1>14. ASSUME NEW e \in (st \ {s}) \cup {m}, NEW f \in (st \ {s}) \cup {m},
              NEW i \in 1 .. Len(Q[e]), NEW j \in 1 .. Len(Q[f]), Q[e][i] = Q[f][j]
       PROVE  e = f /\ i = j
  <2>1. CASE e \in st \ {s} /\ f \in st \ {s}
    BY <1>8, <1>14, <2>1 DEF Laid
  <2>2. CASE e = m /\ f = m
    <3>1. i + 1 = j + 1
      BY <1>11, <1>14, <2>2 DEF Laid
    <3> QED
      BY <1>1, <1>7, <2>2, <3>1
  <2>3. CASE e = m /\ f \in st \ {s}
    BY <1>8, <1>11, <1>14, <2>3 DEF Laid
  <2>4. CASE e \in st \ {s} /\ f = m
    BY <1>8, <1>11, <1>14, <2>4 DEF Laid
  <2> QED
    BY <2>1, <2>2, <2>3, <2>4
<1> QED
  BY <1>3, <1>4, <1>5, <1>6, <1>10, <1>12, <1>13, <1>14 DEF Laid

\* The lists of the table, by the entry they start with.
Lists == [e \in Starts |-> Chain(e)]

\* The lists hold the entries in use, each one once.
AllListed == Laid(Lists, Starts, valid, nextq, tailq, req)

\* A layout of the registers after a step is the one of the linked lists.
LEMMA ListedNext ==
    ASSUME TypeOK', NEW Q, Laid(Q, Starts', valid', nextq', tailq', req')
    PROVE  AllListed' /\ \A e \in Starts' : Lists'[e] = Q[e]
<1>1. nextq' \in [Entries -> Entries] /\ valid' \subseteq Entries
  BY DEF TypeOK
<1>2. /\ \A e \in Starts' : LinkedList(e, nextq', tailq') = Q[e]
      /\ Laid([e \in Starts' |-> LinkedList(e, nextq', tailq')], Starts', valid',
              nextq', tailq', req')
  BY <1>1, LaidIsLinked
<1>3. Lists' = [e \in Starts' |-> LinkedList(e, nextq', tailq')]
  BY DEF Lists, Chain
<1>4. AllListed'
  BY <1>2, <1>3 DEF AllListed
<1> QED
  BY <1>2, <1>3, <1>4

\* Entries that start a list before and after a step.
LEMMA StartsStep ==
    ASSUME RtabInv, [Next]_rtabVars
    PROVE  /\ Pass \/ Rollback \/ Wake \/ WakeFence \/ UNCHANGED rtabVars =>
                 Starts' = Starts
           /\ Alloc => Starts' = Starts \cup {FreeEntry}
           /\ Link => Starts' = Starts
           /\ Commit =>
                 Starts' = (Starts \ {st1.ptr}) \cup
                           (IF st1.ptr \in tailq THEN {} ELSE {nextq[st1.ptr]})
<1> USE DEF RtabInv, ListsWellFormed
<1>1. headq \subseteq valid /\ Popped \subseteq valid \ headq /\ Starts = headq \cup Popped
  BY DEF LinksWellFormed, Starts
<1>2. ListsWellFormed'
  BY ListsStep
<1>3. headq' \subseteq valid' /\ Starts' = headq' \cup Popped'
  BY <1>2 DEF LinksWellFormed, Starts
<1>4. ASSUME Pass PROVE Starts' = Starts
  <2>1. ~Replayed /\ Stage0(FALSE, headq)
    BY <1>4 DEF Pass, Core, Replayed
  <2>2. CASE Idle(headq)
    <3>1. ~Replayed' /\ headq' = headq /\ popNext' = popNext
      BY <2>2, Stage1After DEF Idle
    <3>2. popState' = "HEAD" <=> popState = "HEAD"
      BY <2>1, <2>2 DEF Idle, TypeOK, PopFollowsStage1
    <3> QED
      BY <1>1, <1>3, <2>1, <3>1, <3>2 DEF Popped
  <2>3. ASSUME NEW e \in PopSel, PopTry(e, headq) PROVE Starts' = Starts
    <3>1. e \in valid /\ valid \subseteq Entries
      BY PopSelFacts DEF TypeOK
    <3>2. Popped' = {e} /\ headq' = headq \ {e}
      BY <2>3, <3>1, Stage1After DEF Popped, PopTry
    <3>3. Popped \cup {e} \subseteq headq \cup {e} /\ (e \in headq \/ Popped = {e})
      BY <2>1, <2>3 DEF Popped, PopSel, ready
    <3> QED
      BY <1>1, <1>3, <3>2, <3>3
  <2>4. CASE TakeCore(headq)
    <3>1. ~Replayed' /\ headq' = headq /\ popState' = "HEAD" /\ popState = "HEAD"
      BY <2>4, Stage1After DEF TakeCore, CoreReady, PopValid
    <3> QED
      BY <1>1, <1>3, <2>1, <3>1 DEF Popped
  <2> QED
    BY <2>1, <2>2, <2>3, <2>4 DEF Stage0
<1>5. ASSUME Rollback PROVE Starts' = Starts
  <2>1. Replayed /\ ~Replayed' /\ popState' = "HEAD" /\ headq' = headq \cup {st1.ptr}
    BY <1>5 DEF Rollback, Replayed, PopFollowsStage1
  <2> QED
    BY <1>1, <1>3, <2>1 DEF Popped
<1>6. ASSUME Wake \/ WakeFence \/ UNCHANGED rtabVars PROVE Starts' = Starts
  BY <1>6 DEF Wake, WakeFence, rtabVars, Starts, Popped, Replayed
<1>7. ASSUME Alloc PROVE Starts' = Starts \cup {FreeEntry}
  <2>1. Popped = {} /\ Popped' = {}
    BY <1>7, HoldFacts
  <2>2. headq' = headq \cup {FreeEntry}
    BY <1>7 DEF Alloc, Stage0, Idle
  <2> QED
    BY <1>1, <1>3, <2>1, <2>2
<1>8. ASSUME Link PROVE Starts' = Starts
  <2>1. Popped = {} /\ Popped' = {} /\ FreeEntry \notin valid
    BY <1>8, HoldFacts
  <2>2. headq' = headq \ {FreeEntry}
    BY <1>8 DEF Link, Stage0, Idle
  <2> QED
    BY <1>1, <1>3, <2>1, <2>2
<1>9. ASSUME Commit
      PROVE  Starts' = (Starts \ {st1.ptr}) \cup
                       (IF st1.ptr \in tailq THEN {} ELSE {nextq[st1.ptr]})
  <2>1. /\ Replayed /\ Stage0(FALSE, headq) /\ Popped = {st1.ptr}
        /\ popState = IF st1.ptr \in tailq THEN "HEAD" ELSE "NEXT"
        /\ popState = "NEXT" => popNext = nextq[st1.ptr]
    BY <1>9 DEF Commit, Popped, PopFollowsStage1
  <2>2. Starts \ {st1.ptr} = headq
    BY <1>1, <2>1
  <2>3. CASE Idle(headq)
    <3>1. ~Replayed' /\ headq' = headq /\ popNext' = popNext
      BY <2>3, Stage1After DEF Idle
    <3>2. popState' = IF st1.ptr \in tailq THEN "HEAD" ELSE "NEXT_WAIT"
      BY <2>1, <2>3 DEF Idle
    <3> QED
      BY <1>3, <2>1, <2>2, <3>1, <3>2 DEF Popped
  <2>4. ASSUME NEW e \in PopSel, PopTry(e, headq)
        PROVE  Starts' = headq \cup
                         (IF st1.ptr \in tailq THEN {} ELSE {nextq[st1.ptr]})
    <3>1. e \in valid /\ valid \subseteq Entries
      BY PopSelFacts DEF TypeOK
    <3>2. Popped' = {e} /\ headq' = headq \ {e}
      BY <2>4, <3>1, Stage1After DEF Popped, PopTry
    <3>3. IF st1.ptr \in tailq THEN e \in headq ELSE e = nextq[st1.ptr]
      BY <2>1 DEF PopSel, ready
    <3> QED
      BY <1>3, <3>2, <3>3
  <2>5. CASE TakeCore(headq)
    <3>1. ~Replayed' /\ headq' = headq /\ popState' = "HEAD" /\ popState = "HEAD"
      BY <2>5, Stage1After DEF TakeCore, CoreReady, PopValid
    <3> QED
      BY <1>3, <2>1, <2>2, <3>1 DEF Popped
  <2> QED
    BY <2>1, <2>2, <2>3, <2>4, <2>5 DEF Stage0
<1> QED
  BY <1>4, <1>5, <1>6, <1>7, <1>8, <1>9

\* What a step does to the lists when it allocates nothing and commits nothing.
LEMMA ListedSame ==
    ASSUME RtabInv, AllListed, TypeOK', Starts' = Starts,
           UNCHANGED <<valid, nextq, tailq, req>>
    PROVE  AllListed' /\ \A e \in Starts' : Lists'[e] = Lists[e]
<1> SUFFICES ASSUME NEW P, P = Lists
             PROVE  AllListed' /\ \A e \in Starts' : Lists'[e] = P[e]
  OBVIOUS
<1>1. Laid(P, Starts', valid', nextq', tailq', req')
  BY DEF AllListed
<1> QED
  BY <1>1, ListedNext

\* alloc_i adds a list of one entry.
LEMMA ListedAlloc ==
    ASSUME RtabInv, AllListed, TypeOK', Alloc, Starts' = Starts \cup {FreeEntry}
    PROVE  /\ AllListed'
           /\ FreeEntry \notin Starts
           /\ Lists'[FreeEntry] = <<FreeEntry>>
           /\ \A e \in Starts : Lists'[e] = Lists[e]
<1> SUFFICES ASSUME NEW P, P = Lists, NEW n, n = FreeEntry
             PROVE  /\ AllListed' /\ n \notin Starts /\ Lists'[n] = <<n>>
                    /\ \A e \in Starts : Lists'[e] = P[e]
  OBVIOUS
<1>1. n \in Entries \ valid /\ valid \subseteq Entries
  BY HoldFacts DEF RtabInv, TypeOK
<1>2. /\ valid' = valid \cup {n} /\ tailq' = tailq \cup {n} /\ nextq' = nextq
      /\ req' = [req EXCEPT ![n] = st1.req]
  BY DEF Alloc
<1>3. \A e \in valid : req'[e] = req[e]
  BY <1>1, <1>2 DEF RtabInv, TypeOK
<1>4. Laid(P, Starts, valid, nextq, tailq, req)
  BY DEF AllListed
<1>5. n \notin Starts
  BY <1>1, <1>4, StartsListed
<1> DEFINE Q == [e \in Starts \cup {n} |-> IF e = n THEN <<n>> ELSE P[e]]
<1>a. \A e \in Starts \cup {n} : Q[e] = IF e = n THEN <<n>> ELSE P[e]
  OBVIOUS
<1> HIDE DEF Q
<1>6. Laid(Q, Starts \cup {n}, valid \cup {n}, nextq, tailq \cup {n}, req')
  BY <1>1, <1>3, <1>4, <1>a, LaidAlloc
<1>7. Laid(Q, Starts', valid', nextq', tailq', req')
  BY <1>2, <1>6
<1>8. AllListed' /\ \A e \in Starts' : Lists'[e] = Q[e]
  BY <1>7, ListedNext
<1> QED
  BY <1>5, <1>8, <1>a

\* alloc_and_link_i appends the new entry to the one list of its line.
LEMMA ListedLink ==
    ASSUME RtabInv, AllListed, TypeOK', Link, Starts' = Starts
    PROVE  /\ AllListed'
           /\ \E s \in Starts :
                 /\ req[s].line = st1.req.line
                 /\ Lists'[s] = Append(Lists[s], FreeEntry)
                 /\ \A e \in Starts : e # s => Lists'[e] = Lists[e]
<1> SUFFICES ASSUME NEW P, P = Lists, NEW n, n = FreeEntry
             PROVE  /\ AllListed'
                    /\ \E s \in Starts :
                          /\ req[s].line = st1.req.line
                          /\ Lists'[s] = Append(P[s], n)
                          /\ \A e \in Starts : e # s => Lists'[e] = P[e]
  OBVIOUS
<1> DEFINE old == CheckTail(st1.req.line)
<1>1. n \in Entries \ valid /\ valid \subseteq Entries /\ Core
  BY HoldFacts DEF RtabInv, TypeOK
<1>2. /\ valid' = valid \cup {n} /\ tailq' = (tailq \ old) \cup {n}
      /\ nextq' = [e \in Entries |-> IF e \in old THEN n ELSE nextq[e]]
      /\ req' = [req EXCEPT ![n] = st1.req] /\ Conflict
  BY DEF Link
<1>3. (\A e \in valid : req'[e] = req[e]) /\ req'[n] = st1.req
  BY <1>1, <1>2 DEF RtabInv, TypeOK
<1>4. Laid(P, Starts, valid, nextq, tailq, req)
  BY DEF AllListed
<1>5. PICK f \in valid : req[f].line = st1.req.line
  BY <1>2 DEF Conflict, CheckHit
<1>6. PICK s \in Starts : \E i \in 1 .. Len(P[s]) : P[s][i] = f
  BY <1>4, <1>5 DEF Laid
<1>7. req[s].line = st1.req.line
  BY <1>4, <1>5, <1>6 DEF Laid
<1> DEFINE t == P[s][Len(P[s])]
<1> DEFINE Q == [e \in Starts |-> IF e = s THEN Append(P[s], n) ELSE P[e]]
<1>a. \A e \in Starts : Q[e] = IF e = s THEN Append(P[s], n) ELSE P[e]
  OBVIOUS
<1> HIDE DEF Q
<1>8. Len(P[s]) \in 1 .. Len(P[s]) /\ t \in tailq
  BY <1>4, ListEnds DEF Laid
<1>9. t \in valid /\ req[t].line = st1.req.line
  BY <1>4, <1>7, <1>8 DEF Laid
<1>10. t \in old
  BY <1>8, <1>9 DEF CheckTail, CheckHit
<1>11. \A e, g \in old : e = g
  BY <1>1 DEF RtabInv, FenceAlone, ListsWellFormed, OneTail, CheckTail, CheckHit
<1>12. old = {t}
  <2> HIDE DEF old
  <2> QED
    BY <1>10, <1>11
<1> HIDE DEF old, t
<1>13. /\ \A e \in valid : nextq'[e] = IF e = t THEN n ELSE nextq[e]
       /\ tailq' = (tailq \ {t}) \cup {n}
       /\ req'[n].line = req[t].line
  BY <1>1, <1>2, <1>3, <1>9, <1>12
<1>14. Laid(Q, Starts, valid \cup {n}, nextq', (tailq \ {t}) \cup {n}, req')
  BY <1>1, <1>3, <1>4, <1>13, <1>a, LaidLink DEF t
<1>15. Laid(Q, Starts', valid', nextq', tailq', req')
  BY <1>2, <1>13, <1>14
<1>16. AllListed' /\ \A e \in Starts : Lists'[e] = Q[e]
  BY <1>15, ListedNext
<1> QED
  <2>1. Lists'[s] = Append(P[s], n) /\ \A e \in Starts : e # s => Lists'[e] = P[e]
    BY <1>16, <1>a
  <2> QED
    BY <1>7, <1>16, <2>1, Zenon

\* pop_commit_i removes the first entry of the list that is being popped.
LEMMA ListedCommit ==
    ASSUME RtabInv, AllListed, TypeOK', Commit,
           Starts' = (Starts \ {st1.ptr}) \cup
                     (IF st1.ptr \in tailq THEN {} ELSE {nextq[st1.ptr]})
    PROVE  /\ AllListed'
           /\ st1.ptr \in Starts
           /\ \A e \in Starts : e # st1.ptr => Lists'[e] = Lists[e]
           /\ st1.ptr \in tailq => Len(Lists[st1.ptr]) = 1
           /\ st1.ptr \notin tailq =>
                 /\ nextq[st1.ptr] \notin Starts
                 /\ req[nextq[st1.ptr]].line = req[st1.ptr].line
                 /\ Lists'[nextq[st1.ptr]] = Tail(Lists[st1.ptr])
<1> SUFFICES ASSUME NEW P, P = Lists, NEW p, p = st1.ptr, NEW m, m = nextq[p]
             PROVE  /\ AllListed'
                    /\ p \in Starts
                    /\ \A e \in Starts : e # p => Lists'[e] = P[e]
                    /\ p \in tailq => Len(P[p]) = 1
                    /\ p \notin tailq =>
                          /\ m \notin Starts
                          /\ req[m].line = req[p].line
                          /\ Lists'[m] = Tail(P[p])
  OBVIOUS
<1>1. Laid(P, Starts, valid, nextq, tailq, req)
  BY DEF AllListed
<1>2. p \in Starts
  BY DEF Commit, Starts, Popped
<1>3. valid' = valid \ {p} /\ tailq' = tailq /\ nextq' = nextq /\ req' = req
  BY DEF Commit
<1>4. CASE p \in tailq
  <2>1. Starts' = Starts \ {p}
    BY <1>4
  <2>2. Laid(P, Starts', valid', nextq', tailq', req') /\ Len(P[p]) = 1
    BY <1>1, <1>2, <1>3, <1>4, <2>1, LaidLast
  <2>3. AllListed' /\ \A e \in Starts' : Lists'[e] = P[e]
    BY <2>2, ListedNext
  <2> QED
    BY <1>2, <1>4, <2>1, <2>2, <2>3
<1>5. CASE p \notin tailq
  <2>1. Starts' = (Starts \ {p}) \cup {m}
    BY <1>5
  <2> DEFINE Q == [e \in (Starts \ {p}) \cup {m} |->
                      IF e = m THEN Tail(P[p]) ELSE P[e]]
  <2>a. /\ Popping(Q, P, Starts, p, m) /\ Q[m] = Tail(P[p])
        /\ \A e \in Starts : e # p /\ e # m => Q[e] = P[e]
    BY DEF Popping
  <2> HIDE DEF Q
  <2>2. /\ m \notin Starts
        /\ Laid(Q, (Starts \ {p}) \cup {m}, valid \ {p}, nextq, tailq, req)
    BY <1>1, <1>2, <1>5, <2>a, LaidPop
  <2>3. req[m].line = req[p].line
    BY <1>1, <1>2, <1>5, StartsListed DEF RtabInv, ListsWellFormed, LinksWellFormed
  <2>4. Laid(Q, Starts', valid', nextq', tailq', req')
    BY <1>3, <2>1, <2>2
  <2>5. AllListed' /\ \A e \in Starts' : Lists'[e] = Q[e]
    BY <2>4, ListedNext
  <2> QED
    BY <1>2, <1>5, <2>1, <2>2, <2>3, <2>5, <2>a
<1> QED
  BY <1>4, <1>5

\* Every step keeps the entries in use in the lists.
LEMMA ListedStep ==
    ASSUME RtabInv, AllListed, [Next]_rtabVars
    PROVE  AllListed'
<1>1. TypeOK'
  BY TypeStep
<1>2. CASE Alloc
  BY <1>1, <1>2, StartsStep, ListedAlloc
<1>3. CASE Link
  BY <1>1, <1>3, StartsStep, ListedLink
<1>4. CASE Commit
  BY <1>1, <1>4, StartsStep, ListedCommit
<1>5. CASE Pass \/ Rollback \/ Wake \/ WakeFence \/ UNCHANGED rtabVars
  <2>1. UNCHANGED <<valid, nextq, tailq, req>>
    BY <1>5 DEF Pass, Rollback, Wake, WakeFence, rtabVars
  <2> QED
    BY <1>1, <1>5, <2>1, StartsStep, ListedSame
<1> QED
  BY <1>2, <1>3, <1>4, <1>5 DEF Next

\* The linked lists of the table hold every entry in use exactly once.
THEOREM ListsAreComplete == Spec => []AllListed
<1>1. Init => AllListed
  <2> SUFFICES ASSUME Init PROVE AllListed
    OBVIOUS
  <2>1. Starts = {} /\ valid = {}
    BY DEF Init, Starts, Popped, Replayed
  <2> QED
    BY <2>1 DEF AllListed, Laid
<1>2. RtabInv /\ AllListed /\ [Next]_rtabVars => AllListed'
  BY ListedStep
<1> QED
  BY <1>1, <1>2, RtabInvariant, PTL DEF Spec

\* Every request on hold is in the list of its line exactly once, for any
\* number of entries: no link is made to a tail that is being popped
\* (NoOrphan).
THEOREM NoEntryOrphaned == Spec => []NoOrphan
<1>1. ASSUME AllListed PROVE NoOrphan
  <2> SUFFICES ASSUME NEW P, P = Lists,
                      Laid(P, Starts, valid, nextq, tailq, req)
               PROVE  NoOrphan
    BY <1>1 DEF AllListed
  <2>1. ASSUME NEW e \in Starts
        PROVE  Chain(e) = P[e] /\ DOMAIN Chain(e) = 1 .. Len(P[e])
    <3>1. Chain(e) = P[e]
      BY DEF Lists
    <3>2. P[e] \in Seq(Entries)
      BY DEF Laid, IsList
    <3> QED
      BY <3>1, <3>2, LenProperties
  <2>2. \A e \in Starts : \A i \in DOMAIN Chain(e) :
            Chain(e)[i] \in valid /\ req[Chain(e)[i]].line = req[e].line
    BY <2>1 DEF Laid
  <2>3. \A f \in valid : \E e \in Starts : \E i \in DOMAIN Chain(e) :
            Chain(e)[i] = f
    BY <2>1 DEF Laid
  <2>4. \A e, f \in Starts :
            e # f => \A i \in DOMAIN Chain(e), j \in DOMAIN Chain(f) :
                        Chain(e)[i] # Chain(f)[j]
    BY <2>1 DEF Laid
  <2> QED
    BY <2>2, <2>3, <2>4 DEF NoOrphan
<1> QED
  BY <1>1, ListsAreComplete, PTL
-----------------------------------------------------------------------------
(* The queues the lists stand for.                                           *)

\* A fence whose dependency is cleared has the table for itself.
FenceLast == \A e \in valid : req[e].fence /\ deps[e] # "pend" => valid = {e}

\* Every step keeps a fence last: nothing comes after it, and it is woken when
\* only it is left.
LEMMA FenceLastStep ==
    ASSUME RtabInv, FenceLast, [Next]_rtabVars
    PROVE  FenceLast'
<1> USE DEF FenceLast
<1>1. CASE Pass \/ UNCHANGED rtabVars
  BY <1>1 DEF Pass, rtabVars
<1>2. CASE Commit
  BY <1>2 DEF Commit
<1>3. CASE Alloc
  <2> DEFINE n == FreeEntry
  <2>1. n \in Entries \ valid /\ Core
    BY <1>3, HoldFacts
  <2>2. valid' = valid \cup {n} /\ req' = [req EXCEPT ![n] = st1.req]
    BY <1>3 DEF Alloc
  <2>3. PICK d \in DepsOf(st1.req) : deps' = [deps EXCEPT ![n] = d]
    BY <1>3 DEF Alloc
  <2>4. st1.req.fence => d = "pend"
    BY <2>3 DEF DepsOf
  <2> HIDE DEF n
  <2>5. \A e \in valid : ~req[e].fence
    BY <2>1 DEF RtabInv, FenceAlone
  <2> QED
    BY <2>1, <2>2, <2>3, <2>4, <2>5 DEF RtabInv, TypeOK
<1>4. CASE Link
  <2> DEFINE n == FreeEntry
  <2>1. n \in Entries \ valid /\ Core
    BY <1>4, HoldFacts
  <2>2. valid' = valid \cup {n} /\ req' = [req EXCEPT ![n] = st1.req] /\ ~st1.req.fence
    BY <1>4 DEF Link, Conflict
  <2> HIDE DEF n
  <2>3. \A e \in valid : ~req[e].fence
    BY <2>1 DEF RtabInv, FenceAlone
  <2> QED
    BY <2>1, <2>2, <2>3 DEF RtabInv, TypeOK
<1>5. CASE Rollback
  <2> DEFINE p == st1.ptr
  <2>1. Replayed /\ UNCHANGED <<valid, req>>
    BY <1>5 DEF Rollback
  <2>2. PICK d \in DepsOf(st1.req) : deps' = [deps EXCEPT ![p] = d]
    BY <1>5 DEF Rollback
  <2>3. st1.req.fence => d = "pend"
    BY <2>2 DEF DepsOf
  <2>4. st1.req = req[p]
    BY <2>1 DEF RtabInv, ListsWellFormed, PopFollowsStage1
  <2> HIDE DEF p
  <2>5. ASSUME NEW e \in valid, req[e].fence, deps'[e] # "pend"
        PROVE  deps[e] # "pend"
    BY <2>2, <2>3, <2>4, <2>5 DEF RtabInv, TypeOK
  <2> QED
    BY <2>1, <2>5
<1>6. CASE Wake
  <2>1. UNCHANGED <<valid, req>>
    BY <1>6 DEF Wake
  <2>2. PICK f \in Entries : deps[f] = "wait" /\ deps' = [deps EXCEPT ![f] = "none"]
    BY <1>6 DEF Wake
  <2>3. ASSUME NEW e \in valid, deps'[e] # "pend" PROVE deps[e] # "pend"
    BY <2>2, <2>3 DEF RtabInv, TypeOK
  <2> QED
    BY <2>1, <2>3
<1>7. CASE WakeFence
  <2>1. UNCHANGED <<valid, req>> /\ \A e \in valid : deps[e] = "pend"
    BY <1>7 DEF WakeFence
  <2>2. \A e, f \in valid : e = f
    BY <2>1 DEF RtabInv, FenceAlone, TypeOK
  <2> QED
    BY <2>1, <2>2
<1> QED
  BY <1>1, <1>2, <1>3, <1>4, <1>5, <1>6, <1>7 DEF Next

\* The requests of the entries of a list.
Reqs(c, rq) == [i \in 1 .. Len(c) |-> rq[c[i]]]

\* The requests of a list are as many as its entries.
LEMMA ReqsFacts ==
    ASSUME NEW c \in Seq(Entries), NEW rq \in [Entries -> Requests]
    PROVE  /\ Reqs(c, rq) \in Seq(Requests)
           /\ Len(Reqs(c, rq)) = Len(c)
           /\ \A i \in 1 .. Len(c) : Reqs(c, rq)[i] = rq[c[i]]
<1>1. Len(c) \in Nat /\ \A i \in 1 .. Len(c) : c[i] \in Entries
  BY ElementOfSeq, LenProperties
<1>2. Reqs(c, rq) \in [1 .. Len(c) -> Requests]
  BY <1>1 DEF Reqs
<1>3. Reqs(c, rq) \in Seq(Requests)
  BY <1>1, <1>2
<1>4. Len(Reqs(c, rq)) = Len(c)
  <2>1. DOMAIN Reqs(c, rq) = 1 .. Len(c)
    BY <1>2
  <2> QED
    BY <1>1, <1>3, <2>1
<1> QED
  BY <1>3, <1>4 DEF Reqs

\* A list that grows by an entry grows by its request.
LEMMA ReqsAppend ==
    ASSUME NEW c \in Seq(Entries), NEW n \in Entries,
           NEW rq \in [Entries -> Requests], NEW rq2 \in [Entries -> Requests],
           \A i \in 1 .. Len(c) : rq2[c[i]] = rq[c[i]]
    PROVE  Reqs(Append(c, n), rq2) = Append(Reqs(c, rq), rq2[n])
<1> DEFINE a == Append(c, n)
<1> DEFINE x == Reqs(a, rq2)
<1> DEFINE y == Append(Reqs(c, rq), rq2[n])
<1>1. /\ Len(c) \in Nat /\ a \in Seq(Entries) /\ Len(a) = Len(c) + 1
      /\ (\A i \in 1 .. Len(c) : a[i] = c[i]) /\ a[Len(c) + 1] = n
  BY AppendProperties
<1>2. /\ x \in Seq(Requests) /\ Len(x) = Len(c) + 1
      /\ \A i \in 1 .. Len(c) + 1 : x[i] = rq2[a[i]]
  <2> HIDE DEF a
  <2> QED
    BY <1>1, ReqsFacts
<1>3. /\ Reqs(c, rq) \in Seq(Requests) /\ Len(Reqs(c, rq)) = Len(c)
      /\ \A i \in 1 .. Len(c) : Reqs(c, rq)[i] = rq[c[i]]
  BY ReqsFacts
<1>4. /\ y \in Seq(Requests) /\ Len(y) = Len(c) + 1
      /\ \A i \in 1 .. Len(c) : y[i] = rq[c[i]]
      /\ y[Len(c) + 1] = rq2[n]
  BY <1>3, AppendProperties
<1> HIDE DEF a, x, y
<1>5. \A i \in 1 .. Len(c) + 1 : x[i] = y[i]
  BY <1>1, <1>2, <1>4
<1>6. x = y
  BY <1>2, <1>4, <1>5, SeqEqual
<1> QED
  BY <1>6 DEF a, x, y

\* A list without its first entry holds the requests but the first.
LEMMA ReqsTail ==
    ASSUME NEW c \in Seq(Entries), c # <<>>, NEW rq \in [Entries -> Requests]
    PROVE  /\ Reqs(Tail(c), rq) = Tail(Reqs(c, rq))
           /\ Reqs(c, rq) # <<>> /\ Head(Reqs(c, rq)) = rq[c[1]]
<1> DEFINE x == Reqs(Tail(c), rq)
<1> DEFINE r == Reqs(c, rq)
<1>1. Len(c) \in Nat \ {0}
  BY EmptySeq
<1>2. /\ Tail(c) \in Seq(Entries) /\ Len(Tail(c)) = Len(c) - 1
      /\ \A i \in 1 .. Len(c) - 1 : Tail(c)[i] = c[i + 1]
  BY HeadTailProperties
<1>3. /\ x \in Seq(Requests) /\ Len(x) = Len(c) - 1
      /\ \A i \in 1 .. Len(c) - 1 : x[i] = rq[c[i + 1]]
  <2>1. /\ x \in Seq(Requests) /\ Len(x) = Len(Tail(c))
        /\ \A i \in 1 .. Len(Tail(c)) : x[i] = rq[Tail(c)[i]]
    BY <1>2, ReqsFacts
  <2> HIDE DEF x
  <2> QED
    BY <1>2, <2>1
<1>4. /\ r \in Seq(Requests) /\ Len(r) = Len(c)
      /\ \A i \in 1 .. Len(c) : r[i] = rq[c[i]]
  BY ReqsFacts
<1> HIDE DEF x, r
<1>5. r # <<>>
  BY <1>1, <1>4
<1>6. /\ Tail(r) \in Seq(Requests) /\ Len(Tail(r)) = Len(c) - 1
      /\ \A i \in 1 .. Len(c) - 1 : Tail(r)[i] = r[i + 1]
  BY <1>4, <1>5, HeadTailProperties
<1>7. \A i \in 1 .. Len(c) - 1 : x[i] = Tail(r)[i]
  <2> SUFFICES ASSUME NEW i \in 1 .. Len(c) - 1 PROVE x[i] = Tail(r)[i]
    OBVIOUS
  <2>1. i + 1 \in 1 .. Len(c)
    BY <1>1
  <2> QED
    BY <1>3, <1>4, <1>6, <2>1
<1>8. x = Tail(r)
  BY <1>3, <1>6, <1>7, SeqEqual
<1>9. Head(r) = rq[c[1]]
  <2>1. Head(r) = r[1] /\ 1 \in 1 .. Len(c)
    BY <1>1, <1>4
  <2> QED
    BY <1>4, <2>1
<1> QED
  BY <1>5, <1>8, <1>9 DEF x, r

\* By line: the starts of its lists, the requests they hold and its queue.
OwnStarts   == [l \in Lines |-> Own(l)]
FenceStarts == [l \in Lines |-> Fences(l)]
OwnReqs     == [l \in Lines |-> Held(Own(l))]
FenceReqs   == [l \in Lines |-> Held(Fences(l))]
LineQueues  == [l \in Lines |-> Queue(l)]
ReplayedReq == IF Replayed THEN st1.req ELSE None

\* The queue of a line is the list of its requests, then its fence.
QueueForm ==
    \A l \in Lines :
        /\ LineQueues[l] = OwnReqs[l] \o FenceReqs[l]
        /\ OwnReqs[l] \in Seq(Requests) /\ FenceReqs[l] \in Seq(Requests)
        /\ OwnStarts[l] = {} => OwnReqs[l] = <<>>
        /\ \A s \in OwnStarts[l] :
              OwnStarts[l] = {s} /\ OwnReqs[l] = Reqs(Lists[s], req)
        /\ FenceStarts[l] = {} => FenceReqs[l] = <<>>
        /\ \A f \in FenceStarts[l] : FenceReqs[l] = <<req[f]>>

\* The request being replayed is the oldest of its line.
QueueHead ==
    Replayed =>
        /\ st1.req \in Requests /\ st1.req.line \in Lines
        /\ LineQueues[st1.req.line] # <<>>
        /\ Head(LineQueues[st1.req.line]) = st1.req

\* Lists of the table are sequences of entries that are not empty.
LEMMA ListsAreSeqs ==
    ASSUME AllListed, NEW s \in Starts
    PROVE  /\ Lists[s] \in Seq(Entries) /\ Lists[s] # <<>>
           /\ Len(Lists[s]) \in 1 .. Len(Lists[s]) /\ Lists[s][1] = s
           /\ Lists[s][Len(Lists[s])] \in tailq
           /\ \A i \in 1 .. Len(Lists[s]) :
                 /\ Lists[s][i] \in valid
                 /\ req[Lists[s][i]].line = req[s].line
<1>1. IsList(Lists[s], s, nextq, tailq)
  BY DEF AllListed, Laid
<1>2. Lists[s] \in Seq(Entries)
  BY <1>1 DEF IsList
<1>3. /\ Len(Lists[s]) \in 1 .. Len(Lists[s]) /\ Lists[s][1] = s
      /\ Lists[s][Len(Lists[s])] \in tailq
  BY <1>1, ListEnds
<1>4. Lists[s] # <<>>
  BY <1>3
<1> QED
  BY <1>2, <1>3, <1>4 DEF AllListed, Laid

\* A line has one list of requests that are no fences.
LEMMA OneListPerLine ==
    ASSUME RtabInv, AllListed, NEW s \in Starts, NEW t \in Starts,
           req[s].line = req[t].line, ~req[s].fence, ~req[t].fence
    PROVE  s = t
<1>1. ASSUME NEW e \in Starts, ~req[e].fence
      PROVE  ~req[Lists[e][Len(Lists[e])]].fence
  <2> DEFINE k == Len(Lists[e])
  <2> DEFINE f == Lists[e][k]
  <2> SUFFICES ASSUME req[f].fence PROVE FALSE
    OBVIOUS
  <2>1. k \in 1 .. k /\ f \in valid /\ Lists[e][1] = e
    BY ListsAreSeqs
  <2>2. f \in headq \/ (Replayed /\ f = st1.ptr)
    BY <2>1 DEF RtabInv, FenceAlone
  <2>3. f \in Starts
    BY <2>1, <2>2 DEF Starts, Popped
  <2>4. 1 \in 1 .. Len(Lists[f]) /\ Lists[f][1] = f
    BY <2>3, StartsListed DEF AllListed
  <2>5. f = e
    BY <2>1, <2>3, <2>4 DEF AllListed, Laid
  <2> QED
    BY <1>1, <2>5
<1> DEFINE a == Lists[s][Len(Lists[s])]
<1> DEFINE b == Lists[t][Len(Lists[t])]
<1>2. /\ Len(Lists[s]) \in 1 .. Len(Lists[s]) /\ a \in valid \cap tailq
      /\ req[a].line = req[s].line
  BY ListsAreSeqs
<1>3. /\ Len(Lists[t]) \in 1 .. Len(Lists[t]) /\ b \in valid \cap tailq
      /\ req[b].line = req[t].line
  BY ListsAreSeqs
<1>4. a = b
  <2>1. ~req[a].fence /\ ~req[b].fence
    BY <1>1
  <2> HIDE DEF a, b
  <2> QED
    BY <1>2, <1>3, <2>1 DEF RtabInv, ListsWellFormed, OneTail
<1> QED
  BY <1>2, <1>3, <1>4 DEF AllListed, Laid

\* A fence is a list of its own.
LEMMA FenceIsAList ==
    ASSUME RtabInv, AllListed, NEW f \in Starts, req[f].fence
    PROVE  Lists[f] \in Seq(Entries) /\ Len(Lists[f]) = 1 /\ Lists[f][1] = f
<1>1. Lists[f] \in Seq(Entries) /\ Lists[f][1] = f
  BY ListsAreSeqs
<1>2. f \in tailq
  BY StartsListed DEF AllListed, RtabInv, FenceAlone
<1>3. Len(Lists[f]) = 1
  BY <1>2, LaidLast DEF AllListed
<1> QED
  BY <1>1, <1>3

\* The requests of the one list that starts at s.
LEMMA HeldOne ==
    ASSUME RtabInv, AllListed, NEW s \in Starts, NEW S, S = {s}
    PROVE  Held(S) = Reqs(Lists[s], req) /\ Reqs(Lists[s], req) \in Seq(Requests)
<1>1. (CHOOSE e \in S : TRUE) = s /\ S # {}
  OBVIOUS
<1>2. Chain(s) = Lists[s] /\ Lists[s] \in Seq(Entries)
  BY ListsAreSeqs DEF Lists
<1>3. DOMAIN Lists[s] = 1 .. Len(Lists[s])
  BY <1>2, LenProperties
<1>4. Held(S) = [i \in DOMAIN Chain(s) |-> req[Chain(s)[i]]]
  BY <1>1, Zenon DEF Held
<1>5. req \in [Entries -> Requests]
  BY DEF RtabInv, TypeOK
<1>6. Reqs(Lists[s], req) \in Seq(Requests)
  BY <1>2, <1>5, ReqsFacts
<1> QED
  BY <1>2, <1>3, <1>4, <1>6 DEF Reqs

\* The queues have the form of QueueForm.
LEMMA QueuesHaveForm == RtabInv /\ AllListed => QueueForm
<1> SUFFICES ASSUME RtabInv, AllListed, NEW l \in Lines
             PROVE  /\ LineQueues[l] = OwnReqs[l] \o FenceReqs[l]
                    /\ OwnReqs[l] \in Seq(Requests) /\ FenceReqs[l] \in Seq(Requests)
                    /\ OwnStarts[l] = {} => OwnReqs[l] = <<>>
                    /\ \A s \in OwnStarts[l] :
                          OwnStarts[l] = {s} /\ OwnReqs[l] = Reqs(Lists[s], req)
                    /\ FenceStarts[l] = {} => FenceReqs[l] = <<>>
                    /\ \A f \in FenceStarts[l] : FenceReqs[l] = <<req[f]>>
  BY DEF QueueForm
<1>1. /\ OwnStarts[l] = Own(l) /\ FenceStarts[l] = Fences(l)
      /\ OwnReqs[l] = Held(Own(l)) /\ FenceReqs[l] = Held(Fences(l))
      /\ LineQueues[l] = Held(Own(l)) \o Held(Fences(l))
  BY DEF OwnStarts, FenceStarts, OwnReqs, FenceReqs, LineQueues, Queue
<1>2. Held({}) = <<>> /\ <<>> \in Seq(Requests)
  BY EmptySeq DEF Held
<1>3. ASSUME NEW s \in Own(l)
      PROVE  /\ Own(l) = {s} /\ Held(Own(l)) = Reqs(Lists[s], req)
             /\ Held(Own(l)) \in Seq(Requests)
  <2>1. s \in Starts
    BY DEF Own
  <2>2. Own(l) = {s}
    BY OneListPerLine DEF Own
  <2> QED
    BY <2>1, <2>2, HeldOne
<1>4. ASSUME NEW f \in Fences(l)
      PROVE  Held(Fences(l)) = <<req[f]>> /\ Held(Fences(l)) \in Seq(Requests)
  <2>1. f \in Starts /\ req[f].fence
    BY DEF Fences
  <2>2. Starts \subseteq valid
    BY StartsListed DEF AllListed
  <2>3. Fences(l) = {f}
    BY <2>2 DEF Fences, RtabInv, FenceAlone
  <2>4. /\ Held(Fences(l)) = Reqs(Lists[f], req)
        /\ Reqs(Lists[f], req) \in Seq(Requests)
    BY <2>1, <2>3, HeldOne
  <2>5. Len(Lists[f]) = 1 /\ Lists[f][1] = f
    BY <2>1, FenceIsAList
  <2>6. Reqs(Lists[f], req) = <<req[f]>>
    BY <2>5 DEF Reqs
  <2> QED
    BY <2>4, <2>6
<1> QED
  BY <1>1, <1>2, <1>3, <1>4

\* The first element and the rest of two sequences in a row.
LEMMA ConcatHeadTail ==
    ASSUME NEW T, NEW s \in Seq(T), NEW t \in Seq(T), s # <<>>
    PROVE  /\ s \o t # <<>> /\ Head(s \o t) = Head(s)
           /\ Tail(s \o t) = Tail(s) \o t
<1> DEFINE c == s \o t
<1> DEFINE x == Tail(s) \o t
<1>1. Len(s) \in Nat \ {0} /\ Len(t) \in Nat
  BY EmptySeq, LenProperties
<1>2. /\ c \in Seq(T) /\ Len(c) = Len(s) + Len(t)
      /\ \A i \in 1 .. Len(s) + Len(t) :
            c[i] = IF i <= Len(s) THEN s[i] ELSE t[i - Len(s)]
  BY ConcatProperties
<1>3. /\ Tail(s) \in Seq(T) /\ Len(Tail(s)) = Len(s) - 1
      /\ \A i \in 1 .. Len(s) - 1 : Tail(s)[i] = s[i + 1]
  BY HeadTailProperties
<1>4. /\ x \in Seq(T) /\ Len(x) = Len(s) - 1 + Len(t)
      /\ \A i \in 1 .. Len(s) - 1 + Len(t) :
            x[i] = IF i <= Len(s) - 1 THEN Tail(s)[i] ELSE t[i - (Len(s) - 1)]
  BY <1>3, ConcatProperties
<1> HIDE DEF c, x
<1>5. c # <<>>
  BY <1>1, <1>2
<1>6. /\ Tail(c) \in Seq(T) /\ Len(Tail(c)) = Len(s) + Len(t) - 1
      /\ \A i \in 1 .. Len(s) + Len(t) - 1 : Tail(c)[i] = c[i + 1]
  BY <1>2, <1>5, HeadTailProperties
<1>7. ASSUME NEW i \in 1 .. Len(s) + Len(t) - 1 PROVE Tail(c)[i] = x[i]
  <2>1. i + 1 \in 1 .. Len(s) + Len(t) /\ i \in 1 .. Len(s) - 1 + Len(t)
    BY <1>1
  <2>2. Tail(c)[i] = c[i + 1]
    BY <1>6
  <2>3. CASE i <= Len(s) - 1
    <3>1. i \in 1 .. Len(s) - 1 /\ i + 1 <= Len(s)
      BY <1>1, <2>3
    <3> QED
      BY <1>2, <1>3, <1>4, <2>1, <2>2, <2>3, <3>1
  <2>4. CASE ~(i <= Len(s) - 1)
    <3>1. ~(i + 1 <= Len(s)) /\ (i + 1) - Len(s) = i - (Len(s) - 1)
      BY <1>1, <2>4
    <3> QED
      BY <1>2, <1>4, <2>1, <2>2, <2>4, <3>1
  <2> QED
    BY <2>3, <2>4
<1>8. Tail(c) = x
  <2>1. Len(Tail(c)) = Len(x) /\ 1 .. Len(Tail(c)) = 1 .. Len(s) + Len(t) - 1
    BY <1>1, <1>4, <1>6
  <2> QED
    BY <1>4, <1>6, <1>7, <2>1, SeqEqual
<1>9. Head(c) = Head(s)
  <2>1. Head(c) = c[1] /\ Head(s) = s[1]
    BY <1>2, <1>5
  <2>2. c[1] = s[1]
    BY <1>1, <1>2
  <2> QED
    BY <2>1, <2>2
<1> QED
  BY <1>5, <1>8, <1>9 DEF c, x

\* Nothing is left of a sequence of one element.
LEMMA TailOfOne ==
    ASSUME NEW T, NEW s \in Seq(T), Len(s) = 1
    PROVE  Tail(s) = <<>>
<1>1. s # <<>>
  BY EmptySeq
<1>2. Tail(s) \in Seq(T) /\ Len(Tail(s)) = 0
  BY <1>1, HeadTailProperties
<1> QED
  BY <1>2, EmptySeq

\* What is being replayed is the oldest request of its line.
LEMMA HeadIsOldest == RtabInv /\ AllListed /\ FenceLast => QueueHead
<1> SUFFICES ASSUME RtabInv, AllListed, FenceLast, Replayed,
                    NEW p, p = st1.ptr, NEW l, l = st1.req.line
             PROVE  /\ st1.req \in Requests /\ l \in Lines
                    /\ LineQueues[l] # <<>> /\ Head(LineQueues[l]) = st1.req
  BY DEF QueueHead
<1>1. Popped = {p} /\ p \in Starts
  BY DEF Popped, Starts
<1>2. p \in valid /\ p \notin headq /\ st1.req = req[p]
  BY <1>1 DEF RtabInv, ListsWellFormed, LinksWellFormed, PopFollowsStage1
<1>3. st1.req \in Requests /\ l \in Lines
  <2>1. valid \subseteq Entries /\ req \in [Entries -> Requests]
    BY DEF RtabInv, TypeOK
  <2> QED
    BY <1>2, <2>1 DEF Requests
<1>4. QueueForm
  BY QueuesHaveForm
<1>5. /\ OwnStarts[l] = {e \in Starts : req[e].line = l /\ ~req[e].fence}
      /\ FenceStarts[l] = {e \in Starts : req[e].line = l /\ req[e].fence}
  BY <1>3 DEF OwnStarts, FenceStarts, Own, Fences
<1>6. /\ LineQueues[l] = OwnReqs[l] \o FenceReqs[l]
      /\ OwnReqs[l] \in Seq(Requests) /\ FenceReqs[l] \in Seq(Requests)
  BY <1>3, <1>4 DEF QueueForm
<1>7. CASE ~st1.req.fence
  <2>1. p \in OwnStarts[l]
    BY <1>1, <1>2, <1>5, <1>7
  <2>2. OwnReqs[l] = Reqs(Lists[p], req)
    BY <1>3, <1>4, <2>1 DEF QueueForm
  <2>3. Lists[p] \in Seq(Entries) /\ Lists[p] # <<>> /\ Lists[p][1] = p
    BY <1>1, ListsAreSeqs
  <2>4. OwnReqs[l] # <<>> /\ Head(OwnReqs[l]) = req[p]
    BY <2>2, <2>3, ReqsTail DEF RtabInv, TypeOK
  <2>5. /\ OwnReqs[l] \o FenceReqs[l] # <<>>
        /\ Head(OwnReqs[l] \o FenceReqs[l]) = Head(OwnReqs[l])
    BY <1>6, <2>4, ConcatHeadTail, Zenon
  <2> QED
    BY <1>2, <1>3, <1>6, <2>4, <2>5
<1>8. CASE st1.req.fence
  <2>1. deps[p] # "pend"
    BY <1>2 DEF RtabInv, TypeOK, FenceAlone
  <2>2. valid = {p}
    BY <1>2, <1>8, <2>1 DEF FenceLast
  <2>3. Starts \subseteq {p}
    BY <2>2, StartsListed DEF AllListed
  <2>4. OwnStarts[l] = {} /\ p \in FenceStarts[l]
    BY <1>1, <1>2, <1>5, <1>8, <2>3
  <2>5. OwnReqs[l] = <<>> /\ FenceReqs[l] = <<req[p]>>
    BY <1>3, <1>4, <2>4 DEF QueueForm
  <2>6. LineQueues[l] = <<req[p]>>
    BY <1>6, <2>5, ConcatEmptySeq
  <2> QED
    BY <1>2, <1>3, <2>6
<1> QED
  BY <1>7, <1>8

\* The replay table with the queues it stands for.
QueueInv == RtabInv /\ AllListed /\ FenceLast /\ QueueForm /\ QueueHead

\* The lists, the fence and the queues agree in every state.
THEOREM QueueInvariant == Spec => []QueueInv
<1>1. Init => FenceLast
  BY DEF Init, FenceLast
<1>2. RtabInv /\ FenceLast /\ [Next]_rtabVars => FenceLast'
  BY FenceLastStep
<1>3. RtabInv /\ AllListed /\ FenceLast => QueueInv
  BY QueuesHaveForm, HeadIsOldest DEF QueueInv
<1> QED
  BY <1>1, <1>2, <1>3, RtabInvariant, ListsAreComplete, PTL DEF Spec

\* What a step does not change of the requests of a line.
LEMMA LineKept ==
    ASSUME QueueInv, QueueInv', NEW l \in Lines, \A e \in valid : req'[e] = req[e]
    PROVE  /\ OwnStarts'[l] = OwnStarts[l] /\
                 (\A s \in OwnStarts[l] : Lists'[s] = Lists[s]) =>
                    OwnReqs'[l] = OwnReqs[l]
           /\ FenceStarts'[l] = FenceStarts[l] => FenceReqs'[l] = FenceReqs[l]
<1>1. OwnStarts[l] \subseteq Starts /\ FenceStarts[l] \subseteq Starts
  BY DEF OwnStarts, FenceStarts, Own, Fences
<1>2. Starts \subseteq valid
  BY StartsListed DEF QueueInv, AllListed
<1>3. ASSUME OwnStarts'[l] = OwnStarts[l],
             \A s \in OwnStarts[l] : Lists'[s] = Lists[s]
      PROVE  OwnReqs'[l] = OwnReqs[l]
  <2>1. CASE OwnStarts[l] = {}
    BY <1>3, <2>1 DEF QueueInv, QueueForm
  <2>2. ASSUME NEW s \in OwnStarts[l] PROVE OwnReqs'[l] = OwnReqs[l]
    <3>1. OwnReqs[l] = Reqs(Lists[s], req) /\ OwnReqs'[l] = Reqs(Lists'[s], req')
      BY <1>3 DEF QueueInv, QueueForm
    <3>2. \A i \in 1 .. Len(Lists[s]) : req'[Lists[s][i]] = req[Lists[s][i]]
      BY <1>1, ListsAreSeqs DEF QueueInv
    <3>3. Reqs(Lists'[s], req') = Reqs(Lists[s], req)
      BY <1>3, <3>2 DEF Reqs
    <3> QED
      BY <3>1, <3>3
  <2> QED
    BY <2>1, <2>2
<1>4. ASSUME FenceStarts'[l] = FenceStarts[l] PROVE FenceReqs'[l] = FenceReqs[l]
  <2>1. CASE FenceStarts[l] = {}
    BY <1>4, <2>1 DEF QueueInv, QueueForm
  <2>2. ASSUME NEW f \in FenceStarts[l] PROVE FenceReqs'[l] = FenceReqs[l]
    <3>1. FenceReqs[l] = <<req[f]>> /\ FenceReqs'[l] = <<req'[f]>>
      BY <1>4 DEF QueueInv, QueueForm
    <3> QED
      BY <1>1, <1>2, <3>1
  <2> QED
    BY <2>1, <2>2
<1> QED
  BY <1>3, <1>4

\* A step that leaves the starts, the lists and the requests alone.
LEMMA QueuesKept ==
    ASSUME QueueInv, QueueInv', Starts' = Starts, req' = req,
           \A e \in Starts : Lists'[e] = Lists[e]
    PROVE  LineQueues' = LineQueues
<1>1. ASSUME NEW l \in Lines PROVE LineQueues'[l] = LineQueues[l]
  <2>1. OwnStarts'[l] = OwnStarts[l] /\ FenceStarts'[l] = FenceStarts[l]
    BY DEF OwnStarts, FenceStarts, Own, Fences
  <2>2. \A s \in OwnStarts[l] : Lists'[s] = Lists[s]
    BY DEF OwnStarts, Own
  <2>3. OwnReqs'[l] = OwnReqs[l] /\ FenceReqs'[l] = FenceReqs[l]
    BY <2>1, <2>2, LineKept
  <2>4. /\ LineQueues[l] = OwnReqs[l] \o FenceReqs[l]
        /\ LineQueues'[l] = OwnReqs'[l] \o FenceReqs'[l]
    BY DEF QueueInv, QueueForm
  <2> QED
    BY <2>3, <2>4
<1>2. LineQueues = [l \in Lines |-> LineQueues[l]]
  BY DEF LineQueues
<1>3. LineQueues' = [l \in Lines |-> LineQueues'[l]]
  BY DEF LineQueues
<1> QED
  BY <1>1, <1>2, <1>3

\* alloc_i puts the request in stage 1 at the end of the queue of its line.
LEMMA QueueAlloc ==
    ASSUME QueueInv, QueueInv', [Next]_rtabVars, Alloc, NEW r, r = st1.req
    PROVE  /\ LineQueues' = [LineQueues EXCEPT ![r.line] = Append(@, r)]
           /\ r \in Requests
<1> SUFFICES ASSUME NEW n, n = FreeEntry
             PROVE  /\ LineQueues' = [LineQueues EXCEPT ![r.line] = Append(@, r)]
                    /\ r \in Requests
  OBVIOUS
<1>1. RtabInv /\ AllListed /\ TypeOK'
  BY DEF QueueInv, RtabInv
<1>2. n \in Entries \ valid /\ Core /\ r \in Requests
  BY <1>1, HoldFacts
<1>3. Starts' = Starts \cup {n}
  BY <1>1, StartsStep
<1>4. /\ n \notin Starts /\ Lists'[n] = <<n>>
      /\ \A e \in Starts : Lists'[e] = Lists[e]
  BY <1>1, <1>3, ListedAlloc
<1>5. req' = [req EXCEPT ![n] = r] /\ ~Conflict /\ req \in [Entries -> Requests]
  BY <1>1 DEF Alloc, RtabInv, TypeOK
<1>6. req'[n] = r /\ \A e \in valid : req'[e] = req[e]
  BY <1>1, <1>2, <1>5 DEF RtabInv, TypeOK
<1>7. Starts \subseteq valid
  BY <1>1, StartsListed DEF AllListed
<1>8. \A e \in valid : ~req[e].fence
  BY <1>1, <1>2 DEF RtabInv, FenceAlone
<1>9. ASSUME NEW l \in Lines
      PROVE  /\ OwnStarts[l] = {e \in Starts : req[e].line = l /\ ~req[e].fence}
             /\ OwnStarts'[l] = {e \in Starts' : req'[e].line = l /\ ~req'[e].fence}
             /\ FenceStarts[l] = {e \in Starts : req[e].line = l /\ req[e].fence}
             /\ FenceStarts'[l] = {e \in Starts' : req'[e].line = l /\ req'[e].fence}
  BY DEF OwnStarts, FenceStarts, Own, Fences
<1>10. ASSUME NEW l \in Lines
       PROVE  /\ l = r.line /\ ~r.fence =>
                    n \in OwnStarts'[l] /\ FenceStarts'[l] = FenceStarts[l]
              /\ l = r.line /\ r.fence =>
                    n \in FenceStarts'[l] /\ OwnStarts'[l] = OwnStarts[l]
              /\ l # r.line => /\ OwnStarts'[l] = OwnStarts[l]
                               /\ FenceStarts'[l] = FenceStarts[l]
              /\ FenceStarts[l] = {}
  <2>1. \A e \in Starts : req'[e] = req[e]
    BY <1>6, <1>7
  <2>2. FenceStarts[l] = {}
    BY <1>7, <1>8, <1>9, Zenon
  <2>3. ~r.fence \/ l # r.line => FenceStarts'[l] = {}
    BY ONLY <1>3, <1>6, <1>7, <1>8, <1>9, <2>1, l \in Lines
  <2>4. l = r.line /\ ~r.fence => n \in OwnStarts'[l]
    BY ONLY <1>3, <1>6, <1>9, l \in Lines
  <2>5. l = r.line /\ r.fence => n \in FenceStarts'[l]
    BY ONLY <1>3, <1>6, <1>9, l \in Lines
  <2>6. r.fence \/ l # r.line => OwnStarts'[l] = OwnStarts[l]
    <3>1. ASSUME r.fence \/ l # r.line, NEW e
          PROVE  e \in OwnStarts'[l] <=> e \in OwnStarts[l]
      BY ONLY <1>3, <1>4, <1>6, <1>9, <2>1, <3>1, l \in Lines
    <3> QED
      BY <3>1, Zenon
  <2> QED
    BY <2>2, <2>3, <2>4, <2>5, <2>6
<1>11. ASSUME NEW l \in Lines
       PROVE  LineQueues'[l] = IF l = r.line THEN Append(LineQueues[l], r)
                               ELSE LineQueues[l]
  <2>1. /\ LineQueues[l] = OwnReqs[l] \o FenceReqs[l]
        /\ LineQueues'[l] = OwnReqs'[l] \o FenceReqs'[l]
        /\ OwnReqs[l] \in Seq(Requests)
    BY DEF QueueInv, QueueForm
  <2>2. \A s \in OwnStarts[l] : Lists'[s] = Lists[s]
    BY <1>4, <1>9
  <2>3. FenceReqs[l] = <<>> /\ LineQueues[l] = OwnReqs[l]
    <3>1. FenceReqs[l] = <<>>
      BY <1>10 DEF QueueInv, QueueForm
    <3> QED
      BY <2>1, <3>1, ConcatEmptySeq
  <2>4. CASE l # r.line
    <3>1. OwnReqs'[l] = OwnReqs[l] /\ FenceReqs'[l] = FenceReqs[l]
      BY <1>6, <1>10, <2>2, <2>4, LineKept
    <3> QED
      BY <2>1, <2>4, <3>1
  <2>5. CASE l = r.line /\ r.fence
    <3>1. OwnReqs'[l] = OwnReqs[l]
      BY <1>6, <1>10, <2>2, <2>5, LineKept
    <3>2. FenceReqs'[l] = <<r>>
      <4>1. n \in FenceStarts'[l]
        BY <1>10, <2>5
      <4>2. FenceReqs'[l] = <<req'[n]>>
        BY <4>1 DEF QueueInv, QueueForm
      <4> QED
        BY <1>6, <4>2
    <3>3. Append(OwnReqs[l], r) = OwnReqs[l] \o <<r>>
      BY <1>2, <2>1, AppendIsConcat
    <3> QED
      BY <2>1, <2>3, <2>5, <3>1, <3>2, <3>3
  <2>6. CASE l = r.line /\ ~r.fence
    <3>1. OwnStarts[l] = {}
      BY <1>5, <1>7, <1>9, <2>6 DEF Conflict, CheckHit
    <3>2. LineQueues[l] = <<>>
      BY <2>3, <3>1 DEF QueueInv, QueueForm
    <3>3. n \in OwnStarts'[l] /\ FenceStarts'[l] = {}
      BY <1>10, <2>6
    <3>4. OwnReqs'[l] = Reqs(Lists'[n], req') /\ FenceReqs'[l] = <<>>
      BY <3>3 DEF QueueInv, QueueForm
    <3>5. Reqs(Lists'[n], req') = <<r>>
      BY <1>4, <1>6 DEF Reqs
    <3>6. LineQueues'[l] = <<r>>
      BY <2>1, <3>4, <3>5
    <3> QED
      BY <2>6, <3>2, <3>6
  <2> QED
    BY <2>4, <2>5, <2>6
<1>12. LineQueues = [l \in Lines |-> LineQueues[l]]
  BY DEF LineQueues
<1>13. LineQueues' = [l \in Lines |-> LineQueues'[l]]
  BY DEF LineQueues
<1>14. LineQueues' = [LineQueues EXCEPT ![r.line] = Append(@, r)]
  BY <1>11, <1>12, <1>13
<1> QED
  BY <1>2, <1>14

\* alloc_and_link_i puts the request in stage 1 at the end of the queue of its
\* line.
LEMMA QueueLink ==
    ASSUME QueueInv, QueueInv', [Next]_rtabVars, Link, NEW r, r = st1.req
    PROVE  /\ LineQueues' = [LineQueues EXCEPT ![r.line] = Append(@, r)]
           /\ r \in Requests
<1> SUFFICES ASSUME NEW n, n = FreeEntry
             PROVE  /\ LineQueues' = [LineQueues EXCEPT ![r.line] = Append(@, r)]
                    /\ r \in Requests
  OBVIOUS
<1>1. RtabInv /\ AllListed /\ TypeOK'
  BY DEF QueueInv, RtabInv
<1>2. n \in Entries \ valid /\ Core /\ r \in Requests
  BY <1>1, HoldFacts
<1>3. Starts' = Starts
  BY <1>1, StartsStep
<1>4. PICK s \in Starts : /\ req[s].line = r.line
                          /\ Lists'[s] = Append(Lists[s], n)
                          /\ \A e \in Starts : e # s => Lists'[e] = Lists[e]
  BY <1>1, <1>3, ListedLink
<1>5. /\ req' = [req EXCEPT ![n] = r]
      /\ req \in [Entries -> Requests] /\ req' \in [Entries -> Requests]
  BY <1>1 DEF Link, RtabInv, TypeOK
<1>6. req'[n] = r /\ \A e \in valid : req'[e] = req[e]
  BY <1>1, <1>2, <1>5 DEF RtabInv, TypeOK
<1>7. Starts \subseteq valid
  BY <1>1, StartsListed DEF AllListed
<1>8. \A e \in Starts : ~req[e].fence /\ req'[e] = req[e]
  BY <1>1, <1>2, <1>6, <1>7 DEF RtabInv, FenceAlone
<1>9. ASSUME NEW l \in Lines
      PROVE  /\ OwnStarts[l] = {e \in Starts : req[e].line = l /\ ~req[e].fence}
             /\ OwnStarts'[l] = {e \in Starts' : req'[e].line = l /\ ~req'[e].fence}
             /\ FenceStarts[l] = {e \in Starts : req[e].line = l /\ req[e].fence}
             /\ FenceStarts'[l] = {e \in Starts' : req'[e].line = l /\ req'[e].fence}
  BY DEF OwnStarts, FenceStarts, Own, Fences
<1>10. ASSUME NEW l \in Lines
       PROVE  /\ OwnStarts'[l] = OwnStarts[l]
              /\ FenceStarts[l] = {} /\ FenceStarts'[l] = {}
              /\ s \in OwnStarts[l] <=> l = r.line
  <2>1. FenceStarts[l] = {} /\ FenceStarts'[l] = {}
    BY ONLY <1>3, <1>8, <1>9, l \in Lines
  <2>2. OwnStarts'[l] = OwnStarts[l]
    <3>1. ASSUME NEW e PROVE e \in OwnStarts'[l] <=> e \in OwnStarts[l]
      BY ONLY <1>3, <1>8, <1>9, l \in Lines
    <3> QED
      BY <3>1, Zenon
  <2>3. s \in OwnStarts[l] <=> l = r.line
    BY ONLY <1>4, <1>8, <1>9, l \in Lines
  <2> QED
    BY <2>1, <2>2, <2>3
<1>11. ASSUME NEW l \in Lines
       PROVE  LineQueues'[l] = IF l = r.line THEN Append(LineQueues[l], r)
                               ELSE LineQueues[l]
  <2>1. /\ LineQueues[l] = OwnReqs[l] \o FenceReqs[l]
        /\ LineQueues'[l] = OwnReqs'[l] \o FenceReqs'[l]
        /\ OwnReqs[l] \in Seq(Requests) /\ OwnReqs'[l] \in Seq(Requests)
    BY DEF QueueInv, QueueForm
  <2>2. FenceReqs[l] = <<>> /\ FenceReqs'[l] = <<>>
    BY <1>10 DEF QueueInv, QueueForm
  <2>3. LineQueues[l] = OwnReqs[l] /\ LineQueues'[l] = OwnReqs'[l]
    BY <2>1, <2>2, ConcatEmptySeq
  <2>4. CASE l # r.line
    <3>1. \A e \in OwnStarts[l] : Lists'[e] = Lists[e]
      BY <1>4, <1>9, <1>10, <2>4
    <3>2. OwnReqs'[l] = OwnReqs[l]
      BY <1>6, <1>10, <3>1, LineKept
    <3> QED
      BY <2>3, <2>4, <3>2
  <2>5. CASE l = r.line
    <3>1. s \in OwnStarts[l] /\ s \in OwnStarts'[l]
      BY <1>10, <2>5
    <3>2. OwnReqs[l] = Reqs(Lists[s], req) /\ OwnReqs'[l] = Reqs(Lists'[s], req')
      BY <3>1 DEF QueueInv, QueueForm
    <3>3. /\ Lists[s] \in Seq(Entries)
          /\ \A i \in 1 .. Len(Lists[s]) : Lists[s][i] \in valid
      BY <1>1, ListsAreSeqs
    <3>4. \A i \in 1 .. Len(Lists[s]) : req'[Lists[s][i]] = req[Lists[s][i]]
      BY <1>6, <3>3
    <3>5. Reqs(Append(Lists[s], n), req') = Append(Reqs(Lists[s], req), req'[n])
      <4>1. n \in Entries
        BY <1>2
      <4> QED
        BY ONLY <1>5, <3>3, <3>4, <4>1, ReqsAppend, Zenon
    <3> QED
      BY <1>4, <1>6, <2>3, <2>5, <3>2, <3>5
  <2> QED
    BY <2>4, <2>5
<1>12. LineQueues = [l \in Lines |-> LineQueues[l]]
  BY DEF LineQueues
<1>13. LineQueues' = [l \in Lines |-> LineQueues'[l]]
  BY DEF LineQueues
<1>14. LineQueues' = [LineQueues EXCEPT ![r.line] = Append(@, r)]
  BY <1>11, <1>12, <1>13
<1> QED
  BY <1>2, <1>14

\* pop_commit_i removes the oldest request of the line it replays.
LEMMA QueueCommit ==
    ASSUME QueueInv, QueueInv', [Next]_rtabVars, Commit, NEW x, x = st1.req.line
    PROVE  LineQueues' = [LineQueues EXCEPT ![x] = Tail(@)]
<1> SUFFICES ASSUME NEW p, p = st1.ptr, NEW m, m = nextq[p]
             PROVE  LineQueues' = [LineQueues EXCEPT ![x] = Tail(@)]
  OBVIOUS
<1>1. RtabInv /\ AllListed /\ TypeOK' /\ FenceLast
  BY DEF QueueInv, RtabInv
<1>2. Starts' = (Starts \ {p}) \cup (IF p \in tailq THEN {} ELSE {m})
  BY <1>1, StartsStep
<1>3. /\ p \in Starts
      /\ \A e \in Starts : e # p => Lists'[e] = Lists[e]
      /\ p \in tailq => Len(Lists[p]) = 1
      /\ p \notin tailq => /\ m \notin Starts
                           /\ req[m].line = req[p].line
                           /\ Lists'[m] = Tail(Lists[p])
  BY <1>1, <1>2, ListedCommit
<1>4. /\ Replayed /\ req' = req /\ Popped = {p}
      /\ st1.req = req[p] /\ x = req[p].line
  BY <1>1 DEF Commit, Popped, RtabInv, ListsWellFormed, PopFollowsStage1
<1>5. p \in valid /\ p \notin headq
  BY <1>1, <1>4 DEF RtabInv, ListsWellFormed, LinksWellFormed
<1>6. p \notin tailq => ~req[m].fence
  <2> SUFFICES ASSUME p \notin tailq PROVE ~req[m].fence
    OBVIOUS
  <2>1. m \in valid /\ m \notin headq /\ m # p
    BY <1>1, <1>4, <1>5 DEF RtabInv, ListsWellFormed, LinksWellFormed
  <2> QED
    BY <1>1, <2>1 DEF RtabInv, FenceAlone
<1>7. Starts \subseteq valid
  BY <1>1, StartsListed DEF AllListed
<1>8. ASSUME NEW l \in Lines
      PROVE  /\ OwnStarts[l] = {e \in Starts : req[e].line = l /\ ~req[e].fence}
             /\ OwnStarts'[l] = {e \in Starts' : req[e].line = l /\ ~req[e].fence}
             /\ FenceStarts[l] = {e \in Starts : req[e].line = l /\ req[e].fence}
             /\ FenceStarts'[l] = {e \in Starts' : req[e].line = l /\ req[e].fence}
  BY <1>4 DEF OwnStarts, FenceStarts, Own, Fences
<1>9. ASSUME NEW l \in Lines
      PROVE  LineQueues'[l] = IF l = x THEN Tail(LineQueues[l]) ELSE LineQueues[l]
  <2>1. /\ LineQueues[l] = OwnReqs[l] \o FenceReqs[l]
        /\ LineQueues'[l] = OwnReqs'[l] \o FenceReqs'[l]
        /\ OwnReqs[l] \in Seq(Requests) /\ FenceReqs[l] \in Seq(Requests)
    BY DEF QueueInv, QueueForm
  <2>2. CASE l # x
    <3>1. OwnStarts'[l] = OwnStarts[l] /\ FenceStarts'[l] = FenceStarts[l]
      <4>1. ASSUME NEW e
            PROVE  /\ e \in FenceStarts'[l] <=> e \in FenceStarts[l]
                   /\ e \in OwnStarts'[l] <=> e \in OwnStarts[l]
        <5>1. e \in Starts' => e \in Starts \/ req[e].line = x
          BY ONLY <1>2, <1>3, <1>4
        <5>2. e \in Starts /\ e # p => e \in Starts'
          BY ONLY <1>2
        <5>3. /\ e \in FenceStarts'[l] <=> e \in Starts' /\ req[e].line = l /\ req[e].fence
              /\ e \in FenceStarts[l] <=> e \in Starts /\ req[e].line = l /\ req[e].fence
              /\ e \in OwnStarts'[l] <=> e \in Starts' /\ req[e].line = l /\ ~req[e].fence
              /\ e \in OwnStarts[l] <=> e \in Starts /\ req[e].line = l /\ ~req[e].fence
          BY ONLY <1>8, l \in Lines
        <5> QED
          BY ONLY <1>4, <2>2, <5>1, <5>2, <5>3
      <4> QED
        BY <4>1, Zenon
    <3>2. \A e \in OwnStarts[l] : Lists'[e] = Lists[e]
      BY ONLY <1>3, <1>4, <1>8, <2>2, l \in Lines
    <3>3. OwnReqs'[l] = OwnReqs[l] /\ FenceReqs'[l] = FenceReqs[l]
      BY <1>4, <3>1, <3>2, LineKept
    <3> QED
      BY <2>1, <2>2, <3>3
  <2>3. CASE l = x /\ req[p].fence
    <3>1. deps[p] # "pend" /\ p \in tailq
      BY <1>1, <1>5, <2>3 DEF RtabInv, TypeOK, FenceAlone
    <3>2. valid = {p}
      BY <1>1, <1>5, <2>3, <3>1 DEF FenceLast
    <3>3. Starts = {p} /\ Starts' = {}
      BY <1>2, <1>3, <1>7, <3>1, <3>2
    <3>4. /\ OwnStarts[l] = {} /\ p \in FenceStarts[l]
          /\ OwnStarts'[l] = {} /\ FenceStarts'[l] = {}
      BY ONLY <1>4, <1>8, <2>3, <3>3, l \in Lines
    <3>5. OwnReqs[l] = <<>> /\ FenceReqs[l] = <<req[p]>>
      BY <3>4 DEF QueueInv, QueueForm
    <3>6. OwnReqs'[l] = <<>> /\ FenceReqs'[l] = <<>>
      BY <3>4 DEF QueueInv, QueueForm
    <3>7. LineQueues[l] = <<req[p]>> /\ LineQueues'[l] = <<>>
      BY <2>1, <3>5, <3>6, ConcatEmptySeq
    <3> QED
      BY <2>3, <3>7
  <2>4. CASE l = x /\ ~req[p].fence
    <3>1. p \in OwnStarts[l]
      BY ONLY <1>3, <1>4, <1>8, <2>4, l \in Lines
    <3>2. OwnStarts[l] = {p} /\ OwnReqs[l] = Reqs(Lists[p], req)
      BY <3>1 DEF QueueInv, QueueForm
    <3>3. FenceStarts'[l] = FenceStarts[l]
      <4>1. ASSUME NEW e
            PROVE  e \in FenceStarts'[l] <=> e \in FenceStarts[l]
        BY ONLY <1>2, <1>3, <1>6, <1>8, <2>4, l \in Lines
      <4> QED
        BY <4>1, Zenon
    <3>4. FenceReqs'[l] = FenceReqs[l]
      BY <1>4, <3>3, LineKept
    <3>5. Lists[p] \in Seq(Entries) /\ Lists[p] # <<>> /\ req \in [Entries -> Requests]
      BY <1>1, <1>3, ListsAreSeqs DEF RtabInv, TypeOK
    <3>6. /\ Reqs(Tail(Lists[p]), req) = Tail(Reqs(Lists[p], req))
          /\ Reqs(Lists[p], req) # <<>>
      BY <3>5, ReqsTail
    <3>7. OwnReqs'[l] = Tail(OwnReqs[l])
      <4>1. CASE p \in tailq
        <5>1. OwnStarts'[l] = {}
          BY ONLY <1>2, <1>8, <3>2, <4>1, l \in Lines
        <5>2. OwnReqs'[l] = <<>>
          BY <5>1 DEF QueueInv, QueueForm
        <5>3. Len(Reqs(Lists[p], req)) = 1 /\ Reqs(Lists[p], req) \in Seq(Requests)
          BY <1>3, <3>5, <4>1, ReqsFacts
        <5>4. Tail(Reqs(Lists[p], req)) = <<>>
          BY <5>3, TailOfOne, Zenon
        <5> QED
          BY <3>2, <5>2, <5>4
      <4>2. CASE p \notin tailq
        <5>1. m \in OwnStarts'[l]
          BY ONLY <1>2, <1>3, <1>4, <1>6, <1>8, <2>4, <4>2, l \in Lines
        <5>2. OwnReqs'[l] = Reqs(Lists'[m], req')
          BY <5>1 DEF QueueInv, QueueForm
        <5> QED
          BY <1>3, <1>4, <3>2, <3>6, <4>2, <5>2
      <4> QED
        BY <4>1, <4>2
    <3>8. Tail(OwnReqs[l] \o FenceReqs[l]) = Tail(OwnReqs[l]) \o FenceReqs[l]
      <4>1. OwnReqs[l] # <<>>
        BY <3>2, <3>6
      <4> QED
        BY <2>1, <4>1, ConcatHeadTail, Zenon
    <3> QED
      BY <2>1, <2>4, <3>4, <3>7, <3>8
  <2> QED
    BY <2>2, <2>3, <2>4
<1>10. LineQueues = [l \in Lines |-> LineQueues[l]]
  BY DEF LineQueues
<1>11. LineQueues' = [l \in Lines |-> LineQueues'[l]]
  BY DEF LineQueues
<1> QED
  BY <1>9, <1>10, <1>11

\* Nothing is replayed before or after a step that puts a request on hold.
LEMMA NoneReplayed ==
    ASSUME QueueInv, Alloc \/ Link
    PROVE  ReplayedReq = None /\ ReplayedReq' = None
<1>1. Core /\ ~Replayed'
  BY HoldFacts DEF QueueInv
<1>2. ~Replayed
  BY <1>1 DEF Core, Replayed
<1> QED
  BY <1>1, <1>2 DEF ReplayedReq

\* The step of the queues each step of the table stands for.
LEMMA QueueStep ==
    ASSUME QueueInv, QueueInv', [Next]_rtabVars
    PROVE  \/ /\ \/ LineQueues' = LineQueues
                 \/ /\ ReplayedReq # None
                    /\ LineQueues[ReplayedReq.line] # <<>>
                    /\ Head(LineQueues[ReplayedReq.line]) = ReplayedReq
                    /\ LineQueues' =
                          [LineQueues EXCEPT ![ReplayedReq.line] = Tail(@)]
              /\ \/ ReplayedReq' = None
                 \/ \E l \in Lines : /\ LineQueues'[l] # <<>>
                                     /\ ReplayedReq' = Head(LineQueues'[l])
           \/ \E r \in Requests :
                 /\ ReplayedReq = None
                 /\ LineQueues' = [LineQueues EXCEPT ![r.line] = Append(@, r)]
                 /\ ReplayedReq' = ReplayedReq
<1>1. \/ ReplayedReq' = None
      \/ \E l \in Lines : LineQueues'[l] # <<>> /\ ReplayedReq' = Head(LineQueues'[l])
  <2>1. QueueHead'
    BY DEF QueueInv
  <2>2. CASE ~Replayed'
    BY <2>2 DEF ReplayedReq
  <2>3. CASE Replayed'
    <3>1. ReplayedReq' = st1'.req
      BY <2>3 DEF ReplayedReq
    <3> QED
      BY <2>1, <2>3, <3>1 DEF QueueHead
  <2> QED
    BY <2>2, <2>3
<1>2. CASE Alloc
  <2>1. /\ LineQueues' = [LineQueues EXCEPT ![st1.req.line] = Append(@, st1.req)]
        /\ st1.req \in Requests
    BY <1>2, QueueAlloc
  <2> QED
    BY <1>2, <2>1, NoneReplayed
<1>3. CASE Link
  <2>1. /\ LineQueues' = [LineQueues EXCEPT ![st1.req.line] = Append(@, st1.req)]
        /\ st1.req \in Requests
    BY <1>3, QueueLink
  <2> QED
    BY <1>3, <2>1, NoneReplayed
<1>4. CASE Commit
  <2>1. Replayed
    BY <1>4 DEF Commit
  <2>2. /\ st1.req \in Requests
        /\ LineQueues[st1.req.line] # <<>>
        /\ Head(LineQueues[st1.req.line]) = st1.req
    BY <2>1 DEF QueueInv, QueueHead
  <2>3. LineQueues' = [LineQueues EXCEPT ![st1.req.line] = Tail(@)]
    BY <1>4, QueueCommit
  <2>4. ReplayedReq = st1.req /\ st1.req # None
    BY <2>1, <2>2, NoneAssumption DEF ReplayedReq
  <2> QED
    BY <1>1, <2>2, <2>3, <2>4
<1>5. CASE Pass \/ Rollback \/ Wake \/ WakeFence \/ UNCHANGED rtabVars
  <2>1. RtabInv /\ AllListed /\ TypeOK'
    BY DEF QueueInv, RtabInv
  <2>2. Starts' = Starts
    BY <1>5, <2>1, StartsStep
  <2>3. UNCHANGED <<valid, nextq, tailq, req>>
    BY <1>5 DEF Pass, Rollback, Wake, WakeFence, rtabVars
  <2>4. \A e \in Starts : Lists'[e] = Lists[e]
    BY <2>1, <2>2, <2>3, ListedSame
  <2>5. LineQueues' = LineQueues
    BY <2>2, <2>3, <2>4, QueuesKept
  <2> QED
    BY <1>1, <2>5
<1> QED
  BY <1>2, <1>3, <1>4, <1>5 DEF Next

\* The table implements the queues the rest of the cache relies on, for any
\* number of entries and lines: requests of a line are replayed in order, none
\* is lost, skipped or replayed twice (ImplementsQueues).
THEOREM TableImplementsQueues == Spec => ImplementsQueues
<1>1. Init => Queues!QueueInit
  <2> SUFFICES ASSUME Init PROVE Queues!QueueInit
    OBVIOUS
  <2>1. Starts = {} /\ ~Replayed
    BY DEF Init, Starts, Popped, Replayed
  <2>2. ASSUME NEW l \in Lines PROVE Queue(l) = <<>>
    <3>1. Own(l) = {} /\ Fences(l) = {}
      BY <2>1 DEF Own, Fences
    <3>2. Held({}) = <<>>
      BY DEF Held
    <3> QED
      BY <3>1, <3>2 DEF Queue
  <2> QED
    BY <2>1, <2>2 DEF Queues!QueueInit
<1>2. QueueInv /\ QueueInv' /\ [Next]_rtabVars => [Queues!QueueNext]_Queues!queueVars
  <2> SUFFICES ASSUME QueueInv, QueueInv', [Next]_rtabVars
               PROVE  Queues!QueueNext
    OBVIOUS
  <2> QED
    BY QueueStep DEF LineQueues, ReplayedReq, Queues!QueueNext, Queues!Replay,
                     Queues!Enqueue
<1> QED
  BY <1>1, <1>2, QueueInvariant, PTL DEF Spec, ImplementsQueues, Queues!QueueSpec
=============================================================================
