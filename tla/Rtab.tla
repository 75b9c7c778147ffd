-------------------------------- MODULE Rtab --------------------------------
(***************************************************************************)
(* The replay table (hpdcache_rtab.sv) entry by entry, and stage 1 of the  *)
(* pipeline as its user: requests on hold for one line are linked by their *)
(* next pointers, the head of a list is replayed first, and right behind   *)
(* it the rest of its list.                                                *)
(*                                                                         *)
(* A step is one clock cycle: what stage 1 does with its request, and the  *)
(* request stage 0 accepts meanwhile unless stage 1 inserts a nop.  Both   *)
(* read the registers as they were.  The pulses that clear dependencies    *)
(* are steps of their own: requests are never held for an event that       *)
(* happens in the same cycle.                                              *)
(***************************************************************************)
EXTENDS Integers, Sequences, FiniteSets

CONSTANTS
    N,            \* rtabEntries
    Lines,        \* cache lines
    Tids,         \* identifiers of requests
    SingleEntry,  \* cfg_single_entry_i
    None          \* an empty stage 1

VARIABLES
    valid, headq, tailq,  \* valid_q, head_q, tail_q: sets of entries
    nextq,                \* next_q
    deps,                 \* deps_q: "none", "wait" (a resource) or "pend"
    req,                  \* req_q
    popState, popNext,    \* pop_try_state_q, pop_try_next_q
    st1                   \* stage 1: None or [req, replay, ptr]

rtabVars == <<valid, headq, tailq, nextq, deps, req, popState, popNext, st1>>

Entries == 0 .. N - 1
Requests == [tid : Tids, line : Lines, fence : BOOLEAN]
Stage1Requests == [req : Requests, replay : BOOLEAN, ptr : Entries]

ASSUME NAssumption == N \in Nat \ {0}
ASSUME SingleEntryAssumption == SingleEntry \in BOOLEAN
ASSUME NoneAssumption == None \notin Stage1Requests \cup Requests

-----------------------------------------------------------------------------
(* Status signals.                                                           *)

ready == {e \in valid \cap headq : deps[e] = "none"}

\* Mutant of FreeEntry: entries are counted instead of searched.
FreeEntryCount == Cardinality(valid) + 1

\* free_alloc: the lowest free entry
FreeEntry == CHOOSE e \in Entries \ valid : \A f \in Entries \ valid : e <= f

\* Mutant of Full: the last entry is thought to be free.
FullLate == SingleEntry /\ valid # {}

\* full_o
Full == valid = Entries \/ (SingleEntry /\ valid # {})

\* fence_o
FenceWaits == \E e \in Entries : deps[e] = "pend"

\* pop_try_valid_o
PopValid == popState # "HEAD" \/ ready # {}

\* match_check_tail
CheckHit(l) == {e \in valid : req[e].line = l}
CheckTail(l) == CheckHit(l) \cap tailq

-----------------------------------------------------------------------------
(* Stage 0.                                                                  *)

\* pop_entry_sel_comb: entries that may be popped (round robin)
PopSel == IF popState = "HEAD" THEN ready ELSE {popNext}

\* pop_try_i: entry e is replayed; hd are the heads left by stage 1
PopTry(e, hd) ==
    /\ headq' = hd \ {e}
    /\ IF e \in tailq
       THEN popState' = "HEAD" /\ UNCHANGED popNext
       ELSE popState' = "NEXT" /\ popNext' = nextq[e]
    /\ st1' = [req |-> req[e], replay |-> TRUE, ptr |-> e]

\* identifiers of requests in stage 1 or on hold
Busy == {req[e].tid : e \in valid} \cup
        (IF st1 = None THEN {} ELSE {st1.req.tid})

\* Mutant of CoreReady: a fence on hold is not waited for.
CoreReadyNoFence == ~PopValid /\ ~Full

\* core_req_ready_o
CoreReady == ~PopValid /\ ~Full /\ ~FenceWaits

\* No request enters stage 1.
Idle(hd) ==
    /\ headq' = hd
    /\ st1' = None
    /\ popState' = IF popState = "NEXT" THEN "NEXT_WAIT" ELSE popState
    /\ UNCHANGED popNext

\* A request of the core enters stage 1.
TakeCore(hd) ==
    /\ CoreReady
    /\ \E r \in Requests :
          /\ r.tid \notin Busy
          /\ st1' = [req |-> r, replay |-> FALSE, ptr |-> 0]
    /\ headq' = hd
    /\ UNCHANGED <<popState, popNext>>

\* What enters stage 1 next; hd are the heads left by stage 1.
Stage0(nop, hd) ==
    \/ Idle(hd)
    \/ ~nop /\ \E e \in PopSel : PopTry(e, hd)
    \/ ~nop /\ TakeCore(hd)

-----------------------------------------------------------------------------
(* Stage 1.                                                                  *)

Core == st1 # None /\ ~st1.replay
Replayed == st1 # None /\ st1.replay

\* The request is a conflict with one on hold: rtab_check_hit_i
Conflict == ~st1.req.fence /\ CheckHit(st1.req.line) # {}

\* Dependencies of a request put on hold; none while the victim buffer is
\* waited for.
DepsOf(r) == IF r.fence THEN {"pend"} ELSE {"none", "wait"}

\* Nothing in stage 1, or a request that is answered or aborted.
Pass ==
    /\ st1 = None \/ Core
    /\ Stage0(FALSE, headq)
    /\ UNCHANGED <<valid, tailq, nextq, deps, req>>

\* alloc_i: a new list
Alloc ==
    /\ Core /\ ~Conflict
    /\ valid' = valid \cup {FreeEntry}
    /\ tailq' = tailq \cup {FreeEntry}
    /\ \E d \in DepsOf(st1.req) : deps' = [deps EXCEPT ![FreeEntry] = d]
    /\ req' = [req EXCEPT ![FreeEntry] = st1.req]
    /\ Stage0(TRUE, headq \cup {FreeEntry})
    /\ UNCHANGED nextq

\* Mutant of Link: the old tail stays a tail.
LinkKeepsTail ==
    /\ Core /\ Conflict
    /\ valid' = valid \cup {FreeEntry}
    /\ tailq' = tailq \cup {FreeEntry}
    /\ nextq' = [e \in Entries |->
                    IF e \in CheckTail(st1.req.line) THEN FreeEntry
                    ELSE nextq[e]]
    /\ req' = [req EXCEPT ![FreeEntry] = st1.req]
    /\ Stage0(TRUE, headq \ {FreeEntry})
    /\ UNCHANGED deps

\* Mutant of Link: the nop stops the core only, and the old tail may be popped
\* meanwhile.
LinkNoNop ==
    /\ Core /\ Conflict
    /\ valid' = valid \cup {FreeEntry}
    /\ tailq' = (tailq \ CheckTail(st1.req.line)) \cup {FreeEntry}
    /\ nextq' = [e \in Entries |->
                    IF e \in CheckTail(st1.req.line) THEN FreeEntry
                    ELSE nextq[e]]
    /\ req' = [req EXCEPT ![FreeEntry] = st1.req]
    /\ \/ Idle(headq \ {FreeEntry})
       \/ \E e \in PopSel : PopTry(e, headq \ {FreeEntry})
    /\ UNCHANGED deps

\* alloc_and_link_i: behind the tail of the list of its line
Link ==
    /\ Core /\ Conflict
    /\ valid' = valid \cup {FreeEntry}
    /\ tailq' = (tailq \ CheckTail(st1.req.line)) \cup {FreeEntry}
    /\ nextq' = [e \in Entries |->
                    IF e \in CheckTail(st1.req.line) THEN FreeEntry
                    ELSE nextq[e]]
    /\ req' = [req EXCEPT ![FreeEntry] = st1.req]
    /\ Stage0(TRUE, headq \ {FreeEntry})
    /\ UNCHANGED deps

\* pop_commit_i: a replayed request leaves; the next one may follow it, or,
\* after an error response, one of the core
Commit ==
    /\ Replayed
    /\ valid' = valid \ {st1.ptr}
    /\ Stage0(FALSE, headq)
    /\ UNCHANGED <<tailq, nextq, deps, req>>

\* Mutant of Rollback: the list that was being popped is continued.
RollbackContinues ==
    /\ Replayed
    /\ headq' = headq \cup {st1.ptr}
    /\ \E d \in DepsOf(st1.req) : deps' = [deps EXCEPT ![st1.ptr] = d]
    /\ st1' = None
    /\ UNCHANGED <<popState, valid, tailq, nextq, req, popNext>>

\* pop_rback_i: a replayed request waits again, at the head of its list
Rollback ==
    /\ Replayed
    /\ headq' = headq \cup {st1.ptr}
    /\ \E d \in DepsOf(st1.req) : deps' = [deps EXCEPT ![st1.ptr] = d]
    /\ popState' = IF popState = "NEXT" THEN "HEAD" ELSE popState
    /\ st1' = None
    /\ UNCHANGED <<valid, tailq, nextq, req, popNext>>

-----------------------------------------------------------------------------
(* Pulses.                                                                   *)

\* deps_rst: the resource entry e waits for is available
Wake ==
    /\ \E e \in Entries :
          deps[e] = "wait" /\ deps' = [deps EXCEPT ![e] = "none"]
    /\ UNCHANGED <<valid, headq, tailq, nextq, req, popState, popNext, st1>>

\* deps_rst.pend_trans: nothing is pending but fences (fence_only)
WakeFence ==
    /\ st1 = None
    /\ valid = {e \in Entries : deps[e] = "pend"}
    /\ valid # {}
    /\ deps' = [e \in Entries |-> IF deps[e] = "pend" THEN "none" ELSE deps[e]]
    /\ UNCHANGED <<valid, headq, tailq, nextq, req, popState, popNext, st1>>

-----------------------------------------------------------------------------
Init ==
    /\ valid = {} /\ headq = {} /\ tailq = {}
    /\ nextq = [e \in Entries |-> 0]
    /\ deps = [e \in Entries |-> "none"]
    /\ req \in [Entries -> Requests]
    /\ popState = "HEAD" /\ popNext = 0
    /\ st1 = None

Next == Pass \/ Alloc \/ Link \/ Commit \/ Rollback \/ Wake \/ WakeFence

Spec == Init /\ [][Next]_rtabVars

-----------------------------------------------------------------------------
(* The queues the linked lists stand for.                                    *)

\* The entry a list that is being popped starts with: the one in stage 1, or
\* the one whose predecessor has just left.
Popped ==
    IF Replayed THEN {st1.ptr}
    ELSE IF popState = "HEAD" THEN {} ELSE {popNext}

\* Entries that start a list.
Starts == (valid \cap headq) \cup Popped

\* The entries that follow entry e along the next pointers nx.
Follow(e, nx) ==
    LET node[i \in 0 .. N] == IF i = 0 THEN e ELSE nx[node[i - 1]]
    IN  node

\* The list that starts at entry e, up to its tail (or N + 1 entries of a list
\* without a tail).
LinkedList(e, nx, tl) ==
    LET node == Follow(e, nx)
        ends == {i \in 0 .. N : node[i] \in tl}
        last == IF ends = {} THEN N
                ELSE CHOOSE i \in ends : \A j \in ends : i <= j
    IN  [i \in 1 .. last + 1 |-> node[i - 1]]

Chain(e) == LinkedList(e, nextq, tailq)

\* Starts of lists for line l: of requests linked to each other, and of a fence.
Own(l) == {e \in Starts : req[e].line = l /\ ~req[e].fence}
Fences(l) == {e \in Starts : req[e].line = l /\ req[e].fence}

\* The requests of the list that starts at the entry of S.
Held(S) ==
    IF S = {} THEN <<>>
    ELSE LET c == Chain(CHOOSE e \in S : TRUE) IN [i \in DOMAIN c |-> req[c[i]]]

\* Requests on hold for line l, oldest first; a fence comes last.
Queue(l) == Held(Own(l)) \o Held(Fences(l))

Queues == INSTANCE ReplayQueue
    WITH queue <- [l \in Lines |-> Queue(l)],
         replayed <- IF Replayed THEN st1.req ELSE None

-----------------------------------------------------------------------------
(* Properties.                                                               *)

\* Every register holds a value of its type.
TypeOK ==
    /\ valid \subseteq Entries /\ headq \subseteq Entries
    /\ tailq \subseteq Entries
    /\ nextq \in [Entries -> Entries]
    /\ deps \in [Entries -> {"none", "wait", "pend"}]
    /\ req \in [Entries -> Requests]
    /\ popState \in {"HEAD", "NEXT", "NEXT_WAIT"}
    /\ popNext \in Entries
    /\ st1 = None \/ st1 \in Stage1Requests

\* The linked lists implement the queues of ReplayQueue: requests of a line
\* are replayed in order, none is lost, skipped or replayed twice.
ImplementsQueues == Queues!QueueSpec

\* Every entry in use is in the list of its line exactly once: no link to a
\* tail that is being popped leaves an orphan.
NoOrphan ==
    /\ \A e \in Starts : \A i \in DOMAIN Chain(e) : Chain(e)[i] \in valid
    /\ \A f \in valid : \E e \in Starts : \E i \in DOMAIN Chain(e) :
          Chain(e)[i] = f
    /\ \A e, f \in Starts :
          e # f => \A i \in DOMAIN Chain(e), j \in DOMAIN Chain(f) :
                      Chain(e)[i] # Chain(f)[j]
    /\ \A e \in Starts : \A i \in DOMAIN Chain(e) :
          req[Chain(e)[i]].line = req[e].line

\* A link leads to a valid entry of the same line, no two links lead to the
\* same entry, and none to a head or to the entry being popped.
LinksWellFormed ==
    /\ headq \subseteq valid
    /\ Popped \subseteq valid \ headq
    /\ \A e \in valid \ tailq :
          /\ nextq[e] \in valid
          /\ nextq[e] \notin headq
          /\ nextq[e] \notin Popped
          /\ req[nextq[e]].line = req[e].line
          /\ \A f \in valid \ tailq : nextq[e] = nextq[f] => e = f

\* The pop state machine and stage 1 are at the same place of the same list.
PopFollowsStage1 ==
    /\ Core => popState = "HEAD"
    /\ Replayed =>
          /\ st1.req = req[st1.ptr]
          /\ popState = IF st1.ptr \in tailq THEN "HEAD" ELSE "NEXT"
    /\ popState = "NEXT" => Replayed /\ popNext = nextq[st1.ptr]

\* The list of a line has one tail.
OneTail ==
    \A e, f \in valid \cap tailq :
        ~req[e].fence /\ ~req[f].fence /\ req[e].line = req[f].line => e = f

\* The linked lists are well formed, entry by entry.
ListsWellFormed == LinksWellFormed /\ PopFollowsStage1 /\ OneTail

\* A fence is on hold alone: there is one at most, it is never part of a list,
\* only it waits for pending transactions, and no core request comes after it
\* until it has left, although fence_o is read a cycle before the allocation.
FenceAlone ==
    /\ \A e \in valid : req[e].fence =>
          /\ e \in tailq
          /\ e \in headq \/ (Replayed /\ e = st1.ptr)
          /\ deps[e] # "wait"
    /\ \A e, f \in valid : req[e].fence /\ req[f].fence => e = f
    /\ \A e \in Entries :
          deps[e] = "pend" => e \in valid \cap headq /\ req[e].fence
    /\ Core => \A e \in valid : ~req[e].fence

\* The assertions of the code on its inputs: a checked line has one tail at
\* most, an allocation finds a free entry, a replayed entry is valid, and one
\* fence at most is pending.
AssertionsHold ==
    /\ Core /\ ~st1.req.fence => Cardinality(CheckTail(st1.req.line)) <= 1
    /\ Core => valid # Entries
    /\ Core /\ SingleEntry => ~Conflict
    /\ Replayed => st1.ptr \in valid
    /\ Cardinality({e \in Entries : deps[e] = "pend"}) <= 1
=============================================================================
