----------------------------- MODULE ReplayQueue -----------------------------
(***************************************************************************)
(* What the replay table promises to the rest of the cache: requests on    *)
(* hold for a line form a queue.  One request at a time is replayed, always *)
(* the oldest of its line, and it leaves the table only when its replay    *)
(* succeeds.  Hpdcache.tla uses the table in this form.                    *)
(***************************************************************************)
EXTENDS Integers, Sequences

CONSTANTS
    Lines,     \* cache lines
    Requests,  \* requests: records with a line
    None       \* no request

VARIABLES
    queue,     \* requests on hold for each line, oldest first
    replayed   \* the request being replayed, or None

queueVars == <<queue, replayed>>

QueueInit ==
    /\ queue = [l \in Lines |-> <<>>]
    /\ replayed = None

\* A request is put on hold behind the older ones of its line.
Enqueue(r) ==
    /\ replayed = None
    /\ queue' = [queue EXCEPT ![r.line] = Append(@, r)]
    /\ UNCHANGED replayed

\* The replayed request succeeds, or fails and stays the oldest of its line,
\* and a request may be replayed next.
Replay ==
    /\ \/ UNCHANGED queue
       \/ /\ replayed # None
          /\ queue[replayed.line] # <<>>
          /\ Head(queue[replayed.line]) = replayed
          /\ queue' = [queue EXCEPT ![replayed.line] = Tail(@)]
    /\ \/ replayed' = None
       \/ \E l \in Lines :
             /\ queue'[l] # <<>>
             /\ replayed' = Head(queue'[l])

QueueNext == Replay \/ \E r \in Requests : Enqueue(r)

QueueSpec == QueueInit /\ [][QueueNext]_queueVars
=============================================================================
