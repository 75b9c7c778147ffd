------------------------------ MODULE Deflate ------------------------------
(***************************************************************************)
(* The compressor of thirdparty/miniz/miniz.c as mz_deflate drives it: a   *)
(* circular dictionary with its lookahead, greedy or lazy parsing into     *)
(* literals and matches, blocks that are coded or sent raw, and an output  *)
(* that may not take all of a block at once.  The wire is a sequence of    *)
(* units: a header, a block header, a byte, a literal, a match, an end of  *)
(* block, a checksum; how the units become bits is in Huffman.  Hash       *)
(* chains and probe limits only decide which of the valid matches is       *)
(* found, so tdefl_find_match is a choice among these.                     *)
(***************************************************************************)
EXTENDS Integers, Sequences, FiniteSets, FiniteSetsExt

CONSTANTS Dict,      \* TDEFL_LZ_DICT_SIZE and TINFL_LZ_DICT_SIZE (32768)
          MinMatch,  \* TDEFL_MIN_MATCH_LEN (3)
          MaxMatch,  \* TDEFL_MAX_MATCH_LEN (258)
          LongMatch, \* a match this long is not deferred (128)
          CodeBuf,   \* codes that fill m_lz_code_buf
          LongBlock, \* bytes after which a poor block is flushed (31 K)
          AdlerBase  \* 65521

ASSUME DeflateAssumption ==
    /\ Dict \in Nat /\ MaxMatch \in Nat /\ MinMatch \in 2 .. MaxMatch /\ MaxMatch < Dict
    /\ LongMatch \in Nat /\ CodeBuf \in Nat \ {0} /\ LongBlock \in Nat /\ AdlerBase \in Nat \ {0, 1}

VARIABLES
    z,       \* tdefl_compressor
    src,     \* avail_in and next_in: the input the current call still has
    taken,   \* the input taken by the current tdefl_compress
    out,     \* what the current mz_deflate has put in the output buffer
    room,    \* avail_out
    call,    \* flush argument, status and progress of the current mz_deflate
    cpc      \* "idle", "enter", "loop", "tail" or "ret"

deflateVars == <<z, src, taken, out, room, call, cpc>>

(***************************************************************************)
(* mz_adler32 over a sequence of bytes.                                    *)
(***************************************************************************)
mz_adler32(adler, bytes) ==
    LET sum[i \in 0 .. Len(bytes)] ==
            IF i = 0 THEN adler
            ELSE LET a == (sum[i - 1][1] + bytes[i]) % AdlerBase
                 IN  <<a, (sum[i - 1][2] + a) % AdlerBase>>
    IN  sum[Len(bytes)]

\* mz_deflateInit and tdefl_init; the level decides on greedy parsing.
tdefl_init(greedy) ==
    [greedy |-> greedy, pos |-> 0, look |-> 0, dsize |-> 0,
     dict |-> [i \in 0 .. Dict - 1 |-> 0], total |-> 0, codes |-> <<>>,
     cpos |-> 0, first |-> TRUE, pend |-> <<>>, finished |-> FALSE,
     wants |-> FALSE, prev |-> "OKAY", saved |-> [len |-> 0, dist |-> 0, lit |-> 0],
     adler |-> <<1, 0>>]

DeflateInit(greedy) ==
    /\ z = tdefl_init(greedy) /\ src = <<>> /\ taken = <<>> /\ out = <<>> /\ room = 0
    /\ call = [flush |-> "NO", status |-> "OK", progress |-> FALSE] /\ cpc = "idle"

(***************************************************************************)
(* tdefl_flush_block: one block, coded or raw (when its bytes are still in *)
(* the dictionary), with the zlib header before the first and the checksum *)
(* after the last; another flush ends with an empty raw block.             *)
(***************************************************************************)
RawBytes(d) == [i \in 1 .. d.total |-> d.dict[(d.cpos + i - 1) % Dict]]

MayBeRaw(d) == d.total > 0 /\ d.pos - d.cpos <= d.dsize

BlockUnits(d, flush, raw) ==
    LET final == flush = "FINISH" IN
    (IF d.first THEN <<[u |-> "header"]>> ELSE <<>>)
    \o (IF raw THEN <<[u |-> "block", final |-> final, raw |-> d.total]>>
                    \o [i \in 1 .. d.total |-> [u |-> "byte", x |-> RawBytes(d)[i]]]
        ELSE <<[u |-> "block", final |-> final, raw |-> -1]>>
                    \o d.codes \o <<[u |-> "eob"]>>)
    \o (CASE flush = "FINISH" -> <<[u |-> "adler", a |-> d.adler]>>
          [] flush \in {"SYNC", "FULL"} -> <<[u |-> "block", final |-> FALSE, raw |-> 0]>>
          [] OTHER -> <<>>)

\* The compressor after the block, and what did not fit in the output.
Flushed(d, units) ==
    [d EXCEPT !.cpos = d.cpos + d.total, !.total = 0, !.codes = <<>>, !.first = FALSE,
              !.pend = SubSeq(units, room + 1, Len(units))]

flush_block(d, flush, raw) ==
    LET units == BlockUnits(d, flush, raw)
        n     == Min({room, Len(units)})
    IN  /\ z' = Flushed(d, units)
        /\ out' = out \o SubSeq(units, 1, n)
        /\ room' = room - n

(***************************************************************************)
(* tdefl_compress_normal, one iteration of its loop.                       *)
(***************************************************************************)
\* Mutant: the dictionary is not made smaller for the bytes the lookahead takes.
FillLookaheadKeepsDict(d, bytes) ==
    LET n == Len(bytes)
        At(i) == {k \in 1 .. n : (d.pos + d.look + k - 1) % Dict = i}
    IN  [d EXCEPT !.look = @ + n,
                  !.dict = [i \in 0 .. Dict - 1 |-> IF At(i) = {} THEN @[i] ELSE bytes[Max(At(i))]]]

\* Move input into the dictionary, over the oldest bytes.
FillLookahead(d, bytes) ==
    LET n == Len(bytes)
        At(i) == {k \in 1 .. n : (d.pos + d.look + k - 1) % Dict = i}
    IN  [d EXCEPT !.look = @ + n,
                  !.dict = [i \in 0 .. Dict - 1 |-> IF At(i) = {} THEN @[i] ELSE bytes[Max(At(i))]],
                  !.dsize = Min({@, Dict - (d.look + n)})]

\* How far the lookahead agrees with what is dist bytes before it.
MatchLen(d, dist) ==
    Max({l \in 0 .. d.look :
            \A i \in 0 .. l - 1 : d.dict[(d.pos + i) % Dict] = d.dict[(d.pos + i - dist) % Dict]})

\* A match whose distance is the position itself (modulo Dict) is discarded.
NoMatch == [len |-> 0, dist |-> 0]
find_match(d) ==
    LET least == IF d.saved.len > 0 THEN d.saved.len ELSE MinMatch - 1
    IN  {[len |-> MatchLen(d, dist), dist |-> dist] :
            dist \in {k \in 1 .. d.dsize : MatchLen(d, k) > least /\ k # d.pos % Dict}}
        \cup {NoMatch}

record_literal(d, x) ==
    [d EXCEPT !.total = @ + 1, !.codes = Append(@, [u |-> "lit", x |-> x])]
record_match(d, m) ==
    [d EXCEPT !.total = @ + m.len,
              !.codes = Append(@, [u |-> "match", len |-> m.len, dist |-> m.dist])]

\* Defer the match: the next position may have a longer one.
Defer(d, m) ==
    [d EXCEPT !.saved = [len |-> m.len, dist |-> m.dist, lit |-> d.dict[d.pos % Dict]]]
Forget(d) == [d EXCEPT !.saved = [@ EXCEPT !.len = 0]]

MoveLookahead(d, n) ==
    [d EXCEPT !.pos = @ + n, !.look = @ - n, !.dsize = Min({@ + n, Dict})]

\* The lazy and greedy parsing state machine.
Parse(d, m) ==
    IF d.saved.len > 0
    THEN IF m.len > d.saved.len
         THEN LET e == record_literal(d, d.saved.lit) IN
              IF m.len >= LongMatch THEN MoveLookahead(Forget(record_match(e, m)), m.len)
              ELSE MoveLookahead(Defer(e, m), 1)
         ELSE MoveLookahead(Forget(record_match(d, d.saved)), d.saved.len - 1)
    ELSE IF m.dist = 0 THEN MoveLookahead(record_literal(d, d.dict[d.pos % Dict]), 1)
    ELSE IF d.greedy \/ m.len >= LongMatch THEN MoveLookahead(record_match(d, m), m.len)
    ELSE MoveLookahead(Defer(d, m), 1)

LoopRuns == src # <<>> \/ (call.flush # "NO" /\ z.look > 0)

\* Is it time to flush the codes?  When their buffer is full, and after LongBlock
\* bytes also when they are hardly shorter than the bytes (which is left open).
FlushCodes(d) == {Len(d.codes) >= CodeBuf, Len(d.codes) >= CodeBuf \/ d.total > LongBlock}

CompressIterate ==
    LET n == Min({Len(src), MaxMatch - z.look})
        d == FillLookahead(z, SubSeq(src, 1, n))
    IN  /\ cpc = "loop" /\ LoopRuns
        /\ src' = SubSeq(src, n + 1, Len(src)) /\ taken' = taken \o SubSeq(src, 1, n)
        /\ IF call.flush = "NO" /\ d.look < MaxMatch
           THEN z' = d /\ cpc' = "tail" /\ UNCHANGED <<out, room>>
           ELSE \E m \in find_match(d) :
                  LET e == Parse(d, m) IN
                  \E full \in FlushCodes(e) :
                    IF full
                    THEN /\ \E raw \in {FALSE, MayBeRaw(e)} : flush_block(e, "NO", raw)
                         /\ cpc' = IF z'.pend # <<>> THEN "tail" ELSE "loop"
                    ELSE z' = e /\ UNCHANGED <<out, room, cpc>>
        /\ UNCHANGED call

CompressLoopEnds ==
    /\ cpc = "loop" /\ ~ LoopRuns
    /\ cpc' = "tail"
    /\ UNCHANGED <<z, src, taken, out, room, call>>

(***************************************************************************)
(* tdefl_compress: entry, and what follows the loop.                       *)
(***************************************************************************)
\* tdefl_flush_output_buffer: as much of the rest as the output takes.
flush_output_buffer(d) ==
    LET n == Min({room, Len(d.pend)})
        e == [d EXCEPT !.pend = SubSeq(@, n + 1, Len(@))]
    IN  /\ out' = out \o SubSeq(d.pend, 1, n) /\ room' = room - n
        /\ z' = [e EXCEPT !.prev = IF e.finished /\ e.pend = <<>> THEN "DONE" ELSE "OKAY"]

CompressEnter ==
    /\ cpc = "enter" /\ taken' = <<>>
    /\ LET d == [z EXCEPT !.wants = @ \/ call.flush = "FINISH"] IN
       IF z.prev # "OKAY" \/ (z.wants /\ call.flush # "FINISH")
       THEN z' = [z EXCEPT !.prev = "BAD_PARAM"] /\ cpc' = "ret" /\ UNCHANGED <<out, room>>
       ELSE IF d.pend # <<>> \/ d.finished
       THEN flush_output_buffer(d) /\ cpc' = "ret"
       ELSE z' = d /\ cpc' = "loop" /\ UNCHANGED <<out, room>>
    /\ UNCHANGED <<src, call>>

\* Checksum of the input taken, then the last block of a flush.
CompressTail ==
    /\ cpc = "tail"
    /\ LET d == [z EXCEPT !.adler = mz_adler32(@, taken)] IN
       IF call.flush # "NO" /\ d.look = 0 /\ src = <<>> /\ d.pend = <<>>
       THEN /\ \E raw \in {FALSE, MayBeRaw(d)} :
                 LET units == BlockUnits(d, call.flush, raw)
                     n     == Min({room, Len(units)})
                     e     == [Flushed(d, units) EXCEPT
                                   !.finished = call.flush = "FINISH",
                                   !.dsize = IF call.flush = "FULL" THEN 0 ELSE @]
                 IN  /\ z' = [e EXCEPT !.prev = IF e.finished /\ e.pend = <<>>
                                                THEN "DONE" ELSE "OKAY"]
                     /\ out' = out \o SubSeq(units, 1, n) /\ room' = room - n
       ELSE flush_output_buffer(d)
    /\ cpc' = "ret"
    /\ UNCHANGED <<src, taken, call>>

(***************************************************************************)
(* mz_deflate.                                                             *)
(***************************************************************************)
mz_deflate(flush, bytes, space) ==
    LET done   == z.prev = "DONE"
        status == IF space = 0 THEN "BUF_ERROR"
                  ELSE IF done /\ flush = "FINISH" THEN "STREAM_END"
                  ELSE IF done THEN "BUF_ERROR" ELSE "OK"
    IN  /\ cpc = "idle"
        /\ src' = bytes /\ room' = space /\ out' = <<>> /\ taken' = <<>>
        /\ call' = [flush |-> flush, status |-> status, progress |-> FALSE]
        /\ cpc' = IF status = "OK" THEN "enter" ELSE "returned"
        /\ UNCHANGED z

\* After a tdefl_compress: return, or once more round the loop.
DeflateLoop ==
    LET progress == call.progress \/ taken # <<>> \/ out # <<>>
        Return(s) == call' = [call EXCEPT !.status = s] /\ cpc' = "returned"
    IN  /\ cpc = "ret"
        /\ CASE z.prev = "BAD_PARAM" -> Return("STREAM_ERROR")
             [] z.prev = "DONE" -> Return("STREAM_END")
             [] z.prev = "OKAY" /\ room = 0 -> Return("OK")
             [] z.prev = "OKAY" /\ room > 0 /\ src = <<>> /\ call.flush # "FINISH" ->
                   Return(IF call.flush # "NO" \/ progress THEN "OK" ELSE "BUF_ERROR")
             [] OTHER -> call' = [call EXCEPT !.progress = progress] /\ cpc' = "enter"
        /\ UNCHANGED <<z, src, taken, out, room>>

DeflateNext == \/ CompressEnter \/ CompressIterate \/ CompressLoopEnds
               \/ CompressTail \/ DeflateLoop
=============================================================================
