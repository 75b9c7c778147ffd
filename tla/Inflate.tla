------------------------------ MODULE Inflate ------------------------------
(***************************************************************************)
(* The decompressor of thirdparty/miniz/miniz.c as mz_inflate drives it    *)
(* with MZ_SYNC_FLUSH: tinfl_decompress is a coroutine that stops when its *)
(* input is used up or its window is full and goes on where it stopped;    *)
(* its bit buffer runs ahead of what it needs and is given back.           *)
(* The units it reads are those of Deflate, the window has the size of the *)
(* compressor's dictionary.                                                *)
(***************************************************************************)
EXTENDS Deflate

VARIABLES
    inf,      \* tinfl_decompressor
    win,      \* m_dict of the inflate_state
    dofs,     \* m_dict_ofs
    davail,   \* m_dict_avail
    last,     \* m_last_status
    inp,      \* avail_in and next_in: the input not yet taken
    dst,      \* what the current mz_inflate has given to the caller
    droom,    \* avail_out
    icall,    \* status of the current mz_inflate, and if it began with input
    ipc       \* "idle", "run", "exit" or "returned"

inflateVars == <<inf, win, dofs, davail, last, inp, dst, droom, icall, ipc>>

\* mz_inflateInit.
InflateInit ==
    /\ inf = [pc |-> "header", ahead |-> <<>>, took |-> 0, n |-> 0, counter |-> 0,
              dist |-> 0, from |-> 0, final |-> FALSE, back |-> "codes",
              check |-> <<1, 0>>, sum |-> <<1, 0>>]
    /\ win = [i \in 0 .. Dict - 1 |-> 0] /\ dofs = 0 /\ davail = 0
    /\ last = "NEEDS_MORE_INPUT" /\ inp = <<>> /\ dst = <<>> /\ droom = 0
    /\ icall = [status |-> "OK", input |-> FALSE] /\ ipc = "idle"

(***************************************************************************)
(* Input: from the bit buffer, then from the input buffer.                 *)
(***************************************************************************)
WindowFull == dofs + inf.n = Dict
Have == inf.ahead # <<>> \/ inp # <<>>
NextUnit == Head(inf.ahead \o inp)

\* TINFL_GET_BYTE and TINFL_GET_BITS; go says how the decoder continues.
Take(go) ==
    IF inf.ahead # <<>>
    THEN inf' = [go EXCEPT !.ahead = Tail(inf.ahead)] /\ UNCHANGED inp
    ELSE inf' = [go EXCEPT !.took = @ + 1] /\ inp' = Tail(inp)

\* The fast path of the literal loop fills the bit buffer beyond one code.
FastPath == inf.ahead = <<>> /\ Len(inp) >= 2 /\ dofs + inf.n + 2 <= Dict
Fill ==
    /\ inf.pc = "codes" /\ FastPath
    /\ inf' = [inf EXCEPT !.ahead = SubSeq(inp, 1, 2), !.took = @ + 2]
    /\ inp' = SubSeq(inp, 3, Len(inp))
    /\ UNCHANGED <<win, ipc, icall>>

(***************************************************************************)
(* common_exit: give back what was read ahead in this call, and checksum   *)
(* the output of the call.                                                 *)
(***************************************************************************)
CommonExit(status) ==
    LET back  == IF status = "NEEDS_MORE_INPUT" THEN 0 ELSE Min({Len(inf.ahead), inf.took})
        keep  == Len(inf.ahead) - back
        bytes == [i \in 1 .. inf.n |-> win[dofs + i - 1]]
        check == mz_adler32(inf.check, bytes)
    IN  /\ inp' = SubSeq(inf.ahead, keep + 1, Len(inf.ahead)) \o inp
        /\ inf' = [inf EXCEPT !.ahead = SubSeq(@, 1, keep), !.took = 0, !.check = check]
        /\ icall' = [icall EXCEPT !.status =
                        IF status = "DONE" /\ check # inf.sum THEN "ADLER32_MISMATCH" ELSE status]
        /\ ipc' = "exit" /\ UNCHANGED win

Stop == UNCHANGED <<win, ipc, icall>>

(***************************************************************************)
(* tinfl_decompress between two points where it can stop.                  *)
(***************************************************************************)
Header ==
    /\ inf.pc = "header" /\ Have
    /\ IF NextUnit.u = "header" THEN Take([inf EXCEPT !.pc = "block"]) /\ Stop
       ELSE CommonExit("FAILED")

BlockHeader ==
    /\ inf.pc = "block" /\ Have
    /\ IF NextUnit.u = "block"
       THEN /\ Take([inf EXCEPT !.final = NextUnit.final, !.counter = NextUnit.raw,
                                !.pc = IF NextUnit.raw >= 0 THEN "raw" ELSE "codes"])
            /\ Stop
       ELSE CommonExit("FAILED")

EndBlock == [inf EXCEPT !.pc = IF inf.final THEN "check" ELSE "block"]

Put(x, go) ==
    /\ win' = [win EXCEPT ![dofs + inf.n] = x]
    /\ inf' = [go EXCEPT !.n = @ + 1]
    /\ UNCHANGED <<inp, ipc, icall>>

\* A stored block: bytes left in the bit buffer first.
RawEnd == /\ inf.pc = "raw" /\ inf.counter = 0
          /\ inf' = EndBlock /\ UNCHANGED inp /\ Stop
RawByte ==
    /\ inf.pc = "raw" /\ inf.counter > 0 /\ Have
    /\ inf.ahead # <<>> \/ ~ WindowFull
    /\ Take([inf EXCEPT !.pc = "put", !.dist = NextUnit.x, !.counter = @ - 1, !.back = "raw"])
    /\ Stop

\* A literal, a match or the end of the block.
Decode ==
    /\ inf.pc = "codes" /\ Have /\ ~ FastPath
    /\ CASE NextUnit.u = "lit" ->
               Take([inf EXCEPT !.pc = "put", !.dist = NextUnit.x, !.back = "codes"])
         [] NextUnit.u = "match" ->
               Take([inf EXCEPT !.pc = "copy", !.counter = NextUnit.len,
                                !.dist = NextUnit.dist, !.from = dofs + inf.n])
         [] OTHER -> Take(EndBlock)
    /\ Stop

PutByte == inf.pc = "put" /\ ~ WindowFull /\ Put(inf.dist, [inf EXCEPT !.pc = inf.back])

\* The copy of a match may stop in the middle, when the window is full.
CopyEnd == /\ inf.pc = "copy" /\ inf.counter = 0
           /\ inf' = [inf EXCEPT !.pc = "codes"] /\ UNCHANGED inp /\ Stop
CopyByte == /\ inf.pc = "copy" /\ inf.counter > 0 /\ ~ WindowFull
            /\ Put(win[(inf.from - inf.dist) % Dict],
                   [inf EXCEPT !.counter = @ - 1, !.from = @ + 1])

\* After the last block the bit buffer is put back, then the checksum read.
CheckSum ==
    /\ inf.pc = "check" /\ Have
    /\ IF NextUnit.u = "adler" THEN Take([inf EXCEPT !.pc = "done", !.sum = NextUnit.a]) /\ Stop
       ELSE CommonExit("FAILED")

NeedsInput ==
    \/ inf.pc \in {"header", "block", "codes", "check"} /\ ~ Have
    \/ inf.pc = "raw" /\ inf.counter > 0 /\ ~ Have /\ ~ WindowFull
\* Mutant: the copy of a match does not yield when the window is full.
NeedsOutputNoCopy ==
    \/ inf.pc = "put" /\ WindowFull
    \/ inf.pc = "raw" /\ inf.counter > 0 /\ inf.ahead = <<>> /\ WindowFull

NeedsOutput ==
    \/ inf.pc = "put" /\ WindowFull
    \/ inf.pc = "copy" /\ inf.counter > 0 /\ WindowFull
    \/ inf.pc = "raw" /\ inf.counter > 0 /\ inf.ahead = <<>> /\ WindowFull

Suspend ==
    \/ NeedsInput /\ CommonExit("NEEDS_MORE_INPUT")
    \/ NeedsOutput /\ CommonExit("HAS_MORE_OUTPUT")
    \/ inf.pc = "done" /\ CommonExit("DONE")

tinfl_decompress ==
    /\ ipc = "run"
    /\ \/ Fill \/ Header \/ BlockHeader \/ RawEnd \/ RawByte \/ Decode
       \/ PutByte \/ CopyEnd \/ CopyByte \/ CheckSum \/ Suspend
    /\ UNCHANGED <<dofs, davail, last, dst, droom>>

(***************************************************************************)
(* mz_inflate.                                                             *)
(***************************************************************************)
\* Give the caller what the window holds for it.
Deliver(n, avail) ==
    /\ dst' = dst \o [i \in 1 .. n |-> win[(dofs + i - 1) % Dict]]
    /\ droom' = droom - n /\ davail' = avail - n /\ dofs' = (dofs + n) % Dict

Failed(s) == s \in {"FAILED", "ADLER32_MISMATCH"}

mz_inflate(space) ==
    /\ ipc = "idle"
    /\ dst' = <<>> /\ droom' = space
    /\ icall' = [status |-> "DATA_ERROR", input |-> inp # <<>>]
    /\ ipc' = IF Failed(last) THEN "returned" ELSE IF davail > 0 THEN "drain" ELSE "run"
    /\ inf' = [inf EXCEPT !.n = 0]
    /\ UNCHANGED <<win, dofs, davail, last, inp>>

InflateDrain ==
    /\ ipc = "drain"
    /\ Deliver(Min({davail, droom}), davail)
    /\ icall' = [icall EXCEPT !.status =
                     IF last = "DONE" /\ davail' = 0 THEN "STREAM_END" ELSE "OK"]
    /\ ipc' = "returned"
    /\ UNCHANGED <<inf, win, last, inp>>

InflateLoop ==
    LET status == icall.status
        Return(s) == icall' = [icall EXCEPT !.status = s] /\ ipc' = "returned"
    IN  /\ ipc = "exit"
        /\ last' = status
        /\ Deliver(Min({inf.n, droom}), inf.n)
        /\ inf' = [inf EXCEPT !.n = 0]
        /\ CASE Failed(status) -> Return("DATA_ERROR")
             [] status = "NEEDS_MORE_INPUT" /\ ~ icall.input -> Return("BUF_ERROR")
             [] status = "DONE" -> Return(IF davail' = 0 THEN "STREAM_END" ELSE "OK")
             [] status # "DONE" /\ (status # "NEEDS_MORE_INPUT" \/ icall.input)
                  /\ ~ Failed(status) /\ (inp = <<>> \/ droom' = 0 \/ davail' > 0) -> Return("OK")
             [] OTHER -> ipc' = "run" /\ UNCHANGED icall
        /\ UNCHANGED <<win, inp>>

InflateNext == tinfl_decompress \/ InflateDrain \/ InflateLoop
=============================================================================
