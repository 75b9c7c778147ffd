----------------------------- MODULE TracePath -----------------------------
(***************************************************************************)
(* From the guest to the test: the QEMU plugin (qemu_plugin.c) records the *)
(* memory accesses of a guest, packs them in a buffer and compresses the   *)
(* buffer into a file (Deflate); the trace reader of the testbench         *)
(* (hpdcache_test_trace_manager.h) decompresses the file by chunks         *)
(* (Inflate) and makes one transaction out of each record.  The file is    *)
(* read after it is written.  An address is its two halves of 32 bits,     *)
(* which take a byte of the model each, and so does a value, whatever its  *)
(* width.                                                                  *)
(***************************************************************************)
EXTENDS Inflate

CONSTANTS SizeBuffer,   \* SIZE_BUFFER of the plugin
          FileChunk,    \* what one read of the file takes (MAX_SIZE_BUFFER)
          OutChunk,     \* the output buffer of the reader (MAX_SIZE_BUFFER)
          DelayMod,     \* 256, the delay is kept in a byte
          ModeArgs,     \* what mode= may be given ("1", the text format, is not replayed)
          Targets,      \* target_name of the QEMU that loads the plugin
          LowAddrs, HighAddrs,  \* halves of the addresses
          Uncacheable,  \* low halves of the devices, all of them below 4G
          Values, Sizes, Insns,
          MaxAccesses,  \* accesses of the guest
          Greedy        \* compression levels: greedy parsing or not

ASSUME TraceAssumption ==
    /\ SizeBuffer \in Nat \ {0, 1} /\ FileChunk \subseteq Nat \ {0}
    /\ LowAddrs \subseteq Nat /\ HighAddrs \subseteq Nat
    /\ Values \subseteq Nat /\ Insns \subseteq Nat
    /\ OutChunk \in Nat \ {0} /\ DelayMod \in Nat \ {0} /\ MaxAccesses \in Nat
    /\ ModeArgs \subseteq {"0", "2"} /\ Sizes \subseteq 0 .. 4 /\ Greedy \subseteq BOOLEAN

VARIABLES
    mode, is_64_bits,      \* of the plugin
    accesses,              \* what the guest has accessed
    current_instruction,   \* instructions since the last access
    todo,                  \* bytes of the record that are not in the buffer yet
    buffer,                \* buffer_compress up to buffer_begin
    file,                  \* the trace
    ppc,                   \* "guest", "write", "compress", "deflate", "closed" or "failed"
    chunk,                 \* size of the reads of the file
    fpos, buf, end_buffer, read_buffer, bool_finish,   \* trace_reader
    starved,               \* a refill gave no byte, and one was used all the same
    record, trans,         \* bytes of the current record; transactions made
    rpc                    \* "wait", "next", "get", "refill", "inflate", "done" or "lost"

pluginVars == <<mode, is_64_bits, accesses, current_instruction, todo, buffer, file, ppc>>
readerVars == <<chunk, fpos, buf, end_buffer, read_buffer, bool_finish, starved,
                record, trans, rpc>>

set_mode(arg) == CASE arg = "0" -> "BINARY" [] arg = "1" -> "ASCII" [] arg = "2" -> "NONE"

\* qemu_plugin_install with compress=true and a file.
qemu_plugin_install(arg, target) ==
    /\ mode = set_mode(arg) /\ is_64_bits = (target = "riscv64")
    /\ buffer = <<>> /\ file = <<>> /\ ppc = "guest"

Init ==
    /\ \E arg \in ModeArgs, target \in Targets : qemu_plugin_install(arg, target)
    /\ accesses = <<>> /\ current_instruction = 0 /\ todo = <<>>
    /\ chunk \in FileChunk /\ fpos = 0 /\ buf = <<>> /\ end_buffer = 0 /\ read_buffer = 0
    /\ bool_finish = FALSE /\ starved = FALSE /\ record = <<>> /\ trans = <<>> /\ rpc = "wait"
    /\ \E greedy \in Greedy : DeflateInit(greedy)
    /\ InflateInit

(***************************************************************************)
(* The plugin.                                                             *)
(***************************************************************************)
Access == [store : BOOLEAN, addr : LowAddrs \X HighAddrs, size : Sizes, val : Values,
           insns : Insns]
IsUncacheable(a) == a.addr[2] = 0 /\ a.addr[1] \in Uncacheable

write_size(size) == size + 16 * size        \* size of the access, of the value
write_flags(a) == (IF a.store THEN 4 ELSE 2) + (IF IsUncacheable(a) THEN 1 ELSE 0)

\* Only the low half is written unless the target is riscv64.
write_address(addr) == IF is_64_bits THEN addr ELSE <<addr[1]>>

\* Nothing is written for a value of 128 bits (size 4).
write_value(a) == IF a.size = 4 THEN <<>> ELSE <<a.val>>

\* write_in_file: the fields in their order.
write_in_file(a, delay) ==
    <<delay % DelayMod>> \o write_address(a.addr) \o <<write_size(a.size), write_flags(a)>>
    \o (IF a.store THEN write_value(a) ELSE <<>>)

\* tb_trans_cb registers both callbacks on every instruction: n calls of
\* counter_inst, the last for the access itself, before mem_cb.
counter_inst(n) == current_instruction + n

mem_cb(a) ==
    /\ ppc = "guest" /\ Len(accesses) < MaxAccesses
    /\ a.store \/ a.val = 0
    /\ todo' = IF mode = "BINARY" THEN write_in_file(a, counter_inst(a.insns)) ELSE <<>>
    /\ accesses' = IF mode = "BINARY" THEN Append(accesses, a) ELSE accesses
    /\ current_instruction' = 0
    /\ ppc' = IF mode = "BINARY" THEN "write" ELSE "guest"
    /\ UNCHANGED <<mode, is_64_bits, buffer, file, readerVars, deflateVars, inflateVars>>

\* write_buffer, one byte; a full buffer is compressed at once.
write_buffer ==
    /\ ppc = "write" /\ todo # <<>>
    /\ buffer' = Append(buffer, Head(todo)) /\ todo' = Tail(todo)
    /\ ppc' = IF Len(buffer') = SizeBuffer THEN "compress" ELSE "write"
    /\ call' = [call EXCEPT !.flush = "NO"]
    /\ UNCHANGED <<mode, is_64_bits, accesses, current_instruction, file, z, src, taken, out, room, cpc,
                   readerVars, inflateVars>>

RecordWritten ==
    /\ ppc = "write" /\ todo = <<>> /\ ppc' = "guest"
    /\ UNCHANGED <<mode, is_64_bits, accesses, current_instruction, todo, buffer, file, readerVars,
                   deflateVars, inflateVars>>

plugin_exit ==
    /\ ppc = "guest" /\ ppc' = "compress"
    /\ call' = [call EXCEPT !.flush = "FINISH"]
    /\ UNCHANGED <<mode, is_64_bits, accesses, current_instruction, todo, buffer, file, z, src, taken, out,
                   room, cpc, readerVars, inflateVars>>

\* End of compress_data_to_file: the buffer is used again, or all is closed.
AfterCompress == IF call.flush = "FINISH" THEN "closed" ELSE "write"

\* compress_data_to_file: "offset < buffer_begin - 1" is a size_t comparison,
\* so the loop is left out for one byte and entered for none.
CompressStart ==
    /\ ppc = "compress"
    /\ IF Len(buffer) = 1
       THEN /\ ppc' = AfterCompress /\ buffer' = <<>>
            /\ UNCHANGED deflateVars
       ELSE /\ mz_deflate(call.flush, buffer, Len(buffer))
            /\ ppc' = "deflate" /\ UNCHANGED buffer
    /\ UNCHANGED <<mode, is_64_bits, accesses, current_instruction, todo, file, readerVars, inflateVars>>

\* The output buffer is written to the file; it was full: once more.
CompressWrite ==
    /\ ppc = "deflate" /\ cpc = "returned"
    /\ cpc' = "idle"
    /\ IF call.status = "STREAM_ERROR" THEN ppc' = "failed" /\ UNCHANGED <<file, buffer>>
       ELSE /\ file' = file \o out
            /\ IF room = 0 THEN ppc' = "again" /\ UNCHANGED buffer
               ELSE ppc' = AfterCompress /\ buffer' = <<>>
    /\ UNCHANGED <<mode, is_64_bits, accesses, current_instruction, todo, z, src, taken, out, room, call,
                   readerVars, inflateVars>>

CompressAgain ==
    /\ ppc = "again" /\ ppc' = "deflate"
    /\ mz_deflate(call.flush, src, Len(buffer))
    /\ UNCHANGED <<mode, is_64_bits, accesses, current_instruction, todo, buffer, file, readerVars,
                   inflateVars>>

PluginNext ==
    \/ \E a \in Access : mem_cb(a)
    \/ write_buffer \/ RecordWritten \/ plugin_exit
    \/ CompressStart \/ CompressWrite \/ CompressAgain
    \/ (ppc = "deflate" /\ DeflateNext /\ UNCHANGED <<pluginVars, readerVars, inflateVars>>)

(***************************************************************************)
(* The reader and the sequence that replays the trace.                     *)
(***************************************************************************)
is_finish == end_buffer <= read_buffer /\ bool_finish

OpenTrace ==
    /\ ppc = "closed" /\ rpc = "wait" /\ rpc' = "next"
    /\ UNCHANGED <<chunk, fpos, buf, end_buffer, read_buffer, bool_finish, starved, record,
                   trans, pluginVars, deflateVars, inflateVars>>

\* run of the trace sequence: one more transaction, or the end.
RunTrace ==
    /\ rpc = "next" /\ record' = <<>>
    /\ rpc' = IF is_finish THEN "done" ELSE "get"
    /\ UNCHANGED <<chunk, fpos, buf, end_buffer, read_buffer, bool_finish, starved, trans,
                   pluginVars, deflateVars, inflateVars>>

\* read_transaction when all the fields of the record are there: both halves of
\* the address are read whatever the target, and a value for every size up to 4.
IsStore(r) == Len(r) >= 5 /\ r[5] \div 4 = 1
read_value(r) == IsStore(r) /\ r[4] \div 16 \in 0 .. 4
Whole(r) == Len(r) = (IF read_value(r) THEN 6 ELSE 5)
read_transaction(r) ==
    [op |-> r[5] \div 4, need_rsp |-> (r[5] \div 2) % 2 = 1, uncacheable |-> r[5] % 2 = 1,
     addr |-> <<r[2], r[3]>>, size |-> r[4] % 16, delay |-> r[1],
     data |-> IF read_value(r) THEN r[6] ELSE 0]

\* get_content_of_trace: the next byte of the buffer, which is refilled first
\* when it is used up; that the refill may have given nothing is not checked.
UseByte(x, pos) ==
    LET r == Append(record, x) IN
    /\ read_buffer' = pos + 1
    /\ IF Whole(r) THEN /\ trans' = Append(trans, read_transaction(r))
                        /\ record' = r /\ rpc' = "next"
                   ELSE record' = r /\ rpc' = "get" /\ UNCHANGED trans

get_content_of_trace ==
    /\ rpc = "get" /\ read_buffer # end_buffer
    /\ IF read_buffer < Len(buf) THEN UseByte(buf[read_buffer + 1], read_buffer)
       ELSE rpc' = "lost" /\ UNCHANGED <<read_buffer, trans, record>>
    /\ UNCHANGED <<chunk, fpos, buf, end_buffer, bool_finish, starved, pluginVars, deflateVars,
                   inflateVars>>

\* decompress_data_from_trace: read a chunk and inflate it.
ReadChunk ==
    /\ rpc = "get" /\ read_buffer = end_buffer /\ ipc = "idle"
    /\ end_buffer' = 0 /\ read_buffer' = 0 /\ rpc' = "refill"
    /\ inp' = SubSeq(file, fpos + 1, Min({fpos + chunk, Len(file)}))
    /\ fpos' = Min({fpos + chunk, Len(file)})
    /\ UNCHANGED <<chunk, buf, bool_finish, starved, record, trans, inf, win, dofs, davail, last,
                   dst, droom, icall, ipc, pluginVars, deflateVars>>

InflateChunk ==
    /\ rpc = "refill" /\ rpc' = "inflate" /\ mz_inflate(OutChunk)
    /\ UNCHANGED <<chunk, fpos, buf, end_buffer, read_buffer, bool_finish, starved, record, trans,
                   pluginVars, deflateVars>>

\* Mutant: a second output of the same refill goes to the start of the buffer.
OverwriteStart(b, at, bytes) ==
    [i \in 1 .. Max({Len(b), at + Len(bytes)}) |->
        IF i <= Len(bytes) THEN bytes[i] ELSE IF i <= Len(b) THEN b[i] ELSE 0]

\* The output goes to the buffer, over what an earlier refill left there.
Overwrite(b, at, bytes) ==
    [i \in 1 .. Max({Len(b), at + Len(bytes)}) |->
        IF i > at /\ i <= at + Len(bytes) THEN bytes[i - at] ELSE b[i]]

ChunkInflated ==
    LET end == end_buffer + Len(dst)
        new == Overwrite(buf, end_buffer, dst)
    IN  /\ rpc = "inflate" /\ ipc = "returned"
        /\ ipc' = "idle" /\ buf' = new /\ end_buffer' = end
        /\ IF inp # <<>>
           THEN rpc' = "refill" /\ UNCHANGED <<bool_finish, starved, read_buffer, trans, record>>
           ELSE /\ bool_finish' = (icall.status = "STREAM_END")
                /\ starved' = (starved \/ end = 0)
                /\ IF new = <<>> THEN rpc' = "lost" /\ UNCHANGED <<read_buffer, trans, record>>
                   ELSE UseByte(new[1], 0)
        /\ UNCHANGED <<chunk, fpos, inf, win, dofs, davail, last, inp, dst, droom, icall,
                       pluginVars, deflateVars>>

ReaderNext ==
    \/ OpenTrace \/ RunTrace \/ get_content_of_trace \/ ReadChunk \/ InflateChunk \/ ChunkInflated
    \/ (rpc = "inflate" /\ InflateNext /\ UNCHANGED <<readerVars, pluginVars, deflateVars>>)

vars == <<pluginVars, readerVars, deflateVars, inflateVars>>

Next == PluginNext \/ ReaderNext

\* The plugin and the reader are single threads that run to their end; that
\* the guest exits is the fairness of plugin_exit.
Spec == Init /\ [][Next]_vars /\ WF_vars(Next) /\ SF_vars(plugin_exit)

(***************************************************************************)
(* Properties.                                                             *)
(***************************************************************************)
Transaction(a) ==
    [op |-> IF a.store THEN 1 ELSE 0, need_rsp |-> ~ a.store,
     uncacheable |-> IsUncacheable(a), addr |-> a.addr, size |-> a.size,
     delay |-> a.insns % DelayMod, data |-> IF a.store THEN a.val ELSE 0]
Expected == [i \in 1 .. Len(accesses) |-> Transaction(accesses[i])]

\* Plugin and reader agree on the length of the record of a.
SameRecord(a) == is_64_bits /\ ~ (a.store /\ a.size = 4)
Replayable == \A i \in 1 .. Len(accesses) : SameRecord(accesses[i])

\* The bytes the plugin has given to the compressor.
Stream == LET flat[i \in 0 .. Len(accesses)] ==
                  IF i = 0 THEN <<>>
                  ELSE flat[i - 1] \o write_in_file(accesses[i], accesses[i].insns)
          IN  flat[Len(accesses)]

\* The file has all the stream: the last block and its checksum are written.
StreamEnded == ppc = "closed" /\ z.prev = "DONE"

\* However the input is cut in buffers, parsed into matches and blocks, written
\* in pieces, read in chunks and inflated through the window, what the sequence
\* replays is what the guest accessed, in order, and all of it at the end; for a
\* 32-bit target, or once a value of 128 bits is stored, it is not.
ReplayFaithful ==
    (StreamEnded /\ ~ starved /\ Replayable) =>
        /\ trans = SubSeq(Expected, 1, Len(trans))
        /\ rpc = "done" => trans = Expected

\* A byte that a match or a raw block may refer to is still in the circular
\* dictionary although the lookahead is written over its oldest part.
DictionaryHolds ==
    /\ \A k \in 1 .. z.dsize : z.dict[(z.pos - k) % Dict] = Stream[z.pos - k + 1]
    /\ \A k \in 0 .. z.look - 1 : z.dict[(z.pos + k) % Dict] = Stream[z.pos + k + 1]

\* A complete trace is replayed to its end: neither the refill loop nor the
\* decoder waits for input or output that does not come.
ReplayEnds == StreamEnded ~> (rpc = "done" \/ starved)

\* "It close the stream if we compress data and it also close the file"
\* (plugin_exit): once the guest exits, the stream is finished.
ExitClosesStream == <>StreamEnded
=============================================================================
