-------------------------------- MODULE Zip --------------------------------
(***************************************************************************)
(* The archive half of the vendored miniz: mz_zip_archive as a writer of   *)
(* one file (a new archive, or files appended in place over the central    *)
(* directory), as a reader of what the file then holds, and the iterator   *)
(* that extracts an entry piece by piece.                                  *)
(*                                                                         *)
(* A file is a sequence of cells.  A cell is a tagged tuple: a signature,  *)
(* the other fields of a record, a name, a byte of data, a word of a       *)
(* descriptor.  A write may stop at any cell; where the reader expects the *)
(* fields of a record and finds another cell, it refuses the file.  A CRC  *)
(* is the data itself: it never collides.  Offsets start at zero.          *)
(***************************************************************************)
EXTENDS Integers, Sequences, FiniteSetsExt

CONSTANTS ZipCases,    \* [max16, max32, files]: limits of the fields, what may be added
          ScanReach,   \* cells from the end in which the end record is looked for
          MaxCalls, MaxAdds, MaxFaults,
          IterDict,    \* TINFL_LZ_DICT_SIZE
          IoBuf,       \* MZ_ZIP_MAX_IO_BUF_SIZE
          ReadSizes    \* buffer sizes of the caller of the iterator

VARIABLES zlim,        \* the limits: a member of ZipCases
          zfile,       \* the file: exists, cells
          zw,          \* the mz_zip_archive that writes, and where its caller is
          zg,          \* what the caller knows: entries kept, added, calls, faults
          zi           \* the extract iterator

zipVars == <<zlim, zfile, zw, zg, zi>>

Absent == [exists |-> FALSE, cells |-> <<>>]

HasTag(f, o, tag) == o + 1 \in DOMAIN f /\ f[o + 1][1] = tag

\* mz_zip_file_read_func: as many cells as there are.
file_read(f, o, n) == SubSeq(f, o + 1, Min({o + n, Len(f)}))

\* mz_zip_file_write_func: fseek to the place and fwrite.
file_write(f, o, cells) ==
    [i \in 1 .. Max({Len(f), o + Len(cells)}) |->
        IF i \in o + 1 .. o + Len(cells) THEN cells[i - o] ELSE f[i]]

(***************************************************************************)
(* Entries: a name, a length, a compression level.                         *)
(***************************************************************************)
Contents(e) == [i \in 1 .. e.len |-> <<"data", e.name, i>>]

\* store_data_uncompressed: level 0, or at most 3 bytes.
Stored(e) == e.level = 0 \/ e.len <= 3

\* What tdefl makes of the data: two cells fewer, the last stands for three.
Packed(e) == IF Stored(e) THEN Contents(e)
             ELSE [i \in 1 .. e.len - 2 |-> <<"comp", e.name, e.len, i>>]

\* What tinfl makes of one cell.
Unpacked(cell) ==
    [k \in 1 .. (IF cell[4] = cell[3] - 2 THEN 3 ELSE 1) |-> <<"data", cell[2], cell[4] + k - 1>>]

UnpackedAll(cells) ==
    LET f[i \in 0 .. Len(cells)] == IF i = 0 THEN <<>> ELSE f[i - 1] \o Unpacked(cells[i])
    IN  f[Len(cells)]

\* Capped(v): a 32-bit field; all ones says that the value is in the extra data.
Capped(v) == Min({v, zlim.max32})

create_zip64_extra_data(e, comp, ofs) ==
    LET values == (IF e.len >= zlim.max32 THEN <<e.len, comp>> ELSE <<>>)
                  \o (IF ofs >= zlim.max32 THEN <<ofs>> ELSE <<>>)
    IN  <<<<"x64", Len(values)>>>> \o [i \in 1 .. Len(values) |-> <<"u64", values[i]>>]

NeedsExtra(zip64, e, ofs) == zip64 /\ (e.len >= zlim.max32 \/ ofs >= zlim.max32)

ExtraData(zip64, e, comp, ofs) ==
    IF NeedsExtra(zip64, e, ofs) THEN create_zip64_extra_data(e, comp, ofs) ELSE <<>>

create_local_dir_header(e, xlen) ==
    <<<<"lsig">>, <<"lhdr", IF Stored(e) THEN 0 ELSE 8, xlen, e.len > 0>>>>

create_central_dir_header(e, ofs, xlen) ==
    <<<<"csig">>, <<"chdr", IF Stored(e) THEN 0 ELSE 8, Contents(e), Capped(Len(Packed(e))),
                    Capped(e.len), Capped(ofs), xlen>>>>

\* local_dir_footer: 64-bit sizes when the entry has extra data.
Descriptor(e, extra) ==
    LET size(v) == IF extra = <<>> THEN <<<<"word", v>>>> ELSE <<<<"word", v>>, <<"word", 0>>>>
    IN  <<<<"dsig">>, <<"crc", Contents(e)>>>> \o size(Len(Packed(e))) \o size(e.len)

\* The calls of m_pWrite that add an entry, in order.  The extra data of the
\* local header is made before the compressed size is known.
LocalWrites(zip64, e, ofs) ==
    LET extra == ExtraData(zip64, e, 0, ofs)
        data  == IF Stored(e) THEN <<Contents(e)>>
                 ELSE [i \in 1 .. Len(Packed(e)) |-> <<Packed(e)[i]>>]  \* put_buf_callback
        all   == <<create_local_dir_header(e, Len(extra)), <<<<"name", e.name>>>>, extra>> \o data
                 \o (IF e.len > 0 THEN <<Descriptor(e, extra)>> ELSE <<>>)
    IN  SelectSeq(all, LAMBDA w : w # <<>>)

add_to_central_dir(cdir, zip64, e, ofs) ==
    LET extra == ExtraData(zip64, e, Len(Packed(e)), ofs)
    IN  cdir \o create_central_dir_header(e, ofs, Len(extra)) \o <<<<"name", e.name>>>> \o extra

\* Mutant: the directory of an archive that became zip64 has no zip64 end.
EndWritesPlain(z) ==
    (IF z.total > 0 THEN <<z.cdir>> ELSE <<>>)
    \o <<<<<<"esig">>,
           <<"ehdr", Min({zlim.max16, z.total}), Capped(Len(z.cdir)), Capped(z.size)>>>>>>

\* The calls of m_pWrite of mz_zip_writer_finalize_archive.
EndWrites(z) ==
    LET cofs == IF z.total > 0 THEN z.size ELSE 0
        eofs == z.size + Len(z.cdir)
    IN  (IF z.total > 0 THEN <<z.cdir>> ELSE <<>>)
        \o (IF z.zip64
            THEN <<<<<<"e64sig">>, <<"e64hdr", z.total, Len(z.cdir), cofs>>>>,
                   <<<<"locsig">>, <<"lochdr", eofs>>>>>>
            ELSE <<>>)
        \o <<<<<<"esig">>,
               <<"ehdr", Min({zlim.max16, z.total}), Capped(Len(z.cdir)), Capped(cofs)>>>>>>

(***************************************************************************)
(* The reader.                                                             *)
(***************************************************************************)
Refused == [ok |-> FALSE]
Failed == <<<<"failed">>>>

\* The last signature with a whole record behind it, not too far from the end.
locate_header_sig(f) ==
    Max({-1} \cup {o \in 0 .. Len(f) - 2 : f[o + 1][1] = "esig" /\ Len(f) - o <= ScanReach})

eocd64_valid(f, o) == o + 2 <= Len(f) /\ HasTag(f, o, "e64sig")

\* The end record, and the zip64 one when its locator precedes it: before the
\* locator, or else where the locator says.
end_of_central_dir(f) ==
    LET eocd  == locate_header_sig(f)
        zip64 == eocd >= 4 /\ HasTag(f, eocd - 2, "locsig")
        told  == IF HasTag(f, eocd - 1, "lochdr") THEN f[eocd][2] ELSE Len(f)
        e64   == IF eocd64_valid(f, eocd - 4) THEN eocd - 4 ELSE told
        at    == IF zip64 THEN e64 ELSE eocd
        valid == /\ eocd # -1
                 /\ IF zip64 THEN eocd64_valid(f, e64) /\ HasTag(f, e64 + 1, "e64hdr")
                    ELSE HasTag(f, eocd + 1, "ehdr")
    IN  IF ~ valid THEN Refused
        ELSE [ok |-> TRUE, zip64 |-> zip64, eocd |-> eocd, total |-> f[at + 2][2],
              csize |-> f[at + 2][3], cofs |-> f[at + 2][4]]

\* Sanity checks of one record of the directory, at offset p of it.  (The code
\* reads the method as 32 bits, with the time behind it, so it compares the sizes
\* of a stored file only at time zero; the writer makes them equal anyway.)
cdh_valid(cdir, p, size) ==
    /\ HasTag(cdir, p, "csig") /\ HasTag(cdir, p + 1, "chdr")
    /\ LET h == cdir[p + 2] IN
       /\ zlim.max32 \notin {h[4], h[5]} =>
             (h[2] = 0 => h[4] = h[5]) /\ (h[5] # 0 => h[4] # 0)
       /\ h[4] # zlim.max32 => h[6] + 2 + h[4] <= size
       /\ p + 3 + h[7] <= Len(cdir)

\* An entry that uses the extended information field makes the archive zip64.
cdh_extended(cdir, p) ==
    LET h == cdir[p + 2]
    IN  h[7] > 0 /\ zlim.max32 \in {h[4], h[5], h[6]} /\ HasTag(cdir, p + 3, "x64")

\* m_central_dir_offsets: where each record ends; -1 after a record refused.
central_dir_offsets(cdir, total, size) ==
    LET end[i \in 0 .. total] ==
            IF i = 0 THEN 0
            ELSE LET p == end[i - 1]
                 IN  IF p = -1 THEN -1
                     ELSE IF cdh_valid(cdir, p, size) THEN p + 3 + cdir[p + 2][7] ELSE -1
    IN  [i \in 0 .. total |-> end[i]]

\* The directory is taken where the end record e says, counted from the start of
\* the archive: what lies before the archive is found from the difference.
central_dir_at(f, e) ==
    LET start == e.eocd - (e.cofs + e.csize) - (IF e.zip64 THEN 4 ELSE 0)
        size  == Len(f) - start
        cdir  == IF e.total = 0 THEN <<>> ELSE file_read(f, start + e.cofs, e.csize)
        ends  == central_dir_offsets(cdir, e.total, size)
    IN  IF \/ e.csize < 2 * e.total \/ e.cofs + e.csize > Len(f) \/ start < 0
           \/ ends[e.total] = -1
        THEN Refused
        ELSE [ok |-> TRUE, total |-> e.total, cofs |-> e.cofs, start |-> start, size |-> size,
              cdir |-> cdir, ends |-> ends, cells |-> f,
              zip64 |-> e.zip64 \/ \E i \in 1 .. e.total : cdh_extended(cdir, ends[i - 1])]

read_central_dir(f) ==
    LET e == end_of_central_dir(f) IN IF e.ok THEN central_dir_at(f, e) ELSE Refused

\* mz_zip_file_stat_internal: the sizes and the offset, each from the extra
\* data when the field of the header is all ones, in this order.
file_stat(z, i) ==
    LET p     == z.ends[i - 1]
        h     == z.cdir[p + 2]
        big   == [k \in 1 .. 3 |-> h[<<5, 4, 6>>[k]] = zlim.max32]
        index == [k \in 1 .. 3 |-> Cardinality({j \in 1 .. k - 1 : big[j]})]
        extra == h[7] > 0 /\ TRUE \in {big[k] : k \in 1 .. 3}
        v(k)  == IF extra /\ big[k] THEN z.cdir[p + 5 + index[k]][2] ELSE h[<<5, 4, 6>>[k]]
    IN  IF extra /\ z.cdir[p + 4][2] < Cardinality({k \in 1 .. 3 : big[k]}) THEN Refused
        ELSE [ok |-> TRUE, name |-> z.cdir[p + 3], method |-> h[2], crc |-> h[3],
              uncomp |-> v(1), comp |-> v(2), ofs |-> v(3)]

\* The offset of an entry's data behind its local header; -1 when refused.
local_data(z, s) ==
    LET at   == z.start + s.ofs
        data == s.ofs + 3 + z.cells[at + 2][3]
    IN  IF ~ (HasTag(z.cells, at, "lsig") /\ HasTag(z.cells, at + 1, "lhdr")) THEN -1
        ELSE IF data + s.comp > z.size THEN -1 ELSE data

\* tinfl_decompress on the whole input: it ends only with its last cell.
Inflated(raw) ==
    IF raw = <<>> \/ \E i \in 1 .. Len(raw) : raw[i][1] # "comp" THEN Failed
    ELSE IF raw[Len(raw)][4] # raw[Len(raw)][3] - 2 THEN Failed
    ELSE UnpackedAll(raw)

Checked(plain, s) == IF Len(plain) = s.uncomp /\ plain = s.crc THEN plain ELSE Failed

extract_to_mem(z, i) ==
    LET s    == file_stat(z, i)
        data == local_data(z, s)
    IN  IF ~ s.ok THEN Failed
        ELSE IF s.comp = 0 THEN <<>>
        ELSE IF data = -1 THEN Failed
        ELSE IF s.method = 0 THEN Checked(file_read(z.cells, z.start + data, s.uncomp), s)
        ELSE Checked(Inflated(file_read(z.cells, z.start + data, s.comp)), s)

extract_to_callback(z, i) ==
    LET s    == file_stat(z, i)
        data == local_data(z, s)
        raw  == file_read(z.cells, z.start + data, s.comp)
    IN  IF ~ s.ok THEN Failed
        ELSE IF s.comp = 0 THEN <<>>
        ELSE IF data = -1 THEN Failed
        ELSE Checked(IF s.method = 0 THEN raw ELSE Inflated(raw), s)

\* The descriptor behind the data, read as the size of its words demands.
DescriptorMatches(z, s, at) ==
    LET first   == IF HasTag(z.cells, at, "dsig") THEN at + 1 ELSE at
        word(o) == IF HasTag(z.cells, o, "word") THEN z.cells[o + 1][2] ELSE -1
        long(o) == IF word(o + 1) = 0 THEN word(o) ELSE -1
    IN  /\ at + (IF z.zip64 THEN 6 ELSE 4) <= Len(z.cells)
        /\ HasTag(z.cells, first, "crc") /\ z.cells[first + 1][2] = s.crc
        /\ IF z.zip64 THEN long(first + 1) = s.comp /\ long(first + 3) = s.uncomp
           ELSE word(first + 1) = s.comp /\ word(first + 2) = s.uncomp

\* mz_zip_validate_file; the sizes and the CRC of a local header are zero.
validate_file(z, i) ==
    LET s    == file_stat(z, i)
        data == local_data(z, s)
    IN  /\ s.ok
        /\ s.uncomp # 0 =>
             /\ data # -1
             /\ z.cells[z.start + s.ofs + 3] = s.name
             /\ z.cells[z.start + s.ofs + 2][4]       \* MZ_ZIP_LDH_BIT_FLAG_HAS_LOCATOR
             /\ DescriptorMatches(z, s, z.start + data + s.comp)
             /\ extract_to_callback(z, i) = s.crc

validate_archive(z) ==
    /\ ~ z.zip64 => z.total <= zlim.max16 /\ z.size <= zlim.max32
    /\ z.zip64 => Len(z.cdir) < zlim.max32
    /\ \A i \in 1 .. z.total : validate_file(z, i)

(***************************************************************************)
(* The writer, one step for each call of m_pWrite.  mode "inplace" is      *)
(* mz_zip_add_mem_to_archive_file_in_place_v2: one file is added, then the *)
(* archive is finalized whether that succeeded or not.  mode "writer" is a *)
(* caller of the writer itself, that adds several and goes on after a file *)
(* that could not be added.                                                *)
(***************************************************************************)
Closed == [phase |-> "idle", mode |-> "writer", new |-> FALSE, zip64 |-> FALSE, total |-> 0,
           size |-> 0, cdir |-> <<>>, start |-> 0, cur |-> 0, todo |-> <<>>, e |-> <<>>,
           ok |-> TRUE, adds |-> 0]

Known == [kept |-> <<>>, ses |-> <<>>, sure |-> FALSE, eocd |-> 0, calls |-> 0, faults |-> 0]

Fault == zg.faults < MaxFaults

\* mz_zip_writer_init_file_v2: the file is created, empty.
writer_init_file(mode) ==
    /\ zw.phase = "idle" /\ zg.calls < MaxCalls /\ ~ zfile.exists
    /\ zfile' = [exists |-> TRUE, cells |-> <<>>]
    /\ zw' = [Closed EXCEPT !.phase = "ready", !.mode = mode, !.new = TRUE]
    /\ zg' = [zg EXCEPT !.calls = @ + 1]

too_large(z) ==
    IF z.zip64 THEN z.total = zlim.max32
    ELSE z.total = zlim.max16 \/ z.size + 4 > zlim.max32

\* New files are written over the central directory, which is in memory.
reader_to_writer(z, mode) ==
    [Closed EXCEPT !.phase = "ready", !.mode = mode, !.zip64 = z.zip64, !.total = z.total,
                   !.size = z.cofs, !.cdir = z.cdir, !.start = z.start]

\* mz_zip_writer_init_from_reader_v2 of the archive z that was read: one that
\* cannot be read, or is at the limits, is left as it is.
writer_from(z, mode) ==
    LET list == IF z.total = Len(zg.kept) THEN zg.kept ELSE zg.kept \o zg.ses
    IN  IF ~ z.ok \/ too_large(z)
        THEN zw' = zw /\ zg' = [zg EXCEPT !.calls = @ + 1]
        ELSE /\ zw' = reader_to_writer(z, mode)
             /\ zg' = [zg EXCEPT !.calls = @ + 1, !.kept = list, !.ses = <<>>]

\* mz_zip_reader_init_file_v2, then the writer.
writer_init_from_reader(mode) ==
    /\ zw.phase = "idle" /\ zg.calls < MaxCalls /\ zfile.exists
    /\ writer_from(read_central_dir(zfile.cells), mode)
    /\ UNCHANGED zfile

\* mz_zip_writer_add_mem_ex_v2 up to its first write: it may turn the archive
\* to zip64, refuse the file, or fail to get memory.
add_mem(e) ==
    LET many   == zw.zip64 \/ zw.total = zlim.max16 \/ e.len > zlim.max32
        large  == zw.size + 3 + 3 + Len(zw.cdir) + 2 + 4 > zlim.max32
        full   == Len(zw.cdir) + 3 + 4 >= zlim.max32
        failed == [zw EXCEPT !.adds = @ + 1, !.ok = FALSE]
        refuse == (zw.zip64 /\ zw.total = zlim.max32) \/ full
    IN  /\ zw.phase = "ready"
        /\ zw.adds < (IF zw.mode = "inplace" THEN 1 ELSE MaxAdds)
        /\ \/ /\ refuse
              /\ zw' = [failed EXCEPT !.zip64 = many] /\ UNCHANGED zg
           \/ /\ ~ refuse /\ Fault
              /\ zw' = [failed EXCEPT !.zip64 = many \/ large]
              /\ zg' = [zg EXCEPT !.faults = @ + 1]
           \/ /\ ~ refuse
              /\ zw' = [zw EXCEPT !.adds = @ + 1, !.zip64 = many \/ large, !.phase = "add", !.e = e,
                                  !.cur = zw.size,
                                  !.todo = LocalWrites(many \/ large, e, zw.size)]
              /\ UNCHANGED zg
        /\ UNCHANGED zfile

\* The archive is as it was before the file: the next write starts there again.
add_failed(z) == [z EXCEPT !.phase = "ready", !.ok = FALSE, !.todo = <<>>]

add_done(z, size) ==
    [z EXCEPT !.phase = "ready", !.todo = <<>>, !.total = @ + 1, !.size = size,
              !.cdir = add_to_central_dir(z.cdir, z.zip64, z.e, z.size)]

\* mz_zip_writer_finalize_archive up to its first write.
finalize_archive ==
    /\ zw.phase = "ready" /\ zw.adds > 0
    /\ LET refused == IF zw.zip64 THEN Len(zw.cdir) >= zlim.max32
                      ELSE \/ zw.total > zlim.max16
                           \/ zw.size + Len(zw.cdir) + 2 > zlim.max32
       IN  zw' = IF refused THEN [zw EXCEPT !.phase = "end", !.ok = FALSE]
                 ELSE [zw EXCEPT !.phase = "fin", !.cur = zw.size, !.todo = EndWrites(zw)]
    /\ UNCHANGED <<zfile, zg>>

Writing == zw.phase \in {"add", "fin"}
Written(k) == [zfile EXCEPT !.cells =
                  file_write(@, zw.start + zw.cur, SubSeq(Head(zw.todo), 1, k))]

\* One m_pWrite that succeeds; the last one ends the call that makes it.
write_all ==
    /\ Writing
    /\ LET n   == Len(Head(zw.todo))
           end == zw.cur + n
       IN  /\ zfile' = Written(n)
           /\ \/ /\ Len(zw.todo) > 1
                 /\ zw' = [zw EXCEPT !.cur = end, !.todo = Tail(@)]
                 /\ zg' = [zg EXCEPT !.sure = FALSE]
              \/ /\ Len(zw.todo) = 1 /\ zw.phase = "add"
                 /\ zw' = add_done(zw, end)
                 /\ zg' = [zg EXCEPT !.sure = FALSE, !.ses = Append(@, zw.e)]
              \/ /\ Len(zw.todo) = 1 /\ zw.phase = "fin"
                 /\ zw' = [zw EXCEPT !.phase = "end", !.todo = <<>>]
                 /\ zg' = [zg EXCEPT !.sure = TRUE, !.eocd = zw.start + zw.cur,
                                     !.kept = @ \o zg.ses, !.ses = <<>>]

\* One m_pWrite that writes less than it was given (for the last one of the
\* archive: perhaps all, when it is fflush that fails).
write_short ==
    /\ Writing /\ Fault
    /\ LET n == Len(Head(zw.todo)) IN
       \E k \in 0 .. (IF zw.phase = "fin" /\ Len(zw.todo) = 1 THEN n ELSE n - 1) :
           /\ zfile' = Written(k)
           /\ zw' = IF zw.phase = "add" THEN add_failed(zw)
                    ELSE [zw EXCEPT !.phase = "end", !.ok = FALSE, !.todo = <<>>]
           /\ zg' = [zg EXCEPT !.faults = @ + 1, !.sure = @ /\ k = 0]

\* mz_zip_writer_end_internal, and the removal of a new archive that failed.
writer_end ==
    /\ zw.phase = "end"
    /\ \E closed \in (IF Fault THEN BOOLEAN ELSE {TRUE}) :
          LET delete == ~ (zw.ok /\ closed) /\ zw.new /\ zw.mode = "inplace"
              faults == zg.faults + (IF closed THEN 0 ELSE 1)
          IN  /\ zfile' = IF delete THEN Absent ELSE zfile
              /\ zg' = IF delete THEN [Known EXCEPT !.calls = zg.calls, !.faults = faults]
                       ELSE [zg EXCEPT !.faults = faults]
    /\ zw' = Closed

\* The process stops, in the middle of a write or between two.
process_stops ==
    /\ zw.phase # "idle" /\ Fault
    /\ \E k \in (IF Writing THEN 0 .. Len(Head(zw.todo)) - 1 ELSE {0}) :
          /\ zfile' = IF Writing THEN Written(k) ELSE zfile
          /\ zg' = [zg EXCEPT !.faults = @ + 1, !.sure = @ /\ k = 0]
    /\ zw' = Closed

ArchiveStep ==
    /\ \/ \E mode \in {"inplace", "writer"} :
             writer_init_file(mode) \/ writer_init_from_reader(mode)
       \/ \E e \in zlim.files : add_mem(e)
       \/ finalize_archive \/ write_all \/ write_short \/ writer_end \/ process_stops
    /\ UNCHANGED <<zlim, zi>>

(***************************************************************************)
(* The extract iterator, on an archive of one entry whose data may be      *)
(* damaged.  A round is one turn of the loop of iter_read.                 *)
(***************************************************************************)
Joined(ws) ==
    LET f[i \in 0 .. Len(ws)] == IF i = 0 THEN <<>> ELSE f[i - 1] \o ws[i] IN f[Len(ws)]

ArchiveOf(e) ==
    LET local == Joined(LocalWrites(FALSE, e, 0))
        cdir  == add_to_central_dir(<<>>, FALSE, e, 0)
    IN  local \o Joined(EndWrites([Closed EXCEPT !.total = 1, !.size = Len(local), !.cdir = cdir]))

\* The archive with the cell of its data at index d damaged (0: none).
Damaged(e, d) ==
    [i \in 1 .. Len(ArchiveOf(e)) |->
        IF d > 0 /\ i = 3 + d THEN [ArchiveOf(e)[i] EXCEPT ![2] = "bad"] ELSE ArchiveOf(e)[i]]

NoIter == [phase |-> "none", e |-> <<>>, hurt |-> FALSE]

\* tinfl_decompress on the cells it is given and what it has decoded already:
\* it reads on until it has more than there is room for, or nothing is left.
tinfl(it, in, room, more) ==
    LET made(k) == it.pend \o UnpackedAll(SubSeq(in, 1, k))
        used    == Min({Len(in)} \cup {k \in 0 .. Len(in) : Len(made(k)) > room})
        n       == Min({room, Len(made(used))})
        left    == SubSeq(made(used), n + 1, Len(made(used)))
        ended   == it.ended \/ (used > 0 /\ in[used][4] = in[used][3] - 2)
    IN  [used |-> used, out |-> SubSeq(made(used), 1, n), pend |-> left, ended |-> ended,
         status |-> IF left # <<>> THEN "has_more_output"
                    ELSE IF ended THEN "done"
                    ELSE IF more THEN "needs_more_input" ELSE "failed"]

\* The iterator at the start of entry s of archive z.
iter_state(z, s) ==
    [phase |-> "open", e |-> zi.e, hurt |-> zi.hurt, s |-> s, ofs |-> z.start + local_data(z, s),
     remain |-> s.comp, avail |-> <<>>, pend |-> <<>>, ended |-> FALSE, out |-> 0,
     blk |-> 0, ring |-> [i \in 0 .. IterDict - 1 |-> <<>>], status |-> "done",
     crc |-> <<>>, want |-> 0, copied |-> 0, got |-> <<>>, result |-> FALSE]

\* mz_zip_reader_extract_iter_new.
iter_new ==
    /\ zi.phase = "none"
    /\ LET z == read_central_dir(zfile.cells) IN zi' = iter_state(z, file_stat(z, 1))

\* mz_zip_reader_extract_iter_read of stored data: straight from the file.
iter_read_stored(b) ==
    /\ zi.phase = "open" /\ zi.s.method = 0
    /\ LET n == Min({b, zi.remain})
           d == file_read(zfile.cells, zi.ofs, n)
       IN  zi' = [zi EXCEPT !.ofs = @ + n, !.out = @ + n, !.remain = @ - n, !.copied = n,
                            !.want = b, !.crc = @ \o d, !.got = @ \o d]

iter_read_packed(b) ==
    /\ zi.phase = "open" /\ zi.s.method # 0
    /\ zi' = [zi EXCEPT !.phase = "loop", !.want = b, !.copied = 0]

\* Input from the file when there is none, one call of tinfl, its output in the
\* write buffer at the place where the output stands.
iter_decompress(it) ==
    LET n  == IF it.avail = <<>> THEN Min({it.s.comp, IoBuf, it.remain}) ELSE 0
        in == it.avail \o file_read(zfile.cells, it.ofs, n)
        at == it.out % IterDict
        t  == tinfl(it, in, IterDict - at, it.remain - n > 0)
    IN  [it EXCEPT !.ofs = @ + n, !.remain = @ - n, !.blk = Len(t.out), !.status = t.status,
                   !.avail = SubSeq(in, t.used + 1, Len(in)), !.pend = t.pend, !.ended = t.ended,
                   !.ring = [i \in 0 .. IterDict - 1 |->
                                IF i - at + 1 \in 1 .. Len(t.out) THEN t.out[i - at + 1] ELSE @[i]]]

\* Mutant: what is left of the last block is overwritten.
iter_fill_always(it) == iter_decompress(it)

\* Nothing is decompressed while a part of the last block is left.
iter_fill(it) == IF it.blk > 0 THEN it ELSE iter_decompress(it)

\* What fits the caller's buffer is copied, up to the size of the entry.
iter_copy(it) ==
    LET n    == Min({it.want - it.copied, it.blk})
        at   == it.out % IterDict
        d    == [i \in 1 .. n |-> it.ring[at + i - 1]]
        over == it.out + n > it.s.uncomp
    IN  IF it.blk = 0 THEN it
        ELSE [it EXCEPT !.crc = @ \o d, !.blk = @ - n, !.out = @ + n,
                        !.status = IF over THEN "failed" ELSE @,
                        !.copied = IF over THEN @ ELSE @ + n, !.got = IF over THEN @ ELSE @ \o d]

iter_round ==
    /\ zi.phase = "loop"
    /\ LET it == iter_copy(iter_fill(zi))
           on == it.copied < it.want /\ it.status \in {"needs_more_input", "has_more_output"}
       IN  zi' = [it EXCEPT !.phase = IF on THEN "loop" ELSE "open"]

\* mz_zip_reader_extract_iter_free.
iter_free ==
    /\ zi.phase = "open"
    /\ zi' = [zi EXCEPT !.phase = "freed",
                        !.result = zi.status = "done" /\ zi.out = zi.s.uncomp /\ zi.crc = zi.s.crc]

IterStep ==
    /\ \/ iter_new \/ iter_round \/ iter_free
       \/ \E b \in ReadSizes : iter_read_stored(b) \/ iter_read_packed(b)
    /\ UNCHANGED <<zlim, zfile, zw, zg>>

(***************************************************************************)
(* Names: sequences of characters; c + 10 is the capital of c, 0 the slash *)
(* of a path.  The directory is a sequence of names, indices start at 0.   *)
(***************************************************************************)
tolower(c) == IF c > 10 THEN c - 10 ELSE c

\* mz_zip_filename_compare: negative, zero or positive.
filename_compare(l, r) ==
    LET n     == Min({Len(l), Len(r)})
        diff  == {i \in 1 .. n : tolower(l[i]) # tolower(r[i])}
    IN  IF diff = {} THEN Len(l) - Len(r)
        ELSE tolower(l[Min(diff)]) - tolower(r[Min(diff)])

filename_less(l, r) == filename_compare(l, r) < 0

Swapped(ix, i, j) == [ix EXCEPT ![i] = ix[j], ![j] = ix[i]]

\* Mutant: the greater of the children is not looked for.
GreaterChildLeft(names, ix, root, size) == 2 * root + 1

GreaterChild(names, ix, root, size) ==
    LET c == 2 * root + 1
    IN  IF c + 1 < size /\ filename_less(names[ix[c] + 1], names[ix[c + 1] + 1]) THEN c + 1 ELSE c

\* The inner loop: the root sinks until no child is greater.
Sunk(names, ix0, root0, size) ==
    LET sink[r \in 0 .. size] ==                       \* r rounds, at most size
            IF r = 0 THEN <<ix0, root0>>
            ELSE LET prev == sink[r - 1]
                     ix   == prev[1]
                     root == prev[2]
                     c    == GreaterChild(names, ix, root, size)
                 IN  IF 2 * root + 1 >= size THEN prev
                     ELSE IF ~ filename_less(names[ix[root] + 1], names[ix[c] + 1]) THEN prev
                     ELSE <<Swapped(ix, root, c), c>>
    IN  sink[size][1]

\* mz_zip_reader_sort_central_dir_offsets_by_filename: a heap is made, then its
\* root is put at the end, one after the other.
sort_central_dir(names) ==
    LET size    == Len(names)
        id      == [i \in 0 .. size - 1 |-> i]
        first   == (size - 2) \div 2
        heap[k \in 0 .. first + 1] ==
            IF k = 0 THEN id ELSE Sunk(names, heap[k - 1], first + 1 - k, size)
        sorted[k \in 0 .. size - 1] ==
            IF k = 0 THEN heap[first + 1]
            ELSE Sunk(names, Swapped(sorted[k - 1], size - k, 0), 0, size - k)
    IN  IF size <= 1 THEN id ELSE sorted[size - 1]

\* mz_zip_locate_file_binary_search: the index found, or -1.
binary_search(names, ix, name) ==
    LET size == Len(names)
        st[r \in 0 .. size + 1] ==                     \* low, high, found
            IF r = 0 THEN <<0, size - 1, -1>>
            ELSE LET prev == st[r - 1]
                     l == prev[1]
                     h == prev[2]
                     m == l + (h - l) \div 2
                     c == filename_compare(names[ix[m] + 1], name)
                 IN  IF l > h \/ prev[3] # -1 THEN prev
                     ELSE IF c = 0 THEN <<l, h, ix[m]>>
                     ELSE IF c < 0 THEN <<m + 1, h, -1>> ELSE <<l, m - 1, -1>>
    IN  st[size + 1][3]

string_equal(a, b, exact) ==
    IF exact THEN a = b
    ELSE Len(a) = Len(b) /\ \A i \in 1 .. Len(a) : tolower(a[i]) = tolower(b[i])

BaseName(n) == SubSeq(n, Max({0} \cup {i \in 1 .. Len(n) : n[i] = 0}) + 1, Len(n))

\* mz_zip_reader_locate_file_v2: the search when names are compared whole and
\* without case, else a scan of the directory.
locate_file(names, ix, name, exact, nopath) ==
    LET hits == {i \in 1 .. Len(names) :
                    /\ Len(names[i]) >= Len(name)
                    /\ string_equal(name, IF nopath THEN BaseName(names[i]) ELSE names[i], exact)}
    IN  IF ~ exact /\ ~ nopath /\ names # <<>> THEN binary_search(names, ix, name)
        ELSE IF hits = {} THEN -1 ELSE Min(hits) - 1

(***************************************************************************)
(* Properties.                                                             *)
(***************************************************************************)
\* The compressed size of such an entry is in its central header, and again in
\* its extra data, where the reader takes it for the offset.
TwiceStored(z, i, e) ==
    /\ ~ Stored(e) /\ e.len >= zlim.max32 /\ Len(Packed(e)) < zlim.max32
    /\ z.cdir[z.ends[i - 1] + 2][6] = zlim.max32

Lists(z, list) ==
    /\ z.total = Len(list)
    /\ \A i \in 1 .. z.total :
          /\ z.cdir[z.ends[i - 1] + 3] = <<"name", list[i].name>>
          /\ ~ TwiceStored(z, i, list[i]) =>
                /\ extract_to_mem(z, i) = Contents(list[i])
                /\ extract_to_callback(z, i) = Contents(list[i])

\* At every moment, whichever write was cut short or whenever the process was
\* stopped (once: a second fault while the directory is put back can leave a
\* record of it mixed with what overwrote it): if the archive can be opened, it
\* lists what was in it before the call, or that and everything the call added,
\* and each entry extracts to what was added; and it can be opened whenever the
\* last archive written was finalized and its end record is near enough to the
\* end of the file (behind it may be what is left of a file that could not be
\* added).  Then an archive that is not zip64 passes mz_zip_validate_archive.
ArchiveSound ==
    zfile.exists /\ zg.calls > 0 =>
        LET z == read_central_dir(zfile.cells) IN
        /\ z.ok => Lists(z, zg.kept) \/ Lists(z, zg.kept \o zg.ses)
        /\ zg.sure /\ Len(zfile.cells) - zg.eocd <= ScanReach =>
              /\ z.ok
              /\ Lists(z, zg.kept)
              /\ ~ z.zip64 => validate_archive(z)

\* An entry read in pieces of any sizes is returned in order and nothing is
\* left out; when the iterator is freed it reports success only for exactly
\* the contents, so damage is never accepted, and always when the caller read
\* on until nothing came.
PiecesJoin ==
    zi.phase \in {"open", "freed"} =>
        /\ ~ zi.hurt => zi.got = SubSeq(Contents(zi.e), 1, Len(zi.got))
        /\ zi.phase = "freed" =>
              /\ zi.result => zi.got = Contents(zi.e)
              /\ ~ zi.hurt /\ zi.want > 0 /\ zi.copied = 0 => zi.result
=============================================================================
