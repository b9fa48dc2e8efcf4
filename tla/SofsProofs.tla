----------------------------- MODULE SofsProofs -----------------------------
(***************************************************************************)
(* ReadsBack and ListFits for all directories, name lengths and buffers.   *)
(*                                                                         *)
(* mkfs.py computes an offset by aligning the sum of all sizes so far, and *)
(* writes by padding each file: the two agree because every offset is a    *)
(* multiple of four.  The invariant says where each file's bytes are as    *)
(* soon as they are written, and what fs_list has put into the buffer.     *)
(***************************************************************************)
EXTENDS Sofs, SequenceTheorems, TLAPS

TableSize == HEADER_SIZE + ENTRY_SIZE * num_files

Entry == [name : Seq(STRING), offset : Nat, size : Nat]

\* The entries mkfs.py has computed: each begins where the padded data of the
\* one before it ends.
EntriesInv ==
  /\ files \in Directories
  /\ entries \in Seq(Entry) /\ Len(entries) <= num_files
  /\ current_offset \in Nat /\ current_offset % 4 = 0
  /\ \A n \in 1 .. Len(entries) :
       /\ entries[n].name = Stored(files[n].name)
       /\ entries[n].size = files[n].size
       /\ entries[n].offset % 4 = 0
       /\ (IF n < Len(entries) THEN entries[n + 1].offset ELSE current_offset)
            = entries[n].offset + align4(files[n].size)
  /\ (IF Len(entries) > 0 THEN entries[1].offset ELSE current_offset) = TableSize

Byte == Nat \X (Nat \union {Pad, Meta})

\* The files whose data is in the image.
Packed == IF fs = "none" THEN i - 1 ELSE num_files

\* The image as far as it is written.
ImageInv ==
  /\ image \in Seq(Byte)
  /\ fs \in {"none", "valid", "invalid"}
  /\ image = << >> => fs = "none" /\ i = 0
  /\ image # << >> =>
       /\ Len(entries) = num_files
       /\ fs = "none" => i \in 1 .. num_files + 1
       /\ Len(image) = IF Packed < num_files THEN entries[Packed + 1].offset
                       ELSE current_offset
       /\ \A n \in 1 .. num_files : n <= Packed =>
            /\ entries[n].offset + files[n].size <= Len(image)
            /\ \A k \in 1 .. files[n].size : image[entries[n].offset + k] = <<n, k>>

\* What a buffer holds.
Symbol == STRING \union {"newline", "zero"}

\* What fs_list has done.
ListInv ==
  /\ at \in {"idle", "loop", "done"} /\ i \in Nat /\ pos \in Nat /\ buf_size \in Nat
  /\ buf \in Seq(Symbol)
  /\ at = "idle" => buf = << >>
  /\ at # "idle" => fs = "valid" /\ i <= num_files /\ buf_size < WORD
  /\ at = "loop" => Len(buf) = pos /\ (pos < buf_size \/ pos = 0) /\ WholeNames(buf, i)
  /\ at = "done" => StaysInBuffer
  /\ ListsWholeNames

SofsInv == EntriesInv /\ ImageInv /\ ListInv

-----------------------------------------------------------------------------
(* Alignment and sequences                                                 *)

LEMMA Aligned ==
  ASSUME NEW n \in Nat
  PROVE  /\ align4(n) \in Nat /\ n <= align4(n) /\ align4(n) % 4 = 0
         /\ \A o \in Nat : o % 4 = 0 => /\ align4(o + n) = o + align4(n)
                                        /\ (o + align4(n)) % 4 = 0
<1>1. \A x \in Nat : \E q \in Nat, r \in 0 .. 3 : x = 4 * q + r /\ x % 4 = r
  OBVIOUS
<1>2. \A q \in Nat, r \in 0 .. 3 : (4 * q + r) % 4 = r
  OBVIOUS
<1>3. PICK q \in Nat, r \in 0 .. 3 : n = 4 * q + r /\ n % 4 = r
  BY <1>1
<1>4. align4(n) = IF r = 0 THEN n ELSE n + (4 - r)
  BY <1>3 DEF align4
<1>5. align4(n) = IF r = 0 THEN 4 * q + 0 ELSE 4 * (q + 1) + 0
  BY <1>3, <1>4
<1>6. align4(n) \in Nat /\ n <= align4(n) /\ align4(n) % 4 = 0
  BY <1>2, <1>3, <1>4, <1>5
<1>7. ASSUME NEW o \in Nat, o % 4 = 0
      PROVE  align4(o + n) = o + align4(n) /\ (o + align4(n)) % 4 = 0
  <2>1. PICK p \in Nat : o = 4 * p
    BY <1>1, <1>7
  <2>2. o + n = 4 * (p + q) + r /\ (o + n) % 4 = r
    BY <1>2, <1>3, <2>1
  <2>3. align4(o + n) = IF r = 0 THEN o + n ELSE (o + n) + (4 - r)
    BY <2>2, <1>3 DEF align4
  <2>4. o + align4(n) = IF r = 0 THEN 4 * (p + q) + 0 ELSE 4 * (p + q + 1) + 0
    BY <1>3, <1>5, <2>1
  <2> QED BY <1>2, <1>3, <1>4, <1>7, <2>3, <2>4
<1> QED BY <1>6, <1>7

\* The name as it is stored.
LEMMA StoredName ==
  ASSUME NEW name \in Seq(STRING)
  PROVE  /\ Stored(name) \in Seq(STRING) /\ Len(Stored(name)) < MAX_NAME
         /\ Len(name) < MAX_NAME => Stored(name) = name
<1>1. MAX_NAME \in Nat /\ MAX_NAME > 0 /\ Len(name) \in Nat
  BY SofsAssumption
<1>2. PICK m : m = IF Len(name) < MAX_NAME THEN Len(name) ELSE MAX_NAME - 1
  OBVIOUS
<1>3. m \in Nat /\ m <= Len(name) /\ m < MAX_NAME
  BY <1>1, <1>2
<1>4. Stored(name) = SubSeq(name, 1, m)
  BY <1>2 DEF Stored
<1>5. \A k \in 1 .. m : name[k] \in STRING
  BY <1>1, <1>3
<1>6. SubSeq(name, 1, m) \in Seq(STRING) /\ Len(SubSeq(name, 1, m)) = m
  BY <1>3, <1>5, SubSeqProperties
<1>7. Len(name) < MAX_NAME => Stored(name) = name
  BY <1>2, <1>4, SubSeqFull
<1> QED BY <1>3, <1>4, <1>6, <1>7

\* The directory that is packed.
LEMMA FilesOK ==
  ASSUME files \in Directories
  PROVE  /\ num_files \in Nat /\ num_files > 0
         /\ \A n \in 1 .. num_files : files[n].size \in Nat /\ files[n].name \in Seq(STRING)
         /\ TableSize \in Nat /\ TableSize > 0 /\ TableSize % 4 = 0
<1>1. files \in Seq([name : Seq(STRING), size : Nat]) /\ files # << >>
  BY SofsAssumption
<1>2. num_files \in Nat /\ num_files > 0
  BY <1>1, EmptySeq DEF num_files
<1>3. \A n \in 1 .. num_files : files[n].size \in Nat /\ files[n].name \in Seq(STRING)
  <2>1. \A n \in 1 .. num_files : files[n] \in [name : Seq(STRING), size : Nat]
    BY <1>1, ElementOfSeq DEF num_files
  <2> QED BY <2>1
<1>4. \A x \in Nat : x % 4 = 0 => \E q \in Nat : x = 4 * q
  OBVIOUS
<1>5. PICK h \in Nat, m \in Nat : HEADER_SIZE = 4 * h /\ MAX_NAME = 4 * m
  BY <1>4, SofsAssumption
<1>6. PICK f \in Nat : f = num_files
  BY <1>2
<1>7. TableSize = 4 * h + (4 * m + 8) * f
  BY <1>5, <1>6 DEF TableSize, ENTRY_SIZE
<1>8. PICK w \in Nat : w = (m + 2) * f
  OBVIOUS
<1>9. (4 * m + 8) * f = 4 * w /\ w > 0
  <2>1. (4 * m + 8) * f = 4 * ((m + 2) * f)
    OBVIOUS
  <2>2. (m + 2) * f > 0
    BY <1>2, <1>6
  <2> QED BY <1>8, <2>1, <2>2
<1>10. TableSize = 4 * (h + w)
  BY <1>7, <1>9
<1>11. (4 * (h + w)) % 4 = 0
  OBVIOUS
<1> QED BY <1>2, <1>3, <1>9, <1>10, <1>11

-----------------------------------------------------------------------------
(* mkfs.py                                                                 *)

LEMMA EmptyNames == WholeNames(<< >>, 0)
<1>1. PICK end : end = [k \in 1 .. 0 |-> 1]
  OBVIOUS
<1>2. \A k \in 1 .. 0 : FALSE
  OBVIOUS
<1>3. end \in [1 .. 0 -> 1 .. Len(<< >>)]
  BY <1>1, <1>2
<1>4. Len(<< >>) = StartOf(end, 0 + 1)
  BY DEF StartOf
<1>5. \A k \in 1 .. 0 : SubSeq(<< >>, StartOf(end, k) + 1, end[k])
                         = Append(entries[k].name, "newline")
  BY <1>2
<1> QED BY <1>3, <1>4, <1>5, Zenon DEF WholeNames

LEMMA SofsInit == ASSUME Init PROVE SofsInv
<1>1. /\ files \in Directories /\ entries = << >> /\ current_offset = TableSize
      /\ image = << >> /\ fs = "none" /\ i = 0 /\ pos = 0 /\ buf_size = 0
      /\ at = "idle" /\ buf = << >>
  BY DEF Init, TableSize
<1>2. num_files \in Nat /\ TableSize \in Nat /\ TableSize % 4 = 0
  BY <1>1, FilesOK
<1>3. entries \in Seq(Entry) /\ Len(entries) = 0 /\ image \in Seq(Byte) /\ buf \in Seq(Symbol)
  BY <1>1
<1>4. EntriesInv
  BY <1>1, <1>2, <1>3 DEF EntriesInv
<1>5. ImageInv
  BY <1>1, <1>3 DEF ImageInv
<1>6. ListInv
  BY <1>1, <1>3 DEF ListInv, ListsWholeNames
<1> QED BY <1>4, <1>5, <1>6 DEF SofsInv

LEMMA AddEntryInv == ASSUME SofsInv, AddEntry PROVE SofsInv'
<1>1. PICK m, o, f : m = Len(entries) /\ o = current_offset /\ f = files[m + 1]
  OBVIOUS
<1>2. PICK e : e = [name |-> Stored(f.name), offset |-> o, size |-> f.size]
  OBVIOUS
<1>3. /\ m < num_files /\ entries' = Append(entries, e)
      /\ current_offset' = align4(o + f.size)
      /\ UNCHANGED <<files, image, fs, i, pos, buf_size, at, buf>>
  BY <1>1, <1>2 DEF AddEntry, NextOffset, listVars
<1>4. /\ entries \in Seq(Entry) /\ o \in Nat /\ o % 4 = 0 /\ files \in Directories
      /\ m \in Nat /\ \A n \in 1 .. m : entries[n] \in Entry
  BY <1>1 DEF SofsInv, EntriesInv
<1>5. num_files \in Nat /\ num_files > 0 /\ f.size \in Nat /\ f.name \in Seq(STRING)
  BY <1>1, <1>3, <1>4, FilesOK
<1>6. e \in Entry
  BY <1>2, <1>4, <1>5, StoredName DEF Entry
<1>7. /\ entries' \in Seq(Entry) /\ Len(entries') = m + 1 /\ entries'[m + 1] = e
      /\ \A n \in 1 .. m : entries'[n] = entries[n]
  BY <1>1, <1>3, <1>4, <1>6
<1>8. /\ current_offset' = o + align4(f.size) /\ current_offset' \in Nat
      /\ current_offset' % 4 = 0 /\ num_files' = num_files /\ TableSize' = TableSize
  <2>1. PICK z \in Nat : z = f.size
    BY <1>5
  <2>2. align4(z) \in Nat /\ align4(o + z) = o + align4(z) /\ (o + align4(z)) % 4 = 0
    BY <1>4, Aligned
  <2>3. num_files' = num_files /\ TableSize' = TableSize
    BY <1>3 DEF num_files, TableSize
  <2> QED BY <1>3, <1>4, <2>1, <2>2, <2>3
<1>9. image = << >> /\ fs = "none" /\ i = 0 /\ at = "idle"
  BY <1>1, <1>3, <1>4, <1>5 DEF SofsInv, ImageInv, ListInv
<1>10. EntriesInv'
  <2>1. ASSUME NEW n \in 1 .. m + 1
        PROVE  /\ entries'[n].name = Stored(files[n].name)
               /\ entries'[n].size = files[n].size
               /\ entries'[n].offset % 4 = 0
               /\ (IF n < m + 1 THEN entries'[n + 1].offset ELSE current_offset')
                    = entries'[n].offset + align4(files[n].size)
    <3>1. CASE n = m + 1
      BY <1>1, <1>2, <1>4, <1>7, <1>8, <3>1
    <3>2. CASE n <= m
      <4>1. n \in 1 .. m
        BY <1>4, <3>2
      <4>2. /\ entries[n].name = Stored(files[n].name)
            /\ entries[n].size = files[n].size
            /\ entries[n].offset % 4 = 0
            /\ (IF n < m THEN entries[n + 1].offset ELSE o)
                 = entries[n].offset + align4(files[n].size)
        BY <1>1, <4>1 DEF SofsInv, EntriesInv
      <4>3. n < m => n + 1 \in 1 .. m
        BY <1>4, <4>1
      <4>4. entries'[n + 1].offset = IF n < m THEN entries[n + 1].offset ELSE o
        <5>1. CASE n < m
          BY <1>7, <4>3, <5>1
        <5>2. CASE n = m
          BY <1>2, <1>7, <5>2
        <5> QED BY <1>4, <4>1, <5>1, <5>2
      <4> QED BY <1>4, <1>7, <4>1, <4>2, <4>4
    <3> QED BY <1>4, <3>1, <3>2
  <2>2. entries'[1].offset = TableSize
    <3>1. CASE m = 0
      BY <1>1, <1>2, <1>7, <3>1 DEF SofsInv, EntriesInv
    <3>2. CASE m > 0
      BY <1>1, <1>4, <1>7, <3>2 DEF SofsInv, EntriesInv
    <3> QED BY <1>4, <3>1, <3>2
  <2>3. Len(entries') <= num_files' /\ Len(entries') > 0 /\ files' = files
    BY <1>3, <1>4, <1>5, <1>7, <1>8
  <2>4. \A n \in 1 .. Len(entries') :
          /\ entries'[n].name = Stored(files'[n].name)
          /\ entries'[n].size = files'[n].size
          /\ entries'[n].offset % 4 = 0
          /\ (IF n < Len(entries') THEN entries'[n + 1].offset ELSE current_offset')
               = entries'[n].offset + align4(files'[n].size)
    BY <1>7, <2>1, <2>3, Zenon
  <2>5. (IF Len(entries') > 0 THEN entries'[1].offset ELSE current_offset') = TableSize'
    BY <1>8, <2>2, <2>3
  <2>6. files' \in Directories
    BY <1>4, <2>3
  <2> QED BY <1>7, <1>8, <2>3, <2>4, <2>5, <2>6, Zenon DEF EntriesInv
<1>11. ImageInv'
  BY <1>3, <1>9 DEF SofsInv, ImageInv
<1>12. ListInv'
  BY <1>3, <1>9 DEF SofsInv, ListInv, ListsWholeNames
<1> QED BY <1>10, <1>11, <1>12 DEF SofsInv

\* What the invariant says of every finished table.
LEMMA TableOK ==
  ASSUME SofsInv, Len(entries) = num_files
  PROVE  \A n \in 1 .. num_files :
           /\ entries[n].offset \in Nat /\ entries[n].offset % 4 = 0
           /\ entries[n].name = Stored(files[n].name)
           /\ entries[n].size = files[n].size /\ files[n].size \in Nat
           /\ (IF n < num_files THEN entries[n + 1].offset ELSE current_offset)
                = entries[n].offset + align4(files[n].size)
<1>1. /\ \A n \in 1 .. num_files : entries[n] \in Entry
      /\ files \in Directories
  BY DEF SofsInv, EntriesInv
<1>2. \A n \in 1 .. num_files : entries[n].offset \in Nat /\ files[n].size \in Nat
  BY <1>1, FilesOK DEF Entry
<1> QED BY <1>2 DEF SofsInv, EntriesInv

LEMMA WriteTableInv == ASSUME SofsInv, WriteTable PROVE SofsInv'
<1>1. /\ Len(entries) = num_files /\ image = << >>
      /\ image' = [a \in 1 .. TableSize |-> <<0, Meta>>] /\ i' = 1
      /\ UNCHANGED <<files, entries, current_offset, fs, pos, buf_size, at, buf>>
  BY DEF WriteTable, TableSize
<1>2. files \in Directories
  BY DEF SofsInv, EntriesInv
<1>3. num_files \in Nat /\ num_files > 0 /\ TableSize \in Nat /\ TableSize > 0
  BY <1>2, FilesOK
<1>4. fs = "none" /\ i = 0 /\ at = "idle"
  BY <1>1 DEF SofsInv, ImageInv, ListInv
<1>5. num_files' = num_files /\ TableSize' = TableSize
  BY <1>1 DEF num_files, TableSize
<1>6. image' \in Seq(Byte) /\ Len(image') = TableSize /\ image' # << >>
  <2>1. <<0, Meta>> \in Byte
    BY DEF Byte
  <2>2. image' \in Seq(Byte) /\ Len(image') = TableSize
    BY <1>1, <1>3, <2>1
  <2> QED BY <1>3, <2>2
<1>7. entries[1].offset = TableSize
  BY <1>1, <1>3 DEF SofsInv, EntriesInv
<1>8. Packed' = 0
  BY <1>1, <1>4 DEF Packed
<1>9. EntriesInv'
  BY <1>1, <1>5 DEF SofsInv, EntriesInv
<1>10. ImageInv'
  <2>1. Len(image') = IF Packed' < num_files' THEN entries'[Packed' + 1].offset
                      ELSE current_offset'
    BY <1>1, <1>3, <1>5, <1>6, <1>7, <1>8
  <2>2. \A n \in 1 .. num_files' : ~(n <= Packed')
    BY <1>3, <1>5, <1>8
  <2>3. Len(entries') = num_files' /\ fs' = "none" /\ i' \in 1 .. num_files' + 1
    BY <1>1, <1>3, <1>4, <1>5
  <2> QED BY <1>6, <2>1, <2>2, <2>3 DEF ImageInv
<1>11. ListInv'
  BY <1>1, <1>4 DEF SofsInv, ListInv, ListsWholeNames
<1> QED BY <1>9, <1>10, <1>11 DEF SofsInv

\* Writing file i: its bytes come to lie at its offset, and the image ends
\* where the next file's offset is.
LEMMA WriteFileInv == ASSUME SofsInv, WriteFile PROVE SofsInv'
<1>1. PICK x, size, o : x = i /\ size = files[x].size /\ o = entries[x].offset
  OBVIOUS
<1>2. PICK data, pad : /\ data = [k \in 1 .. size |-> <<x, k>>]
                       /\ pad = [k \in 1 .. align4(size) - size |-> <<0, Pad>>]
  OBVIOUS
<1>3. /\ image # << >> /\ fs = "none" /\ x \in 1 .. num_files
      /\ image' = image \o data \o pad /\ i' = x + 1
      /\ UNCHANGED <<files, entries, current_offset, fs, pos, buf_size, at, buf>>
  BY <1>1, <1>2 DEF WriteFile
<1>4. files \in Directories /\ Len(entries) = num_files /\ at = "idle" /\ image \in Seq(Byte)
  BY <1>3 DEF SofsInv, EntriesInv, ImageInv, ListInv
<1>5. num_files \in Nat /\ num_files > 0 /\ x \in Nat
  BY <1>3, <1>4, FilesOK
<1>6. /\ o \in Nat /\ size \in Nat
      /\ (IF x < num_files THEN entries[x + 1].offset ELSE current_offset)
           = o + align4(size)
  BY <1>1, <1>3, <1>4, TableOK
<1>7. align4(size) \in Nat /\ size <= align4(size)
  BY <1>6, Aligned
<1>8. Packed = x - 1 /\ Packed' = x
  BY <1>1, <1>3, <1>5 DEF Packed
<1>9. Len(image) = o
  BY <1>1, <1>3, <1>5, <1>8 DEF SofsInv, ImageInv
<1>10. /\ data \in Seq(Byte) /\ Len(data) = size
       /\ pad \in Seq(Byte) /\ Len(pad) = align4(size) - size
  <2>1. <<0, Pad>> \in Byte /\ \A k \in 1 .. size : <<x, k>> \in Byte
    BY <1>5, <1>6 DEF Byte
  <2>2. PICK p \in Nat : p = align4(size) - size
    BY <1>6, <1>7
  <2>3. data \in Seq(Byte) /\ Len(data) = size
    BY <1>2, <1>6, <2>1
  <2>4. pad \in Seq(Byte) /\ Len(pad) = p
    <3>1. PICK z \in Byte : z = <<0, Pad>>
      BY <2>1
    <3>2. pad = [k \in 1 .. p |-> z]
      BY <1>2, <2>2, <3>1
    <3> QED BY <3>2
  <2> QED BY <2>2, <2>3, <2>4
<1>11. /\ image' \in Seq(Byte) /\ Len(image') = o + align4(size)
       /\ \A k \in 1 .. o : image'[k] = image[k]
       /\ \A k \in 1 .. size : image'[o + k] = data[k]
  <2>1. image \o data \in Seq(Byte) /\ Len(image \o data) = o + size
    BY <1>4, <1>6, <1>9, <1>10, ConcatProperties
  <2>2. /\ \A k \in 1 .. o : (image \o data)[k] = image[k]
        /\ \A k \in 1 .. size : (image \o data)[o + k] = data[k]
    BY <1>4, <1>6, <1>9, <1>10, ConcatProperties
  <2>3. PICK both : both = image \o data
    OBVIOUS
  <2>4. image' \in Seq(Byte) /\ Len(image') = o + align4(size)
    <3>1. both \o pad \in Seq(Byte) /\ Len(both \o pad) = Len(both) + Len(pad)
      BY <1>10, <2>1, <2>3, ConcatProperties
    <3> QED BY <1>3, <1>6, <1>7, <1>10, <2>1, <2>3, <3>1
  <2>5. \A k \in 1 .. Len(both) : (both \o pad)[k] = both[k]
    BY <1>10, <2>1, <2>3, ConcatProperties
  <2>6. \A k \in 1 .. o + size : image'[k] = both[k]
    BY <1>3, <2>1, <2>3, <2>5
  <2>7. \A k \in 1 .. o : image'[k] = image[k]
    <3>1. \A k \in 1 .. o : k \in 1 .. o + size
      BY <1>6
    <3> QED BY <2>2, <2>3, <2>6, <3>1
  <2>8. \A k \in 1 .. size : image'[o + k] = data[k]
    <3>1. \A k \in 1 .. size : o + k \in 1 .. o + size
      BY <1>6
    <3> QED BY <2>2, <2>3, <2>6, <3>1
  <2> QED BY <2>4, <2>7, <2>8
<1>12. num_files' = num_files /\ TableSize' = TableSize
  BY <1>3 DEF num_files, TableSize
<1>13. EntriesInv'
  BY <1>3, <1>12 DEF SofsInv, EntriesInv
<1>14. image' # << >>
  <2>1. Len(image) > 0
    BY <1>3, <1>4, EmptySeq
  <2> QED BY <1>6, <1>7, <1>9, <1>11, <2>1
<1>15. ASSUME NEW n \in 1 .. num_files, n <= x
       PROVE  /\ entries[n].offset + files[n].size <= Len(image')
              /\ \A k \in 1 .. files[n].size : image'[entries[n].offset + k] = <<n, k>>
  <2>1. CASE n = x
    <3>1. \A k \in 1 .. size : image'[o + k] = <<x, k>>
      BY <1>2, <1>11
    <3>2. o + size <= Len(image')
      BY <1>6, <1>7, <1>11
    <3> QED BY <1>1, <2>1, <3>1, <3>2
  <2>2. CASE n < x
    <3>1. n <= Packed
      BY <1>5, <1>8, <2>2
    <3>2. /\ entries[n].offset + files[n].size <= o
          /\ \A k \in 1 .. files[n].size : image[entries[n].offset + k] = <<n, k>>
      BY <1>3, <1>9, <1>15, <3>1 DEF SofsInv, ImageInv
    <3>3. entries[n].offset \in Nat /\ files[n].size \in Nat
      BY <1>4, <1>15, TableOK
    <3>4. \A k \in 1 .. files[n].size : entries[n].offset + k \in 1 .. o
      BY <1>6, <3>2, <3>3
    <3>5. \A k \in 1 .. files[n].size : image'[entries[n].offset + k] = <<n, k>>
      BY <1>11, <3>2, <3>4
    <3>6. entries[n].offset + files[n].size <= Len(image')
      BY <1>6, <1>7, <1>11, <3>2, <3>3
    <3> QED BY <3>5, <3>6
  <2> QED BY <1>5, <1>15, <2>1, <2>2
<1>16. ImageInv'
  <2>1. Len(image') = IF Packed' < num_files' THEN entries'[Packed' + 1].offset
                      ELSE current_offset'
    BY <1>3, <1>5, <1>6, <1>8, <1>11, <1>12
  <2>2. \A n \in 1 .. num_files' : n <= Packed' =>
          /\ entries'[n].offset + files'[n].size <= Len(image')
          /\ \A k \in 1 .. files'[n].size : image'[entries'[n].offset + k] = <<n, k>>
    BY <1>3, <1>8, <1>12, <1>15
  <2>3. Len(entries') = num_files' /\ fs' = "none" /\ i' \in 1 .. num_files' + 1
    BY <1>3, <1>4, <1>5, <1>12
  <2> QED BY <1>11, <1>14, <2>1, <2>2, <2>3 DEF ImageInv
<1>17. ListInv'
  BY <1>3, <1>4, <1>5 DEF SofsInv, ListInv, ListsWholeNames
<1> QED BY <1>13, <1>16, <1>17 DEF SofsInv

-----------------------------------------------------------------------------
(* fs.c                                                                    *)

\* One more name and its newline make one more line.
LEMMA ExtendNames ==
  ASSUME NEW text \in Seq(Symbol), NEW n \in Nat, WholeNames(text, n),
         entries[n + 1].name \in Seq(STRING)
  PROVE  LET longer == text \o entries[n + 1].name \o <<"newline">> IN
           /\ longer \in Seq(Symbol)
           /\ Len(longer) = Len(text) + Len(entries[n + 1].name) + 1
           /\ WholeNames(longer, n + 1)
<1>1. PICK name, line, longer, len :
        /\ name = entries[n + 1].name /\ line = Append(name, "newline")
        /\ longer = text \o entries[n + 1].name \o <<"newline">> /\ len = Len(text)
  OBVIOUS
<1>2. name \in Seq(Symbol) /\ Len(name) \in Nat /\ "newline" \in Symbol /\ len \in Nat
  <2>1. STRING \subseteq Symbol /\ "newline" \in Symbol
    BY DEF Symbol
  <2>2. Seq(STRING) \subseteq Seq(Symbol)
    BY <2>1, SeqMonotonic
  <2>3. name \in Seq(Symbol)
    BY <1>1, <2>2
  <2>4. Len(name) \in Nat /\ len \in Nat
    BY <1>1, <2>3, LenProperties
  <2> QED BY <2>1, <2>3, <2>4
<1>3. /\ line \in Seq(Symbol) /\ Len(line) = Len(name) + 1
      /\ line = name \o <<"newline">> /\ <<"newline">> \in Seq(Symbol)
  <2>1. line \in Seq(Symbol) /\ Len(line) = Len(name) + 1
    BY <1>1, <1>2, AppendProperties
  <2>2. line = name \o <<"newline">>
    BY <1>1, <1>2, AppendIsConcat
  <2>3. <<"newline">> \in Seq(Symbol)
    BY <1>2
  <2> QED BY <2>1, <2>2, <2>3
<1>4. longer = text \o line
  <2>1. PICK nl \in Seq(Symbol) : nl = <<"newline">>
    BY <1>3
  <2>2. (text \o name) \o nl = text \o (name \o nl)
    BY <1>2, <2>1, ConcatAssociative
  <2> QED BY <1>1, <1>3, <2>1, <2>2
<1>5. /\ longer \in Seq(Symbol) /\ Len(longer) = len + Len(line)
      /\ \A k \in 1 .. len + Len(line) :
           longer[k] = IF k <= len THEN text[k] ELSE line[k - len]
  <2>1. /\ text \o line \in Seq(Symbol) /\ Len(text \o line) = Len(text) + Len(line)
        /\ \A k \in 1 .. Len(text) + Len(line) :
             (text \o line)[k] = IF k <= Len(text) THEN text[k] ELSE line[k - Len(text)]
    BY <1>3, ConcatProperties
  <2> QED BY <1>1, <1>4, <2>1
<1>6. PICK end \in [1 .. n -> 1 .. len] :
        /\ len = StartOf(end, n + 1)
        /\ \A k \in 1 .. n : SubSeq(text, StartOf(end, k) + 1, end[k])
                               = Append(entries[k].name, "newline")
  BY <1>1 DEF WholeNames
<1>7. PICK end2 : end2 = [k \in 1 .. n + 1 |-> IF k <= n THEN end[k] ELSE len + Len(line)]
  OBVIOUS
<1>8. /\ end2 \in [1 .. n + 1 -> 1 .. Len(longer)]
      /\ end2[n + 1] = Len(longer) /\ \A k \in 1 .. n : end2[k] = end[k] /\ end[k] \in 1 .. len
  <2>1. \A k \in 1 .. n + 1 : k <= n => k \in 1 .. n /\ end[k] \in 1 .. len
    BY <1>6
  <2>2. \A k \in 1 .. n + 1 :
          (IF k <= n THEN end[k] ELSE len + Len(line)) \in 1 .. Len(longer)
    BY <1>2, <1>3, <1>5, <2>1
  <2>3. n + 1 \in 1 .. n + 1 /\ ~(n + 1 <= n) /\ \A k \in 1 .. n : k \in 1 .. n + 1 /\ k <= n
    OBVIOUS
  <2> QED BY <1>5, <1>7, <2>1, <2>2, <2>3
<1>9. \A k \in 1 .. n + 1 : StartOf(end2, k) = StartOf(end, k) /\ StartOf(end, k) \in 0 .. len
  <2>1. SUFFICES ASSUME NEW k \in 1 .. n + 1
                 PROVE  StartOf(end2, k) = StartOf(end, k) /\ StartOf(end, k) \in 0 .. len
    OBVIOUS
  <2>2. k # 1 => k - 1 \in 1 .. n
    OBVIOUS
  <2> QED BY <1>2, <1>8, <2>2 DEF StartOf
<1>10. Len(longer) = StartOf(end2, (n + 1) + 1)
  BY <1>8 DEF StartOf
<1>11. ASSUME NEW k \in 1 .. n + 1
       PROVE  SubSeq(longer, StartOf(end2, k) + 1, end2[k])
                = Append(entries[k].name, "newline")
  <2>1. CASE k <= n
    <3>1. PICK a, b : a = StartOf(end, k) + 1 /\ b = end[k]
      OBVIOUS
    <3>2. a \in 1 .. len + 1 /\ b \in 1 .. len /\ a = StartOf(end2, k) + 1 /\ b = end2[k]
      BY <1>2, <1>8, <1>9, <2>1, <3>1
    <3>3. SubSeq(longer, a, b) = SubSeq(text, a, b)
      <4>1. \A j \in a .. b : longer[j] = text[j] /\ text[j] \in Symbol
        <5>1. \A j \in a .. b : j \in 1 .. len /\ j \in 1 .. len + Len(line) /\ j <= len
          BY <1>2, <1>3, <3>2
        <5>2. \A j \in 1 .. len : text[j] \in Symbol
          BY <1>1, ElementOfSeq
        <5> QED BY <1>5, <5>1, <5>2
      <4>2. \A j \in a .. b : longer[j] \in Symbol
        BY <4>1
      <4>3. /\ SubSeq(longer, a, b) \in Seq(Symbol)
            /\ Len(SubSeq(longer, a, b)) = IF a <= b THEN b - a + 1 ELSE 0
            /\ \A j \in 1 .. b - a + 1 : SubSeq(longer, a, b)[j] = longer[a + j - 1]
        BY <3>2, <4>2, SubSeqProperties
      <4>4. /\ SubSeq(text, a, b) \in Seq(Symbol)
            /\ Len(SubSeq(text, a, b)) = IF a <= b THEN b - a + 1 ELSE 0
            /\ \A j \in 1 .. b - a + 1 : SubSeq(text, a, b)[j] = text[a + j - 1]
        BY <3>2, <4>1, SubSeqProperties
      <4>5. \A j \in 1 .. b - a + 1 : a + j - 1 \in a .. b
        BY <3>2
      <4>6. \A j \in 1 .. Len(SubSeq(longer, a, b)) : j \in 1 .. b - a + 1
        BY <3>2, <4>3
      <4>7. \A j \in 1 .. Len(SubSeq(longer, a, b)) :
              SubSeq(longer, a, b)[j] = SubSeq(text, a, b)[j]
        BY <4>1, <4>3, <4>4, <4>5, <4>6
      <4> QED BY <4>3, <4>4, <4>7, SeqEqual
    <3>4. k \in 1 .. n
      BY <2>1
    <3> QED BY <1>6, <3>1, <3>2, <3>3, <3>4
  <2>2. CASE k = n + 1
    <3>1. StartOf(end2, k) + 1 = len + 1 /\ end2[k] = len + Len(line)
      BY <1>5, <1>6, <1>8, <1>9, <2>2
    <3>2. \A j \in len + 1 .. len + Len(line) :
            longer[j] = line[j - len] /\ j - len \in 1 .. Len(line)
      BY <1>2, <1>3, <1>5
    <3>3. \A j \in len + 1 .. len + Len(line) : longer[j] \in Symbol
      <4>1. \A q \in 1 .. Len(line) : line[q] \in Symbol
        BY <1>3, ElementOfSeq
      <4> QED BY <3>2, <4>1
    <3>4. PICK sub : sub = SubSeq(longer, len + 1, len + Len(line))
      OBVIOUS
    <3>5. /\ sub \in Seq(Symbol) /\ Len(sub) = Len(line)
          /\ \A j \in 1 .. Len(line) : sub[j] = longer[len + j]
      BY <1>2, <1>3, <3>3, <3>4, SubSeqProperties
    <3>6. \A j \in 1 .. Len(line) : sub[j] = line[j]
      <4>1. \A j \in 1 .. Len(line) :
              len + j \in len + 1 .. len + Len(line) /\ (len + j) - len = j
        BY <1>2, <1>3
      <4> QED BY <3>2, <3>5, <4>1
    <3>7. sub = line
      BY <1>3, <3>5, <3>6, SeqEqual
    <3> QED BY <1>1, <2>2, <3>1, <3>4, <3>7
  <2>3. k <= n \/ k = n + 1
    OBVIOUS
  <2> QED BY <2>1, <2>2, <2>3
<1>12. WholeNames(longer, n + 1)
  BY <1>8, <1>10, <1>11, Zenon DEF WholeNames
<1> QED BY <1>1, <1>2, <1>3, <1>5, <1>12

LEMMA fs_initInv == ASSUME SofsInv, fs_init PROVE SofsInv'
<1>1. /\ fs = "none" /\ i = num_files + 1 /\ fs' \in {"valid", "invalid"} /\ i' = 0
      /\ UNCHANGED <<files, entries, current_offset, image, pos, buf_size, at, buf>>
  BY DEF fs_init, mkfsVars
<1>2. files \in Directories /\ at = "idle"
  BY <1>1 DEF SofsInv, EntriesInv, ListInv
<1>3. num_files \in Nat /\ num_files > 0
  BY <1>2, FilesOK
<1>4. image # << >> /\ Packed = num_files /\ Packed' = num_files /\ num_files' = num_files
  <2>1. image # << >>
    BY <1>1, <1>3 DEF SofsInv, ImageInv
  <2>2. num_files' = num_files
    BY <1>1 DEF num_files
  <2>3. Packed' = num_files'
    BY <1>1 DEF Packed
  <2>4. Packed = num_files
    BY <1>1, <1>3 DEF Packed
  <2> QED BY <2>1, <2>2, <2>3, <2>4
<1>5. EntriesInv'
  <2>1. TableSize' = TableSize
    BY <1>1 DEF num_files, TableSize
  <2> QED BY <1>1, <1>4, <2>1 DEF SofsInv, EntriesInv
<1>6. ImageInv'
  BY <1>1, <1>4 DEF SofsInv, ImageInv
<1>7. ListInv'
  BY <1>1, <1>2 DEF SofsInv, ListInv, ListsWholeNames
<1> QED BY <1>5, <1>6, <1>7 DEF SofsInv

\* fs_list changes its own variables only, and runs once the image is there.
LEMMA ListFrame ==
  ASSUME SofsInv, fs # "none", fs' = fs,
         UNCHANGED <<files, entries, current_offset, image>>
  PROVE  EntriesInv' /\ ImageInv'
<1>1. num_files' = num_files /\ TableSize' = TableSize
  BY DEF num_files, TableSize
<1>2. Packed' = Packed
  BY <1>1 DEF Packed
<1>3. image # << >>
  BY DEF SofsInv, ImageInv
<1>4. EntriesInv'
  BY <1>1 DEF SofsInv, EntriesInv
<1>5. ImageInv'
  BY <1>1, <1>2, <1>3 DEF SofsInv, ImageInv
<1> QED BY <1>4, <1>5

LEMMA fs_listInv ==
  ASSUME SofsInv, NEW size \in BufSizes, fs_list(size)
  PROVE  SofsInv'
<1>1. /\ fs # "none" /\ buf_size' = size /\ i' = 0 /\ pos' = 0 /\ buf' = << >>
      /\ at' = (IF fs = "valid" THEN "loop" ELSE "idle")
      /\ UNCHANGED <<files, entries, current_offset, image, fs>>
  BY DEF fs_list, mkfsVars
<1>2. EntriesInv' /\ ImageInv'
  BY <1>1, ListFrame
<1>3. num_files' \in Nat /\ size \in Nat /\ size < WORD
  <2>1. files \in Directories
    BY DEF SofsInv, EntriesInv
  <2>2. num_files \in Nat
    BY <2>1, FilesOK
  <2> QED BY <1>1, <2>2, SofsAssumption DEF num_files
<1>4. WholeNames(buf', i')
  BY <1>1, EmptyNames
<1>5. WholeNames(buf, i)'
  BY <1>1, <1>4 DEF WholeNames
<1>6. buf' \in Seq(Symbol) /\ Len(buf') = 0
  BY <1>1
<1>7. at' \in {"idle", "loop"} /\ (at' # "idle" => fs' = "valid")
  BY <1>1
<1>8. ListInv'
  BY <1>1, <1>3, <1>5, <1>6, <1>7 DEF ListInv, ListsWholeNames
<1> QED BY <1>2, <1>8 DEF SofsInv

LEMMA ListNameInv == ASSUME SofsInv, ListName PROVE SofsInv'
<1>1. PICK n, p, name : n = i /\ p = pos /\ name = entries[n + 1].name
  OBVIOUS
<1>2. /\ at = "loop" /\ n < num_files /\ p + Len(name) + 1 < buf_size
      /\ buf' = buf \o name \o <<"newline">> /\ pos' = p + Len(name) + 1 /\ i' = n + 1
      /\ UNCHANGED <<files, entries, current_offset, image, fs, buf_size, at>>
  BY <1>1 DEF ListName, Listing, RoomFor, mkfsVars
<1>3. /\ fs = "valid" /\ files \in Directories /\ n \in Nat /\ p \in Nat
      /\ buf_size \in Nat /\ buf_size < WORD
      /\ buf \in Seq(Symbol) /\ Len(buf) = p /\ WholeNames(buf, n)
  BY <1>1, <1>2 DEF SofsInv, EntriesInv, ListInv
<1>4. EntriesInv' /\ ImageInv'
  <2>1. fs # "none" /\ fs' = fs
    BY <1>2, <1>3
  <2> QED BY <1>2, <2>1, ListFrame
<1>5. num_files \in Nat /\ Len(entries) = num_files /\ num_files' = num_files
  <2>1. image # << >> /\ num_files \in Nat
    BY <1>3, FilesOK DEF SofsInv, ImageInv
  <2> QED BY <1>2, <2>1 DEF SofsInv, ImageInv, num_files
<1>6. name \in Seq(STRING)
  <2>1. n + 1 \in 1 .. Len(entries)
    BY <1>2, <1>3, <1>5
  <2>2. entries[n + 1] \in Entry
    BY <2>1 DEF SofsInv, EntriesInv
  <2> QED BY <1>1, <2>2 DEF Entry
<1>7. /\ buf' \in Seq(Symbol) /\ Len(buf') = p + Len(name) + 1
      /\ WholeNames(buf', n + 1)
  BY <1>1, <1>2, <1>3, <1>6, ExtendNames
<1>8. WholeNames(buf, i)'
  BY <1>2, <1>7 DEF WholeNames
<1>9. Len(name) \in Nat
  BY <1>6
<1>10. ListInv'
  BY <1>2, <1>3, <1>5, <1>7, <1>8, <1>9 DEF ListInv, ListsWholeNames
<1> QED BY <1>4, <1>10 DEF SofsInv

LEMMA EndListInv == ASSUME SofsInv, EndList PROVE SofsInv'
<1>1. PICK n, p, text : n = i /\ p = pos /\ text = buf
  OBVIOUS
<1>2. /\ at = "loop" /\ at' = "done" /\ buf' = Append(text, "zero")
      /\ UNCHANGED <<files, entries, current_offset, image, fs, i, pos, buf_size>>
  BY <1>1 DEF EndList, mkfsVars
<1>3. /\ fs = "valid" /\ files \in Directories /\ n \in Nat /\ n <= num_files /\ p \in Nat
      /\ buf_size \in Nat /\ buf_size < WORD /\ (p < buf_size \/ p = 0)
      /\ text \in Seq(Symbol) /\ Len(text) = p /\ WholeNames(text, n)
  BY <1>1, <1>2 DEF SofsInv, EntriesInv, ListInv
<1>4. EntriesInv' /\ ImageInv'
  <2>1. fs # "none" /\ fs' = fs
    BY <1>2, <1>3
  <2> QED BY <1>2, <2>1, ListFrame
<1>5. /\ buf' \in Seq(Symbol) /\ Len(buf') = p + 1 /\ "zero" \in Symbol
      /\ \A k \in 1 .. p : buf'[k] = text[k]
  <2>1. "zero" \in Symbol
    BY DEF Symbol
  <2> QED BY <1>2, <1>3, <2>1, AppendProperties
<1>6. SubSeq(buf', 1, p) = text
  <2>1. \A k \in 1 .. p : text[k] \in Symbol /\ buf'[k] \in Symbol
    BY <1>3, <1>5
  <2>2. /\ SubSeq(buf', 1, p) \in Seq(Symbol)
        /\ Len(SubSeq(buf', 1, p)) = IF 1 <= p THEN p - 1 + 1 ELSE 0
        /\ \A k \in 1 .. p - 1 + 1 : SubSeq(buf', 1, p)[k] = buf'[1 + k - 1]
    BY <1>3, <2>1, SubSeqProperties
  <2>3. Len(SubSeq(buf', 1, p)) = p /\ \A k \in 1 .. p : SubSeq(buf', 1, p)[k] = text[k]
    BY <1>3, <1>5, <2>2
  <2> QED BY <1>3, <2>2, <2>3, SeqEqual
<1>7. num_files \in Nat /\ num_files' = num_files
  BY <1>2, <1>3, FilesOK DEF num_files
<1>8. n < num_files => p + Len(entries[n + 1].name) + 2 > buf_size
  <2>1. SUFFICES ASSUME n < num_files
                 PROVE  p + Len(entries[n + 1].name) + 2 > buf_size
    OBVIOUS
  <2>2. Len(entries[n + 1].name) \in Nat
    <3>1. image # << >>
      BY <1>3 DEF SofsInv, ImageInv
    <3>2. n + 1 \in 1 .. Len(entries)
      BY <1>3, <1>7, <2>1, <3>1 DEF SofsInv, ImageInv
    <3>3. entries[n + 1] \in Entry
      BY <3>2 DEF SofsInv, EntriesInv
    <3> QED BY <3>3 DEF Entry
  <2>3. CASE p < (buf_size - 1) % WORD
    <3>1. ~(p + Len(entries[n + 1].name) + 1 < buf_size)
      BY <1>1, <1>2, <2>1, <2>3 DEF EndList, Listing, RoomFor
    <3> QED BY <1>3, <2>2, <3>1
  <2>4. CASE ~(p < (buf_size - 1) % WORD)
    <3>1. CASE buf_size = 0
      BY <1>3, <2>2, <3>1
    <3>2. CASE buf_size > 0
      <4>1. (buf_size - 1) % WORD = buf_size - 1
        <5>1. \A x \in Nat, w \in Nat : x < w => x % w = x
          OBVIOUS
        <5>2. buf_size - 1 \in Nat /\ WORD \in Nat /\ buf_size - 1 < WORD
          BY <1>3, <3>2, SofsAssumption
        <5> QED BY <5>1, <5>2
      <4> QED BY <1>3, <2>2, <2>4, <4>1
    <3> QED BY <1>3, <3>1, <3>2
  <2> QED BY <2>3, <2>4
<1>9. ListsWholeNames'
  <2>1. WholeNames(SubSeq(buf', 1, pos'), i')
    BY <1>1, <1>2, <1>3, <1>6
  <2>2. WholeNames(SubSeq(buf, 1, pos), i)'
    BY <1>2, <2>1 DEF WholeNames
  <2>3. buf' = Append(SubSeq(buf', 1, pos'), "zero")
    BY <1>1, <1>2, <1>6
  <2> QED BY <1>1, <1>2, <1>7, <1>8, <2>2, <2>3 DEF ListsWholeNames
<1>10. StaysInBuffer'
  BY <1>2, <1>3, <1>5 DEF StaysInBuffer
<1>11. ListInv'
  BY <1>1, <1>2, <1>3, <1>5, <1>7, <1>9, <1>10 DEF ListInv
<1> QED BY <1>4, <1>11 DEF SofsInv

LEMMA ReturnInv == ASSUME SofsInv, Return PROVE SofsInv'
<1>1. /\ at = "done" /\ at' = "idle" /\ i' = 0 /\ pos' = 0 /\ buf_size' = 0 /\ buf' = << >>
      /\ UNCHANGED <<files, entries, current_offset, image, fs>>
  BY DEF Return, mkfsVars
<1>2. fs # "none"
  BY <1>1 DEF SofsInv, ListInv
<1>3. EntriesInv' /\ ImageInv'
  BY <1>1, <1>2, ListFrame
<1>4. buf' \in Seq(Symbol)
  BY <1>1
<1>5. ListInv'
  BY <1>1, <1>4 DEF ListInv, ListsWholeNames
<1> QED BY <1>3, <1>5 DEF SofsInv

-----------------------------------------------------------------------------
(* The theorems                                                            *)

\* Every step of mkfs.py and of fs.c keeps SofsInv: where each file's bytes
\* lie in the image and what fs_list has written, for every directory.
THEOREM SofsInvariance == Spec => []SofsInv
<1>1. Init => SofsInv
  BY SofsInit
<1>2. SofsInv /\ [Next]_vars => SofsInv'
  <2>1. SUFFICES ASSUME SofsInv, [Next]_vars
                 PROVE  SofsInv'
    OBVIOUS
  <2>2. CASE AddEntry
    BY <2>1, <2>2, AddEntryInv
  <2>3. CASE WriteTable
    BY <2>1, <2>3, WriteTableInv
  <2>4. CASE WriteFile
    BY <2>1, <2>4, WriteFileInv
  <2>5. CASE fs_init
    BY <2>1, <2>5, fs_initInv
  <2>6. CASE \E size \in BufSizes : fs_list(size)
    BY <2>1, <2>6, fs_listInv
  <2>7. CASE ListName
    BY <2>1, <2>7, ListNameInv
  <2>8. CASE EndList
    BY <2>1, <2>8, EndListInv
  <2>9. CASE Return
    BY <2>1, <2>9, ReturnInv
  <2>10. CASE UNCHANGED vars
    <3>1. UNCHANGED <<files, entries, current_offset, image, fs, i, pos, buf_size, at, buf>>
      BY <2>10 DEF vars, mkfsVars, listVars
    <3>2. num_files' = num_files /\ TableSize' = TableSize
      BY <3>1 DEF num_files, TableSize
    <3>3. EntriesInv'
      BY <2>1, <3>1, <3>2 DEF SofsInv, EntriesInv
    <3>4. ImageInv'
      BY <2>1, <3>1, <3>2 DEF SofsInv, ImageInv, Packed
    <3>5. ListInv'
      BY <2>1, <3>1, <3>2 DEF SofsInv, ListInv, ListsWholeNames, StaysInBuffer, WholeNames
    <3> QED BY <3>3, <3>4, <3>5 DEF SofsInv
  <2> QED BY <2>1, <2>2, <2>3, <2>4, <2>5, <2>6, <2>7, <2>8, <2>9, <2>10 DEF Next
<1> QED BY <1>1, <1>2, PTL DEF Spec

\* What mkfs.py packs is what fs_find and fs_file_data give back: every file
\* its own bytes, found under its own name, for every directory.
THEOREM ReadsBackHolds == Spec => []ReadsBack
<1>1. SofsInv => ReadsBack
  <2>1. SUFFICES ASSUME SofsInv, fs = "valid"
                 PROVE  DataIntact /\ FoundByName
    BY DEF ReadsBack, DataIntact, FoundByName
  <2>2. image # << >> /\ Len(entries) = num_files /\ Packed = num_files
    BY <2>1 DEF SofsInv, ImageInv, Packed
  <2>3. files \in Directories
    BY <2>1 DEF SofsInv, EntriesInv
  <2>4. num_files \in Nat /\ \A n \in 1 .. num_files : files[n].name \in Seq(STRING)
    BY <2>3, FilesOK
  <2>5. ASSUME NEW n \in 1 .. num_files
        PROVE  /\ entries[n].offset % 4 = 0
               /\ FileData(n - 1) = [k \in 1 .. files[n].size |-> <<n, k>>]
    <3>1. n <= Packed
      BY <2>2, <2>4
    <3>2. \A k \in 1 .. files[n].size : image[entries[n].offset + k] = <<n, k>>
      BY <2>1, <2>2, <2>5, <3>1 DEF SofsInv, ImageInv
    <3>3. entries[n].size = files[n].size /\ entries[n].offset % 4 = 0
      BY <2>1, <2>2, TableOK
    <3>4. (n - 1) + 1 = n
      BY <2>4
    <3>5. FileData(n - 1) = [k \in 1 .. files[n].size |-> image[entries[n].offset + k]]
      BY <3>3, <3>4 DEF FileData
    <3> QED BY <3>2, <3>3, <3>5
  <2>6. ASSUME NEW n \in 1 .. num_files
        PROVE  /\ Len(entries[n].name) < MAX_NAME
               /\ (/\ Len(files[n].name) < MAX_NAME
                   /\ \A m \in 1 .. n - 1 : Stored(files[m].name) # files[n].name)
                  => fs_find(files[n].name) = n - 1
    <3>1. \A m \in 1 .. num_files : entries[m].name = Stored(files[m].name)
      BY <2>1, <2>2, TableOK
    <3>2. Len(entries[n].name) < MAX_NAME
      BY <2>4, <3>1, StoredName
    <3>3. ASSUME Len(files[n].name) < MAX_NAME,
                 \A m \in 1 .. n - 1 : Stored(files[m].name) # files[n].name
          PROVE  fs_find(files[n].name) = n - 1
      <4>1. PICK name, found : name = files[n].name /\ found = Matches(name)
        OBVIOUS
      <4>2. n \in found /\ found \subseteq 1 .. num_files
        BY <2>4, <3>1, <3>3, <4>1, StoredName DEF Matches
      <4>3. \A m \in found : n <= m
        <5>1. SUFFICES ASSUME NEW m \in found, m < n
                       PROVE  FALSE
          BY <2>4, <4>2
        <5>2. m \in 1 .. num_files /\ entries[m].name = name
          BY <4>1 DEF Matches
        <5>3. m \in 1 .. n - 1
          BY <2>4, <5>1, <5>2
        <5> QED BY <3>1, <3>3, <4>1, <5>2, <5>3
      <4>4. \A q \in found : (\A m \in found : q <= m) => q = n
        BY <2>4, <4>2, <4>3
      <4>5. (CHOOSE q \in found : \A m \in found : q <= m) = n
        BY <4>2, <4>3, <4>4
      <4>6. fs_find(name) = (CHOOSE q \in found : \A m \in found : q <= m) - 1
        BY <2>1, <4>1, <4>2 DEF fs_find
      <4> QED BY <4>1, <4>5, <4>6
    <3> QED BY <3>2, <3>3
  <2> QED BY <2>5, <2>6 DEF DataIntact, FoundByName
<1> QED BY <1>1, SofsInvariance, PTL

\* fs_list stays in its buffer and fills it with as many whole names as fit,
\* for every buffer size, the ones where buf_size - 1 wraps included.
THEOREM ListFitsHolds == Spec => []ListFits
<1>1. SofsInv => ListFits
  <2>1. SUFFICES ASSUME SofsInv
                 PROVE  StaysInBuffer /\ ListsWholeNames
    BY DEF ListFits
  <2>2. at \in {"idle", "loop", "done"} /\ buf_size \in Nat /\ pos \in Nat
    BY <2>1 DEF SofsInv, ListInv
  <2>3. CASE at = "idle"
    BY <2>1, <2>2, <2>3 DEF SofsInv, ListInv, StaysInBuffer
  <2>4. CASE at = "loop"
    BY <2>1, <2>2, <2>4 DEF SofsInv, ListInv, StaysInBuffer
  <2>5. CASE at = "done"
    BY <2>1, <2>5 DEF SofsInv, ListInv
  <2>6. ListsWholeNames
    BY <2>1 DEF SofsInv, ListInv
  <2> QED BY <2>2, <2>3, <2>4, <2>5, <2>6
<1> QED BY <1>1, SofsInvariance, PTL
=============================================================================
