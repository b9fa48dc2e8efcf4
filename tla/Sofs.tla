-------------------------------- MODULE Sofs --------------------------------
(***************************************************************************)
(* The file system image: tools/mkfs.py packs a directory into it, GRUB    *)
(* loads it as a module, and src/fs.c reads it in place.  The two sides    *)
(* share nothing but the layout, which mkfs.py computes twice: as offsets  *)
(* in the entries, and by what it writes.  A byte of the image is a pair   *)
(* <<file, index>>, Pad or Meta; a name is a sequence of characters, in    *)
(* the image without its zeros.  One iteration of a loop is one step.      *)
(***************************************************************************)
EXTENDS Integers, Sequences

CONSTANTS MAX_NAME,     \* FS_MAX_NAME: bytes of a name with its zero
          HEADER_SIZE,
          WORD,         \* 2^32
          Directories,  \* the sorted directories to pack: <<[name, size], ...>>
          BufSizes      \* the buffer sizes SYS_LISTFILES is called with

ENTRY_SIZE == MAX_NAME + 4 + 4
Pad  == "pad"
Meta == "meta"

ASSUME SofsAssumption ==
  /\ MAX_NAME \in Nat \ {0} /\ MAX_NAME % 4 = 0
  /\ HEADER_SIZE \in Nat /\ HEADER_SIZE % 4 = 0
  /\ WORD \in Nat /\ BufSizes \subseteq 0 .. WORD - 1
  /\ Directories \subseteq Seq([name : Seq(STRING), size : Nat]) \ {<< >>}

VARIABLES files,         \* the directory packed
          entries,       \* mkfs.py: entries so far; then those of the image
          current_offset,
          image,         \* the bytes written
          fs,            \* "none", "valid" or "invalid": rootfs
          i, pos, buf_size, at,  \* fs_list: its variables and where it is
          buf            \* the buffer from its start on, as far as written

mkfsVars == <<entries, current_offset, image>>
listVars == <<i, pos, buf_size, at, buf>>
vars     == <<files, mkfsVars, fs, listVars>>

num_files == Len(files)

Init ==
  /\ files \in Directories
  /\ entries = << >>
  /\ current_offset = HEADER_SIZE + ENTRY_SIZE * num_files
  /\ image = << >>
  /\ fs = "none"
  /\ i = 0 /\ pos = 0 /\ buf_size = 0 /\ at = "idle" /\ buf = << >>

-----------------------------------------------------------------------------
(* mkfs.py                                                                 *)

align4(n) == n + ((4 - (n % 4)) % 4)

\* The name as the entry holds it: cut so that a zero always follows.
Stored(name) ==
  SubSeq(name, 1, IF Len(name) < MAX_NAME THEN Len(name) ELSE MAX_NAME - 1)

\* Faulty variant: offsets count the data without its padding.
NextOffsetFaulty(size) == current_offset + size

NextOffset(size) == align4(current_offset + size)

AddEntry ==
  /\ Len(entries) < num_files
  /\ LET f == files[Len(entries) + 1] IN
     /\ entries' = Append(entries, [name |-> Stored(f.name),
                                    offset |-> current_offset, size |-> f.size])
     /\ current_offset' = NextOffset(f.size)
  /\ UNCHANGED <<files, image, fs, listVars>>

WriteTable ==
  /\ Len(entries) = num_files
  /\ image = << >>
  /\ image' = [a \in 1 .. HEADER_SIZE + ENTRY_SIZE * num_files |-> <<0, Meta>>]
  /\ i' = 1
  /\ UNCHANGED <<files, entries, current_offset, fs, pos, buf_size, at, buf>>

WriteFile ==
  /\ image # << >> /\ fs = "none"
  /\ i \in 1 .. num_files
  /\ LET size == files[i].size IN
     image' = image \o [k \in 1 .. size |-> <<i, k>>]
                    \o [k \in 1 .. align4(size) - size |-> <<0, Pad>>]
  /\ i' = i + 1
  /\ UNCHANGED <<files, entries, current_offset, fs, pos, buf_size, at, buf>>

-----------------------------------------------------------------------------
(* fs.c                                                                    *)

\* The module GRUB loads is the image, or something without the magic.
fs_init ==
  /\ fs = "none"
  /\ i = num_files + 1
  /\ fs' \in {"valid", "invalid"}
  /\ i' = 0
  /\ UNCHANGED <<files, mkfsVars, pos, buf_size, at, buf>>

\* fs_find: the first entry with the name, counted from 0; -1 without one.
Matches(name) == {n \in 1 .. num_files : entries[n].name = name}

fs_find(name) ==
  IF fs # "valid" \/ Matches(name) = {} THEN -1
  ELSE (CHOOSE n \in Matches(name) : \A m \in Matches(name) : n <= m) - 1

\* fs_file_data and fs_file_size: the bytes a reader of file index gets.
FileData(index) ==
  LET e == entries[index + 1] IN [k \in 1 .. e.size |-> image[e.offset + k]]

\* fs_list returns at once without a file system; kmain halts then, so that
\* no process calls it.
fs_list(size) ==
  /\ fs # "none" /\ at = "idle"
  /\ buf_size' = size
  /\ i' = 0 /\ pos' = 0 /\ buf' = << >>
  /\ at' = IF fs = "valid" THEN "loop" ELSE "idle"
  /\ UNCHANGED <<files, mkfsVars, fs>>

\* Faulty variant: the name and its newline may fill the buffer.
RoomForFaulty(n) == pos + n + 1 <= buf_size

RoomFor(n) == pos + n + 1 < buf_size

Listing == at = "loop" /\ i < num_files /\ pos < (buf_size - 1) % WORD

ListName ==
  /\ Listing
  /\ LET name == entries[i + 1].name IN
     /\ RoomFor(Len(name))
     /\ buf' = buf \o name \o <<"newline">>
     /\ pos' = pos + Len(name) + 1
  /\ i' = i + 1
  /\ UNCHANGED <<files, mkfsVars, fs, buf_size, at>>

\* The loop is over, or the next name does not fit: the zero ends the text.
EndList ==
  /\ at = "loop"
  /\ Listing => ~RoomFor(Len(entries[i + 1].name))
  /\ buf' = Append(buf, "zero")
  /\ at' = "done"
  /\ UNCHANGED <<files, mkfsVars, fs, i, pos, buf_size>>

\* The caller has the answer.
Return ==
  /\ at = "done"
  /\ at' = "idle"
  /\ i' = 0 /\ pos' = 0 /\ buf_size' = 0 /\ buf' = << >>
  /\ UNCHANGED <<files, mkfsVars, fs>>

Next ==
  \/ AddEntry \/ WriteTable \/ WriteFile
  \/ fs_init
  \/ \E size \in BufSizes : fs_list(size)
  \/ ListName \/ EndList \/ Return

Spec == Init /\ [][Next]_vars

-----------------------------------------------------------------------------
\* A file read through its entry has the bytes that were packed, all of them
\* and no others, and begins at a multiple of four: the offsets mkfs.py
\* computes are where it writes.
DataIntact ==
  fs = "valid" =>
    \A n \in 1 .. num_files :
      /\ entries[n].offset % 4 = 0
      /\ FileData(n - 1) = [k \in 1 .. files[n].size |-> <<n, k>>]

\* Every stored name ends within its field, and a file whose name fits is
\* found by it, unless an earlier file's longer name is cut to the same.
FoundByName ==
  fs = "valid" =>
    \A n \in 1 .. num_files :
      /\ Len(entries[n].name) < MAX_NAME
      /\ (/\ Len(files[n].name) < MAX_NAME
          /\ \A m \in 1 .. n - 1 : Stored(files[m].name) # files[n].name)
         => fs_find(files[n].name) = n - 1

\* What mkfs.py packs is what fs.c finds: every file under its own name, with
\* its own bytes, whatever the sizes and names before it.
ReadsBack == DataIntact /\ FoundByName

\* fs_list writes no byte behind the buffer, whatever its size; only for an
\* empty buffer the zero is written one byte behind it.
StaysInBuffer == Len(buf) <= buf_size \/ (buf_size = 0 /\ Len(buf) = 1)

\* Where line k begins when line n ends at end[n].
StartOf(end, k) == IF k = 1 THEN 0 ELSE end[k - 1]

\* The text is the first n names, each with its newline.
WholeNames(text, n) ==
  \E end \in [1 .. n -> 1 .. Len(text)] :
    /\ Len(text) = StartOf(end, n + 1)
    /\ \A k \in 1 .. n :
         SubSeq(text, StartOf(end, k) + 1, end[k])
           = Append(entries[k].name, "newline")

\* The text fs_list leaves: names whole and in order, each with its newline;
\* a name is missing only when it and the ones before it do not fit.
ListsWholeNames ==
  at = "done" =>
    /\ WholeNames(SubSeq(buf, 1, pos), i)
    /\ buf = Append(SubSeq(buf, 1, pos), "zero")
    /\ i < num_files => pos + Len(entries[i + 1].name) + 2 > buf_size

\* fs_list fills a buffer of any size with as many whole names as it holds
\* and no more, also where buf_size - 1 wraps.
ListFits == StaysInBuffer /\ ListsWholeNames
=============================================================================
