------------------------------ MODULE FileTable ------------------------------
(***************************************************************************)
(* The table of open files of the Pascal runtime: runtime/assign.c,        *)
(* fileio.c, bind.c and the binary half of getput.c, over the streams of   *)
(* the C library and the files on disk.                                    *)
(*                                                                         *)
(* A Pascal file variable is a File whose handle is an index into files[]; *)
(* a global one starts as zero bytes, so with handle 0, which is also the  *)
(* handle of INPUT.  assign takes a fresh entry and gives it a name.       *)
(* Opening a variable that has handle 0 assigns it a temporary name first. *)
(* Streams are buffered: what is put reaches the disk when StdioSize       *)
(* records wait or when the stream is closed, and a read fetches up to     *)
(* StdioSize records at once.                                              *)
(***************************************************************************)
EXTENDS Integers, Sequences, FiniteSets

CONSTANTS
  Vars,          (* the global file variables of the Pascal program        *)
  Input, Output, (* the File variables of the runtime itself               *)
  Unnamed,       (* the variables the program may open without an assign   *)
  Names,         (* the names it assigns                                   *)
  InputName, OutputName, Absent, Nobody,
  MaxPascalFiles,
  StdioSize,     (* records in the buffer of a FILE                        *)
  Values,        (* the records it writes                                  *)
  MaxRecords,    (* bound: records put into one file, or past one stream   *)
  Disciplined    (* it assigns only closed variables and unshared names    *)

VARIABLES
  handle,   (* File.handle of every variable                               *)
  files,    (* files[]: inUse, name, fileData and file of each entry       *)
  readAhead,(* files[].readAhead                                           *)
  buffer,   (* the record in File.buffer of every variable                 *)
  tmpCount, (* static n of __assign_unnamed                                *)
  disk,     (* the files on disk, by name                                  *)
  status,   (* "running", or the message the program exited with           *)
  attached, (* history: the file each variable stands for                  *)
  ideal,    (* history: what that file must hold                           *)
  taken     (* history: records taken from it since it was opened          *)

vars == <<handle, files, readAhead, buffer, tmpCount, disk, status,
          attached, ideal, taken>>

AllVars == Vars \cup {Input, Output}
Handles == 0 .. MaxPascalFiles - 1

TempName(k) == <<"lacsap_tmp_file", k>>
TempNames   == {TempName(k) : k \in Handles}
DiskNames   == Names \cup TempNames \cup {InputName, OutputName}

ASSUME FileTableAssumption ==
  /\ Vars \cap {Input, Output, Nobody} = {}
  /\ Input # Output
  /\ Input # Nobody
  /\ Output # Nobody
  /\ Unnamed \subseteq Vars \cup {Input}
  /\ MaxPascalFiles \in Nat
  /\ MaxPascalFiles >= 2
  /\ StdioSize \in Nat \ {0}
  /\ MaxRecords \in Nat
  /\ Disciplined \in BOOLEAN
  /\ Absent \notin DiskNames

(* A FILE: its mode, the offset of its descriptor, and the records in its  *)
(* buffer (not yet written, or fetched and not yet taken).                 *)
Stream(m, o, d) == [mode |-> m, off |-> o, data |-> d]
NULL == Stream("none", 0, <<>>)
IsOpen(h) == files[h].file # NULL

FreshEntry == [inUse |-> FALSE, name |-> Absent, fileData |-> Nobody, file |-> NULL]

-----------------------------------------------------------------------------
(* The C library.                                                          *)

(* write(2) of the records d at offset o, in a file that may be shorter.   *)
WriteAt(s, o, d) ==
  [i \in 1 .. IF Len(s) > o + Len(d) THEN Len(s) ELSE o + Len(d) |->
     CASE i > o /\ i <= o + Len(d) -> d[i - o]
       [] i <= o /\ i > Len(s)     -> Absent
       [] OTHER                    -> s[i]]

(* Mutant: append mode writes at the offset of the stream.                *)
FlushedAtOffset(d, e) ==
  IF e.file.mode \in {"w", "a"}
    THEN [d EXCEPT ![e.name] = WriteAt(@, e.file.off, e.file.data)]
    ELSE d

(* fflush: append mode writes at the end of the file, wherever that is.    *)
Flushed(d, e) ==
  CASE e.file.mode = "w" -> [d EXCEPT ![e.name] = WriteAt(@, e.file.off, e.file.data)]
    [] e.file.mode = "a" -> [d EXCEPT ![e.name] = @ \o e.file.data]
    [] OTHER -> d

(* fread of one record: from the buffer, which is filled when it is empty. *)
Fetched(e) ==
  IF e.file.mode # "r" \/ e.file.data # <<>>
    THEN e.file
    ELSE LET s == disk[e.name]
             n == IF Len(s) - e.file.off < StdioSize THEN Len(s) ELSE e.file.off + StdioSize
         IN  IF n <= e.file.off THEN e.file
             ELSE Stream("r", n, SubSeq(s, e.file.off + 1, n))

-----------------------------------------------------------------------------
Running == status = "running"

Exit(why) ==
  /\ status' = why
  /\ UNCHANGED <<handle, files, readAhead, buffer, tmpCount, disk, attached, ideal, taken>>

TableFull == \A h \in Handles : files[h].inUse
FirstFree == CHOOSE h \in Handles : ~files[h].inUse /\ \A g \in 0 .. h - 1 : files[g].inUse

(* Mutant: the entry is not marked as used.                               *)
AssignedUnmarked(h, v, name) ==
  [files EXCEPT ![h] = [@ EXCEPT !.name = name, !.fileData = v]]
(* Mutant: the name is not stored.                                        *)
AssignedUnnamed(h, v, name) ==
  [files EXCEPT ![h] = [@ EXCEPT !.inUse = TRUE, !.fileData = v]]

(* __assign(v, name) on entry h: files[h].file is left as it is.           *)
Assigned(h, v, name) ==
  [files EXCEPT ![h] = [@ EXCEPT !.inUse = TRUE, !.name = name, !.fileData = v]]

(* What the disciplined program checks before it assigns.                  *)
MayAssign(v, name) ==
  Disciplined => /\ handle[v] # 0 => ~IsOpen(handle[v])
                 /\ \A w \in AllVars \ {v} : attached[w] # name

Assign(v, name) ==
  /\ Running
  /\ MayAssign(v, name)
  /\ IF TableFull
       THEN Exit("No free files... Exiting")
       ELSE /\ handle' = [handle EXCEPT ![v] = FirstFree]
            /\ files' = Assigned(FirstFree, v, name)
            /\ readAhead' = [readAhead EXCEPT ![FirstFree] = 0]
            /\ attached' = [attached EXCEPT ![v] = name]
            /\ taken' = [taken EXCEPT ![v] = 0]
            /\ UNCHANGED <<buffer, tmpCount, disk, status, ideal>>

(* The name __assign_unnamed makes up next, and what its loop over the six *)
(* digits leaves in the static counter.                                    *)
NextTemp     == TempName((tmpCount + 1) % MaxPascalFiles)
NextTmpCount == ((tmpCount + 1) % MaxPascalFiles) \div 1000000

(* Mutant: every open gets a temporary name.                              *)
AlwaysUnassigned(v) == TRUE
(* Mutant: the stream that is open is dropped, not closed.                *)
UnflushedDisk(v) == disk

(* OpenFile up to fopen: the entry it works on, its name and its owner,    *)
(* and the disk once a stream that is still open there has been closed.    *)
Unassigned(v)   == handle[v] = 0
OpenHandle(v)   == IF Unassigned(v) THEN FirstFree ELSE handle[v]
OpenFiles(v)    == IF Unassigned(v) THEN Assigned(FirstFree, v, NextTemp) ELSE files
OpenDisk(v)     == Flushed(disk, OpenFiles(v)[OpenHandle(v)])
OpenName(v)     == OpenFiles(v)[OpenHandle(v)].name
OpenAttached(v) == IF Unassigned(v) THEN v ELSE attached[v]

(* The rest of OpenFile when fopen succeeds.                               *)
Opened(v, file, d) ==
  /\ handle' = [handle EXCEPT ![v] = OpenHandle(v)]
  /\ files' = [OpenFiles(v) EXCEPT ![OpenHandle(v)].file = file]
  /\ tmpCount' = IF Unassigned(v) THEN NextTmpCount ELSE tmpCount
  /\ disk' = d
  /\ attached' = [attached EXCEPT ![v] = OpenAttached(v)]
  /\ taken' = [taken EXCEPT ![v] = 0]
  /\ UNCHANGED status

CanOpen(v) == Running /\ (Unassigned(v) => v \in Unnamed)

(* No entry is left for a temporary name, or fopen fails: the file is not  *)
(* there to be read, or the system refuses.  Either way the program ends.  *)
NoEntry(v) == Unassigned(v) /\ TableFull
OpenFails(v) ==
  Exit(IF NoEntry(v) THEN "No free files... Exiting" ELSE "Attempt to open file failed")

(* __reset also gets the first record.                                     *)
Reset(v) ==
  /\ CanOpen(v)
  /\ \/ OpenFails(v)
     \/ LET d     == OpenDisk(v)
            s     == d[OpenName(v)]
            n     == IF Len(s) < StdioSize THEN Len(s) ELSE StdioSize
            first == SubSeq(s, 1, n)
        IN  /\ ~NoEntry(v)
            /\ s # Absent
            /\ Opened(v, Stream("r", n, IF n = 0 THEN <<>> ELSE Tail(first)), d)
            /\ buffer' = IF n = 0 THEN buffer ELSE [buffer EXCEPT ![v] = first[1]]
            /\ readAhead' = [readAhead EXCEPT ![OpenHandle(v)] = IF n = 0 THEN 0 ELSE 1]
            /\ UNCHANGED ideal

(* __rewrite truncates the file.                                           *)
Rewrite(v) ==
  /\ CanOpen(v)
  /\ \/ OpenFails(v)
     \/ /\ ~NoEntry(v)
        /\ Opened(v, Stream("w", 0, <<>>), [OpenDisk(v) EXCEPT ![OpenName(v)] = <<>>])
        /\ ideal' = [ideal EXCEPT ![OpenAttached(v)] = <<>>]
        /\ readAhead' = [readAhead EXCEPT ![OpenHandle(v)] = 0]
        /\ UNCHANGED buffer

(* __append keeps what is there and creates what is not.                   *)
AppendTo(v) ==
  /\ CanOpen(v)
  /\ \/ OpenFails(v)
     \/ /\ ~NoEntry(v)
        /\ Opened(v, Stream("a", 0, <<>>),
                  [OpenDisk(v) EXCEPT ![OpenName(v)] = IF @ = Absent THEN <<>> ELSE @])
        /\ readAhead' = [readAhead EXCEPT ![OpenHandle(v)] = 0]
        /\ UNCHANGED <<buffer, ideal>>

(* __close works on whatever entry the handle names, 0 included.           *)
Close(v) ==
  /\ Running
  /\ LET h == handle[v]
     IN  IF files[h].inUse /\ IsOpen(h)
           THEN /\ disk' = Flushed(disk, files[h])
                /\ files' = [files EXCEPT ![h].file = NULL]
                /\ UNCHANGED <<handle, readAhead, buffer, tmpCount, status,
                               attached, ideal, taken>>
           ELSE Exit("Attempt to close file failed")

(* __write_bin and __put, for a variable that has been opened.  A stream   *)
(* opened for reading takes nothing and nobody is told, but the buffer     *)
(* variable has been overwritten: the disciplined program does not do it.  *)
Put(v, x) ==
  /\ Running
  /\ handle[v] # 0
  /\ IsOpen(handle[v])
  /\ Disciplined => files[handle[v]].file.mode \in {"w", "a"}
  /\ LET h    == handle[v]
         e    == files[h]
         more == [e EXCEPT !.file.data = Append(@, x)]
         full == Len(more.file.data) >= StdioSize
     IN  /\ buffer' = [buffer EXCEPT ![v] = x]
         /\ IF e.file.mode \in {"w", "a"}
              THEN /\ Len(ideal[attached[v]]) < MaxRecords
                   /\ e.file.off + Len(e.file.data) < MaxRecords
                   /\ disk' = IF full THEN Flushed(disk, more) ELSE disk
                   /\ files' = IF full
                        THEN [files EXCEPT ![h].file =
                                Stream(@.mode, IF @.mode = "w" THEN @.off + Len(more.file.data) ELSE 0, <<>>)]
                        ELSE [files EXCEPT ![h] = more]
                   /\ ideal' = [ideal EXCEPT ![attached[v]] = Append(@, x)]
              ELSE UNCHANGED <<disk, files, ideal>>
         /\ UNCHANGED <<handle, readAhead, tmpCount, status, attached, taken>>

(* __read_bin takes the record in the buffer, and __get fetches the next.  *)
Get(v) ==
  /\ Running
  /\ handle[v] # 0
  /\ IsOpen(handle[v])
  /\ LET h == handle[v]
         s == Fetched(files[h])
         ok == s.mode = "r" /\ s.data # <<>>
     IN  /\ files' = [files EXCEPT ![h].file = IF ok THEN [s EXCEPT !.data = Tail(@)] ELSE s]
         /\ buffer' = IF ok THEN [buffer EXCEPT ![v] = s.data[1]] ELSE buffer
         /\ readAhead' = [readAhead EXCEPT ![h] = IF ok THEN 1 ELSE 0]
         /\ taken' = IF readAhead[h] = 1 THEN [taken EXCEPT ![v] = @ + 1] ELSE taken
         /\ UNCHANGED <<handle, tmpCount, disk, status, attached, ideal>>

-----------------------------------------------------------------------------
(* InitFiles: INPUT and OUTPUT are assigned first, to entries 0 and 1, and *)
(* stand for the standard streams.  All the rest is zero bytes.            *)
Init ==
  /\ handle = [v \in AllVars |-> IF v = Output THEN 1 ELSE 0]
  /\ files = [h \in Handles |->
       CASE h = 0 -> [inUse |-> TRUE, name |-> InputName, fileData |-> Input,
                      file |-> Stream("stdin", 0, <<>>)]
         [] h = 1 -> [inUse |-> TRUE, name |-> OutputName, fileData |-> Output,
                      file |-> Stream("stdout", 0, <<>>)]
         [] OTHER -> FreshEntry]
  /\ readAhead = [h \in Handles |-> 0]
  /\ buffer = [v \in AllVars |-> Absent]
  /\ tmpCount = 0
  /\ disk = [n \in DiskNames |-> Absent]
  /\ status = "running"
  /\ attached = [v \in AllVars |->
       CASE v = Input -> InputName [] v = Output -> OutputName [] OTHER -> Nobody]
  /\ ideal = [n \in DiskNames \cup AllVars |-> <<>>]
  /\ taken = [v \in AllVars |-> 0]

Next ==
  \/ \E v \in Vars : \E name \in Names : Assign(v, name)
  \/ \E v \in Vars \cup Unnamed : Reset(v) \/ Rewrite(v) \/ AppendTo(v) \/ Close(v) \/ Get(v)
  \/ \E v \in Vars \cup Unnamed : \E x \in Values : Put(v, x)

Spec == Init /\ [][Next]_vars

-----------------------------------------------------------------------------
(* Every variable has its type, and an entry in use has a name.            *)
Entry ==
  [inUse : BOOLEAN, name : DiskNames \cup {Absent}, fileData : AllVars \cup {Nobody},
   file : [mode : {"none", "stdin", "stdout", "r", "w", "a"}, off : Nat,
           data : Seq(Values \cup {Absent})]]

TypeOK ==
  /\ handle \in [AllVars -> Handles]
  /\ files \in [Handles -> Entry]
  /\ \A h \in Handles : files[h].inUse => files[h].name # Absent
  /\ readAhead \in [Handles -> {0, 1}]
  /\ buffer \in [AllVars -> Values \cup {Absent}]
  /\ tmpCount \in Nat
  /\ disk \in [DiskNames -> Seq(Values \cup {Absent}) \cup {Absent}]
  /\ attached \in [AllVars -> DiskNames \cup AllVars \cup {Nobody}]
  /\ taken \in [AllVars -> Nat]

(* Two file variables never work on one entry of the table, and an entry's *)
(* back pointer is the variable that works on it: read_chunk_text stores   *)
(* through that pointer (assign, close and open in any order, on any       *)
(* variable, the unassigned one and INPUT included).                       *)
EntriesOwned ==
  \A v \in AllVars : handle[v] # 0 \/ v = Input =>
    /\ handle[v] # 0 => files[handle[v]].inUse /\ files[handle[v]].fileData = v
    /\ \A w \in AllVars \ {v} : handle[w] = handle[v] => handle[v] = 0

(* What the program would still read from v: the record in the buffer      *)
(* variable, those in the stream, and those on disk past its offset.       *)
Unread(v) ==
  LET e == files[handle[v]]
      s == disk[e.name]
  IN  (IF readAhead[handle[v]] = 1 THEN <<buffer[v]>> ELSE <<>>)
      \o e.file.data \o SubSeq(s, e.file.off + 1, Len(s))

(* A variable that is open for reading has before it exactly the records   *)
(* that were put into its file and not yet taken, in order, through any    *)
(* history of closing, reopening, appending and buffering.                 *)
ReadsWhatWasWritten ==
  \A v \in AllVars : (handle[v] # 0 /\ files[handle[v]].file.mode = "r") =>
    Unread(v) = SubSeq(ideal[attached[v]], taken[v] + 1, Len(ideal[attached[v]]))

(* A file that no variable has open holds on disk all that was put into    *)
(* it: close, and a reset or rewrite without one, flush the stream.        *)
ClosedFilesAreComplete ==
  \A v \in AllVars : (handle[v] # 0 /\ ~IsOpen(handle[v])) =>
    LET name == files[handle[v]].name
    IN  disk[name] # Absent => disk[name] = ideal[attached[v]]

(* A temporary file holds what was put through its own variable, whatever  *)
(* is done meanwhile to other variables without a name: the test Array21   *)
(* of iso7185pat.pas has ten of them written and read back.                *)
TemporariesAreSeparate ==
  \A v \in Unnamed :
    (handle[v] # 0 /\ attached[v] = v /\ files[handle[v]].file.mode = "r") =>
      Unread(v) = SubSeq(ideal[v], taken[v] + 1, Len(ideal[v]))

(* Opening, closing or writing never loses an open stream: a stream that   *)
(* no variable reaches any more, so that nothing can close it, was left    *)
(* behind by an assign to a variable that was open.                        *)
Orphans == {h \in Handles \ {0, 1} : IsOpen(h) /\ \A v \in AllVars : handle[v] # h}
OrphanStep ==
  \/ Orphans' = Orphans
  \/ \E v \in Vars : \E name \in Names :
       Assign(v, name) /\ IsOpen(handle[v]) /\ Orphans' = Orphans \cup {handle[v]}
OnlyAssignOrphans == [][OrphanStep]_vars
=============================================================================
