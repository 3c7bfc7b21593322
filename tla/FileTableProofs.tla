--------------------------- MODULE FileTableProofs ---------------------------
(***************************************************************************)
(* That the entries of the file table have one owner each, for every       *)
(* number of variables, names and entries, that only an assign to an open  *)
(* variable leaves a stream that nothing can close, and, in the second     *)
(* half, that a reader is given what was put into the file.                *)
(***************************************************************************)
EXTENDS FileTable, WellFoundedInduction, SequenceTheorems, TLAPS

Records    == Values \cup {Absent}
StreamType == [mode : {"none", "stdin", "stdout", "r", "w", "a"}, off : Nat, data : Seq(Records)]
DiskType   == [DiskNames -> Seq(Records) \cup {Absent}]
OnDisk     == {"r", "w", "a"}

(* A variable with a handle owns its entry, and OUTPUT owns entry 1.       *)
Owned ==
  /\ \A v \in AllVars : handle[v] # 0 =>
       files[handle[v]].inUse /\ files[handle[v]].fileData = v
  /\ files[0].inUse
  /\ files[1].inUse
  /\ files[1].fileData = Output

(* A free entry has no stream, and a stream on disk has a file there.      *)
StreamsHaveFiles ==
  \A h \in Handles :
    /\ ~files[h].inUse => files[h].file = NULL
    /\ files[h].file.mode \in OnDisk => disk[files[h].name] \in Seq(Records)

IInv == TypeOK /\ Owned /\ StreamsHaveFiles

-----------------------------------------------------------------------------
(* The operators of the model.                                             *)

LEMMA FirstFreeIsFree ==
  ASSUME ~TableFull
  PROVE  FirstFree \in Handles /\ ~files[FirstFree].inUse
  <1> DEFINE Free == {h \in Handles : ~files[h].inUse}
  <1>1. Free \subseteq Nat /\ Free # {}
    BY FileTableAssumption DEF TableFull, Handles
  <1>2. PICK least \in Free : \A h \in Free : <<h, least>> \notin OpToRel(<, Nat)
    <2> HIDE DEF Free
    <2>1. QED  BY <1>1, WFMin, NatLessThanWellFounded, Zenon
  <1>3. \A h \in Free : ~(h < least)
    BY <1>1, <1>2 DEF OpToRel
  <1>4. \A g \in 0 .. least - 1 : files[g].inUse
    <2>1. ASSUME NEW g \in 0 .. least - 1 PROVE g \in Handles /\ g < least
      BY <1>1, FileTableAssumption DEF Handles
    <2>2. QED  BY <1>3, <2>1
  <1>5. least \in Handles /\ ~files[least].inUse
    OBVIOUS
  <1>6. QED  BY <1>4, <1>5 DEF FirstFree

LEMMA NextTempType == tmpCount \in Nat => NextTemp \in DiskNames /\ NextTmpCount \in Nat
  <1>1. ASSUME tmpCount \in Nat
        PROVE  (tmpCount + 1) % MaxPascalFiles \in Handles
    BY <1>1, FileTableAssumption DEF Handles
  <1>2. \A k \in Nat : k \div 1000000 \in Nat
    OBVIOUS
  <1>3. Handles \subseteq Nat
    BY FileTableAssumption DEF Handles
  <1>4. QED  BY <1>1, <1>2, <1>3 DEF NextTemp, NextTmpCount, DiskNames, TempNames

LEMMA WriteAtType ==
  ASSUME NEW s \in Seq(Records), NEW o \in Nat, NEW d \in Seq(Records)
  PROVE  WriteAt(s, o, d) \in Seq(Records)
  <1> DEFINE n == IF Len(s) > o + Len(d) THEN Len(s) ELSE o + Len(d)
             R(i) == CASE i > o /\ i <= o + Len(d) -> d[i - o]
                       [] i <= o /\ i > Len(s)     -> Absent
                       [] OTHER                    -> s[i]
  <1>1. n \in Nat /\ Len(s) \in Nat /\ Len(d) \in Nat
    OBVIOUS
  <1>2. ASSUME NEW i \in 1 .. n PROVE R(i) \in Records
    <2>1. CASE i > o /\ i <= o + Len(d)
      <3>1. i - o \in 1 .. Len(d)
        BY <1>1, <2>1
      <3>2. d[i - o] \in Records
        BY <3>1, ElementOfSeq
      <3>3. QED  BY <2>1, <3>2
    <2>2. CASE i <= o /\ i > Len(s)
      BY <1>1, <2>2 DEF Records
    <2>3. CASE ~(i > o /\ i <= o + Len(d)) /\ ~(i <= o /\ i > Len(s))
      <3>1. i \in 1 .. Len(s)
        BY <1>1, <2>3
      <3>2. s[i] \in Records
        BY <3>1, ElementOfSeq
      <3>3. QED  BY <2>3, <3>2
    <2>4. QED  BY <2>1, <2>2, <2>3
  <1>3. WriteAt(s, o, d) = [i \in 1 .. n |-> R(i)]
    BY DEF WriteAt
  <1>4. WriteAt(s, o, d) \in [1 .. n -> Records]
    <2> HIDE DEF R, n
    <2>1. QED  BY <1>2, <1>3
  <1>5. \A f : f \in [1 .. n -> Records] => f \in Seq(Records)
    <2> HIDE DEF n
    <2>1. QED  BY <1>1, SeqDef, Zenon
  <1>6. QED  BY <1>4, <1>5

LEMMA EntryFields ==
  ASSUME NEW e \in Entry
  PROVE  /\ e.file \in StreamType
         /\ e.name \in DiskNames \cup {Absent}
         /\ e.fileData \in AllVars \cup {Nobody}
         /\ e.inUse \in BOOLEAN
         /\ e.file.off \in Nat
         /\ e.file.data \in Seq(Records)
  BY DEF Entry, StreamType, Records

LEMMA StreamIs ==
  ASSUME NEW m \in {"none", "stdin", "stdout", "r", "w", "a"}, NEW o \in Nat, NEW d \in Seq(Records)
  PROVE  Stream(m, o, d) \in StreamType /\ Stream(m, o, d).mode = m
  BY DEF Stream, StreamType

LEMMA WithFile ==
  ASSUME NEW e \in Entry, NEW s \in StreamType
  PROVE  [e EXCEPT !.file = s] \in Entry
  BY DEF Entry, StreamType, Records

(* Flushing an entry keeps the type of the disk and removes no file.       *)
LEMMA FlushedType ==
  ASSUME NEW d \in DiskType, NEW e \in Entry,
         e.file.mode \in OnDisk => e.name \in DiskNames /\ d[e.name] \in Seq(Records)
  PROVE  /\ Flushed(d, e) \in DiskType
         /\ \A n \in DiskNames : d[n] \in Seq(Records) => Flushed(d, e)[n] \in Seq(Records)
  <1>1. e.file.off \in Nat /\ e.file.data \in Seq(Records)
    BY EntryFields
  <1>2. CASE e.file.mode = "w"
    <2>1. e.name \in DiskNames /\ d[e.name] \in Seq(Records)
      BY <1>2 DEF OnDisk
    <2>2. PICK s \in Seq(Records) : s = WriteAt(d[e.name], e.file.off, e.file.data)
      BY <1>1, <2>1, WriteAtType
    <2>3. Flushed(d, e) = [d EXCEPT ![e.name] = s]
      BY <1>2, <2>2 DEF Flushed
    <2>4. QED  BY <2>1, <2>2, <2>3 DEF DiskType
  <1>3. CASE e.file.mode = "a"
    <2>1. e.name \in DiskNames /\ d[e.name] \in Seq(Records)
      BY <1>3 DEF OnDisk
    <2>2. PICK s \in Seq(Records) : s = d[e.name] \o e.file.data
      BY <1>1, <2>1, ConcatProperties
    <2>3. Flushed(d, e) = [d EXCEPT ![e.name] = s]
      BY <1>3, <2>2 DEF Flushed
    <2>4. QED  BY <2>1, <2>2, <2>3 DEF DiskType
  <1>4. CASE e.file.mode \notin {"w", "a"}
    BY <1>4 DEF Flushed
  <1>5. QED  BY <1>2, <1>3, <1>4

LEMMA PartOf ==
  ASSUME NEW s \in Seq(Records), NEW m \in Nat \ {0}, NEW n \in 0 .. Len(s)
  PROVE  SubSeq(s, m, n) \in Seq(Records)
  <1>1. \A i \in m .. n : i \in 1 .. Len(s)
    BY LenProperties
  <1>2. \A i \in m .. n : s[i] \in Records
    BY <1>1, ElementOfSeq
  <1>3. m \in Int /\ n \in Int
    BY LenProperties
  <1>4. QED  BY <1>2, <1>3, SubSeqProperties

(* Filling the buffer of a stream changes neither its mode nor its type.   *)
LEMMA FetchedType ==
  ASSUME NEW e \in Entry, e.file.mode \in OnDisk => disk[e.name] \in Seq(Records)
  PROVE  Fetched(e) \in StreamType /\ Fetched(e).mode = e.file.mode
  <1>1. e.file \in StreamType /\ e.file.off \in Nat
    BY EntryFields
  <1>2. CASE e.file.mode # "r" \/ e.file.data # <<>>
    BY <1>1, <1>2 DEF Fetched
  <1>3. CASE e.file.mode = "r" /\ e.file.data = <<>>
    <2>1. PICK s \in Seq(Records) : s = disk[e.name]
      BY <1>3 DEF OnDisk
    <2>2. PICK n : n = IF Len(s) - e.file.off < StdioSize THEN Len(s) ELSE e.file.off + StdioSize
      OBVIOUS
    <2>3. n \in 0 .. Len(s)
      BY <1>1, <2>1, <2>2, LenProperties, FileTableAssumption
    <2>4. CASE n <= e.file.off
      <3>1. Fetched(e) = e.file
        BY <1>3, <2>1, <2>2, <2>4 DEF Fetched
      <3>2. QED  BY <1>1, <3>1
    <2>5. CASE ~(n <= e.file.off)
      <3>1. PICK d \in Seq(Records) : d = SubSeq(s, e.file.off + 1, n)
        <4>1. e.file.off + 1 \in Nat \ {0}
          BY <1>1
        <4>2. SubSeq(s, e.file.off + 1, n) \in Seq(Records)
          BY <2>3, <4>1, PartOf
        <4>3. QED  BY <4>2
      <3>2. Fetched(e) = Stream("r", n, d)
        BY <1>3, <2>1, <2>2, <2>5, <3>1 DEF Fetched
      <3>3. n \in Nat
        BY <2>3, LenProperties
      <3>4. Stream("r", n, d) \in StreamType /\ Stream("r", n, d).mode = "r"
        BY <3>3, StreamIs
      <3>5. QED  BY <1>3, <3>2, <3>4
    <2>6. QED  BY <2>4, <2>5
  <1>4. QED  BY <1>2, <1>3

-----------------------------------------------------------------------------
(* Opening: the entry that is worked on, and what Opened leaves.           *)

LEMMA AssignedType ==
  ASSUME TypeOK, NEW h \in Handles, NEW v \in AllVars, NEW name \in DiskNames
  PROVE  LET fs == Assigned(h, v, name)
         IN  /\ fs \in [Handles -> Entry]
             /\ fs[h].inUse /\ fs[h].fileData = v /\ fs[h].name = name
             /\ fs[h].file = files[h].file
             /\ \A g \in Handles \ {h} : fs[g] = files[g]
  <1>1. PICK e : e = [files[h] EXCEPT !.inUse = TRUE, !.name = name, !.fileData = v]
    OBVIOUS
  <1>2. files \in [Handles -> Entry] /\ files[h] \in Entry
    BY DEF TypeOK
  <1>3. e \in Entry /\ e.inUse /\ e.fileData = v /\ e.name = name /\ e.file = files[h].file
    BY <1>1, <1>2 DEF Entry
  <1>4. Assigned(h, v, name) = [files EXCEPT ![h] = e]
    BY <1>1 DEF Assigned
  <1>5. QED  BY <1>2, <1>3, <1>4

LEMMA NamesAreStored ==
  ASSUME IInv, NEW h \in Handles, files[h].inUse
  PROVE  files[h].name \in DiskNames
  BY EntryFields DEF IInv, TypeOK

LEMMA ZeroIsHandle == 0 \in Handles /\ 1 \in Handles /\ Handles \subseteq Nat
  BY FileTableAssumption DEF Handles

LEMMA OpenEntry ==
  ASSUME IInv, NEW v \in Vars \cup Unnamed, ~NoEntry(v)
  PROVE  /\ v \in AllVars \ {Output}
         /\ OpenHandle(v) \in Handles \ {0, 1}
         /\ OpenFiles(v) \in [Handles -> Entry]
         /\ OpenFiles(v)[OpenHandle(v)].inUse
         /\ OpenFiles(v)[OpenHandle(v)].fileData = v
         /\ OpenName(v) \in DiskNames
         /\ \A g \in Handles \ {OpenHandle(v)} : OpenFiles(v)[g] = files[g]
         /\ \A w \in AllVars \ {v} : handle[w] # OpenHandle(v)
         /\ OpenFiles(v)[OpenHandle(v)].file.mode \in OnDisk =>
              disk[OpenName(v)] \in Seq(Records)
         /\ OpenHandle(v) # handle[v] => handle[v] = 0 /\ ~IsOpen(OpenHandle(v))
  <1>1. v \in AllVars \ {Output}
    BY FileTableAssumption DEF AllVars
  <1>2. CASE Unassigned(v)
    <2>1. PICK h \in Handles : h = FirstFree /\ ~files[h].inUse
      BY <1>2, FirstFreeIsFree DEF NoEntry
    <2>2. NextTemp \in DiskNames
      BY NextTempType DEF IInv, TypeOK
    <2>3. /\ OpenHandle(v) = h
          /\ OpenFiles(v) = Assigned(h, v, NextTemp)
          /\ handle[v] = 0
      BY <1>2, <2>1 DEF OpenHandle, OpenFiles, Unassigned
    <2>4. h # 0 /\ h # 1
      BY <2>1 DEF IInv, Owned
    <2>5. \A w \in AllVars : handle[w] # h
      BY <2>1, <2>4 DEF IInv, Owned
    <2>6. files[h].file = NULL
      BY <2>1 DEF IInv, StreamsHaveFiles
    <2>7. NULL.mode \notin OnDisk
      BY DEF NULL, Stream, OnDisk
    <2>8. TypeOK
      BY DEF IInv
    <2>9. PICK fs : fs = Assigned(h, v, NextTemp)
      OBVIOUS
    <2>10. /\ fs \in [Handles -> Entry]
           /\ fs[h].inUse /\ fs[h].fileData = v /\ fs[h].name = NextTemp
           /\ fs[h].file = NULL
           /\ \A g \in Handles \ {h} : fs[g] = files[g]
      BY <1>1, <2>2, <2>6, <2>8, <2>9, AssignedType
    <2>11. OpenName(v) = fs[h].name
      BY <2>3, <2>9 DEF OpenName
    <2>12. QED  BY <1>1, <2>2, <2>3, <2>4, <2>5, <2>6, <2>7, <2>9, <2>10, <2>11 DEF IsOpen
  <1>3. CASE ~Unassigned(v)
    <2>1. /\ OpenHandle(v) = handle[v]
          /\ OpenFiles(v) = files
          /\ OpenName(v) = files[handle[v]].name
          /\ handle[v] # 0
      BY <1>3 DEF OpenHandle, OpenFiles, OpenName, Unassigned
    <2>2. handle[v] \in Handles /\ files \in [Handles -> Entry]
      BY <1>1 DEF IInv, TypeOK
    <2>3. files[handle[v]].inUse /\ files[handle[v]].fileData = v
      BY <1>1, <2>1 DEF IInv, Owned
    <2>4. handle[v] # 1
      BY <1>1, <2>3 DEF IInv, Owned
    <2>5. \A w \in AllVars \ {v} : handle[w] # handle[v]
      BY <2>1, <2>3 DEF IInv, Owned
    <2>6. files[handle[v]].name \in DiskNames
      BY <2>2, <2>3, NamesAreStored
    <2>7. files[handle[v]].file.mode \in OnDisk => disk[files[handle[v]].name] \in Seq(Records)
      BY <2>2 DEF IInv, StreamsHaveFiles
    <2>8. QED  BY <1>1, <2>1, <2>2, <2>3, <2>4, <2>5, <2>6, <2>7
  <1>4. QED  BY <1>2, <1>3

(* What open does to the disk before fopen.                                *)
LEMMA OpenDiskType ==
  ASSUME IInv, NEW v \in Vars \cup Unnamed, ~NoEntry(v)
  PROVE  /\ OpenDisk(v) \in DiskType
         /\ \A n \in DiskNames : disk[n] \in Seq(Records) => OpenDisk(v)[n] \in Seq(Records)
  <1>1. PICK e \in Entry : e = OpenFiles(v)[OpenHandle(v)]
    BY OpenEntry
  <1>2. e.file.mode \in OnDisk => e.name \in DiskNames /\ disk[e.name] \in Seq(Records)
    BY <1>1, OpenEntry DEF OpenName
  <1>3. disk \in DiskType
    BY DEF IInv, TypeOK, DiskType, Records
  <1>4. OpenDisk(v) = Flushed(disk, e)
    BY <1>1 DEF OpenDisk
  <1>5. QED  BY <1>2, <1>3, <1>4, FlushedType

(* What an operation does to the stream of the entry its variable owns.    *)
Restreamed(v, h, fs, file) ==
  /\ v \in AllVars
  /\ h \in Handles
  /\ fs \in [Handles -> Entry]
  /\ fs[h].inUse /\ fs[h].name \in DiskNames
  /\ h # 0 => fs[h].fileData = v
  /\ file \in StreamType
  /\ h # 1
  /\ \A g \in Handles \ {h} : fs[g] = files[g]
  /\ \A w \in AllVars \ {v} : handle[w] # h \/ h = 0
  /\ handle[v] \in {0, h}
  /\ handle' = [handle EXCEPT ![v] = h]
  /\ files' = [fs EXCEPT ![h].file = file]
  /\ file.mode \in OnDisk => disk'[fs[h].name] \in Seq(Records)
  /\ disk' \in DiskType
  /\ \A n \in DiskNames : disk[n] \in Seq(Records) => disk'[n] \in Seq(Records)

LEMMA RestreamedTable ==
  ASSUME IInv, NEW v, NEW h, NEW fs, NEW file, Restreamed(v, h, fs, file)
  PROVE  /\ handle' \in [AllVars -> Handles]
         /\ files' \in [Handles -> Entry]
         /\ \A g \in Handles : files'[g].inUse => files'[g].name # Absent
         /\ Owned'
         /\ StreamsHaveFiles'
  <1>1. handle \in [AllVars -> Handles] /\ files \in [Handles -> Entry]
    BY DEF IInv, TypeOK
  <1>2. v \in AllVars /\ h \in Handles /\ fs[h] \in Entry /\ file \in StreamType
    BY DEF Restreamed
  <1>3. PICK e : e = [fs[h] EXCEPT !.file = file]
    OBVIOUS
  <1>4. e \in Entry
    BY <1>2, <1>3, WithFile
  <1>5. /\ e.inUse /\ e.name = fs[h].name /\ e.name \in DiskNames
        /\ e.file = file
        /\ h # 0 => e.fileData = v
    BY <1>2, <1>3 DEF Restreamed, Entry
  <1>6. files' = [fs EXCEPT ![h] = e]
    BY <1>3 DEF Restreamed
  <1>7. /\ files' \in [Handles -> Entry]
        /\ files'[h] = e
        /\ \A g \in Handles \ {h} : files'[g] = files[g]
    BY <1>2, <1>4, <1>6 DEF Restreamed
  <1>8. /\ handle' \in [AllVars -> Handles]
        /\ handle'[v] = h
        /\ \A w \in AllVars \ {v} : handle'[w] = handle[w]
    BY <1>1, <1>2 DEF Restreamed
  <1>9. \A g \in Handles : files'[g].inUse => files'[g].name # Absent
    <2>1. \A g \in Handles : files[g].inUse => files[g].name # Absent
      BY DEF IInv, TypeOK
    <2>2. e.name # Absent
      BY <1>5, FileTableAssumption
    <2>3. QED  BY <1>7, <2>1, <2>2
  <1>10. Owned'
    <2>1. ASSUME NEW w \in AllVars, handle'[w] # 0
          PROVE  files'[handle'[w]].inUse /\ files'[handle'[w]].fileData = w
      <3>1. CASE w = v
        BY <1>5, <1>7, <1>8, <2>1, <3>1
      <3>2. CASE w # v
        <4>1. handle'[w] = handle[w] /\ handle[w] \in Handles
          BY <1>1, <1>8, <3>2
        <4>2. handle[w] # h
          BY <2>1, <3>2, <4>1 DEF Restreamed
        <4>3. files[handle[w]].inUse /\ files[handle[w]].fileData = w
          BY <2>1, <4>1 DEF IInv, Owned
        <4>4. QED  BY <1>7, <4>1, <4>2, <4>3
      <3>3. QED  BY <3>1, <3>2
    <2>2. files[0].inUse /\ files[1].inUse /\ files[1].fileData = Output
      BY DEF IInv, Owned
    <2>3. h # 1
      BY DEF Restreamed
    <2>4. files'[0].inUse
      BY <1>5, <1>7, <2>2, ZeroIsHandle
    <2>5. files'[1].inUse /\ files'[1].fileData = Output
      BY <1>7, <2>2, <2>3, ZeroIsHandle
    <2>6. QED  BY <2>1, <2>4, <2>5 DEF Owned
  <1>11. StreamsHaveFiles'
    <2>1. ASSUME NEW g \in Handles
          PROVE  /\ ~files'[g].inUse => files'[g].file = NULL
                 /\ files'[g].file.mode \in OnDisk => disk'[files'[g].name] \in Seq(Records)
      <3>1. CASE g = h
        BY <1>5, <1>7, <3>1 DEF Restreamed
      <3>2. CASE g # h
        <4>1. files'[g] = files[g]
          BY <1>7, <3>2
        <4>2. /\ ~files[g].inUse => files[g].file = NULL
              /\ files[g].file.mode \in OnDisk => disk[files[g].name] \in Seq(Records)
          BY DEF IInv, StreamsHaveFiles
        <4>3. files[g].inUse => files[g].name \in DiskNames
          BY NamesAreStored
        <4>4. files[g].file = NULL => files[g].file.mode \notin OnDisk
          BY DEF NULL, Stream, OnDisk
        <4>5. \A n \in DiskNames : disk[n] \in Seq(Records) => disk'[n] \in Seq(Records)
          BY DEF Restreamed
        <4>6. files[g].inUse \in BOOLEAN
          BY <1>1, EntryFields
        <4>7. QED  BY <4>1, <4>2, <4>3, <4>4, <4>5, <4>6
      <3>3. QED  BY <3>1, <3>2
    <2>2. QED  BY <2>1 DEF StreamsHaveFiles, NULL, Stream, OnDisk
  <1>12. QED  BY <1>7, <1>8, <1>9, <1>10, <1>11

(* An operation on the entry of its own variable leaves no stream behind.  *)
LEMMA RestreamedOrphans ==
  ASSUME IInv, NEW v, NEW h, NEW fs, NEW file, Restreamed(v, h, fs, file),
         handle[v] = h \/ ~IsOpen(h)
  PROVE  Orphans' = Orphans
  <1>1. handle \in [AllVars -> Handles] /\ files \in [Handles -> Entry]
    BY DEF IInv, TypeOK
  <1>2. /\ handle'[v] = h /\ v \in AllVars
        /\ \A w \in AllVars \ {v} : handle'[w] = handle[w]
    BY <1>1 DEF Restreamed
  <1>3. \A g \in Handles \ {h} : files'[g] = files[g]
    BY <1>1 DEF Restreamed
  <1>4. ASSUME NEW g \in Handles \ {0, 1}
        PROVE  (IsOpen(g) /\ \A w \in AllVars : handle[w] # g)' <=>
               (IsOpen(g) /\ \A w \in AllVars : handle[w] # g)
    <2>1. CASE g = h
      BY <1>2, <2>1
    <2>2. CASE g # h
      <3>1. handle[v] # g /\ handle'[v] # g
        BY <1>2, <1>4, <2>2 DEF Restreamed
      <3>2. (IsOpen(g))' <=> IsOpen(g)
        BY <1>3, <2>2 DEF IsOpen, NULL
      <3>3. (\A w \in AllVars : handle'[w] # g) <=> (\A w \in AllVars : handle[w] # g)
        BY <1>2, <3>1
      <3>4. QED  BY <3>2, <3>3
    <2>3. QED  BY <2>1, <2>2
  <1>5. QED  BY <1>4 DEF Orphans

(* A file is open: what reset, rewrite and append have in common.          *)
LEMMA OpenedStep ==
  ASSUME IInv, NEW v \in Vars \cup Unnamed, ~NoEntry(v),
         NEW file \in StreamType, NEW d \in DiskType, Opened(v, file, d),
         d[OpenName(v)] \in Seq(Records),
         \A n \in DiskNames : disk[n] \in Seq(Records) => d[n] \in Seq(Records),
         buffer' \in [AllVars -> Records], readAhead' \in [Handles -> {0, 1}]
  PROVE  IInv' /\ Orphans' = Orphans
  <1>1. PICK h, fs : h = OpenHandle(v) /\ fs = OpenFiles(v)
    OBVIOUS
  <1>2. /\ v \in AllVars /\ h \in Handles \ {0, 1}
        /\ handle[v] \in {0, h}
        /\ handle[v] = h \/ ~IsOpen(h)
    BY <1>1, OpenEntry
  <1>3. OpenName(v) = fs[h].name
    BY <1>1 DEF OpenName
  <1>4. /\ handle' = [handle EXCEPT ![v] = h]
        /\ files' = [fs EXCEPT ![h].file = file]
        /\ disk' = d
    BY <1>1 DEF Opened
  <1>5. Restreamed(v, h, fs, file)
    BY <1>1, <1>2, <1>3, <1>4, OpenEntry DEF Restreamed
  <1>6. tmpCount' \in Nat
    BY NextTempType DEF Opened, IInv, TypeOK
  <1>7. attached' \in [AllVars -> DiskNames \cup AllVars \cup {Nobody}]
    <2>1. attached \in [AllVars -> DiskNames \cup AllVars \cup {Nobody}]
      BY DEF IInv, TypeOK
    <2>2. attached' = [attached EXCEPT ![v] = OpenAttached(v)]
      BY DEF Opened
    <2>3. OpenAttached(v) = v \/ OpenAttached(v) = attached[v]
      BY DEF OpenAttached
    <2>4. QED  BY <1>2, <2>1, <2>2, <2>3
  <1>8. taken' \in [AllVars -> Nat]
    BY DEF Opened, IInv, TypeOK
  <1>9. TypeOK'
    <2>1. disk' \in [DiskNames -> Seq(Records) \cup {Absent}]
      BY <1>4 DEF DiskType
    <2>2. QED
      BY <1>5, <1>6, <1>7, <1>8, <2>1, RestreamedTable DEF TypeOK, Records
  <1>10. QED
    BY <1>2, <1>5, <1>9, RestreamedTable, RestreamedOrphans DEF IInv

(* The program ends.                                                       *)
LEMMA ExitStep ==
  ASSUME IInv, UNCHANGED <<handle, files, readAhead, buffer, tmpCount, disk, attached, taken>>
  PROVE  IInv' /\ Orphans' = Orphans
  <1>1. TypeOK'
    BY DEF IInv, TypeOK
  <1>2. Owned' /\ StreamsHaveFiles'
    BY DEF IInv, Owned, StreamsHaveFiles
  <1>3. Orphans' = Orphans
    BY DEF Orphans, IsOpen
  <1>4. QED  BY <1>1, <1>2, <1>3 DEF IInv

LEMMA ResetStep ==
  ASSUME IInv, NEW v \in Vars \cup Unnamed, Reset(v)
  PROVE  IInv' /\ Orphans' = Orphans
  <1>1. CASE OpenFails(v)
    BY <1>1, ExitStep DEF OpenFails, Exit
  <1>2. CASE ~OpenFails(v)
    <2>1. PICK d, s : d = OpenDisk(v) /\ s = d[OpenName(v)]
      OBVIOUS
    <2>2. PICK n : n = IF Len(s) < StdioSize THEN Len(s) ELSE StdioSize
      OBVIOUS
    <2>3. PICK first : first = SubSeq(s, 1, n)
      OBVIOUS
    <2>4. PICK data : data = IF n = 0 THEN <<>> ELSE Tail(first)
      OBVIOUS
    <2>5. /\ ~NoEntry(v)
          /\ s # Absent
          /\ Opened(v, Stream("r", n, data), d)
          /\ buffer' = IF n = 0 THEN buffer ELSE [buffer EXCEPT ![v] = first[1]]
          /\ readAhead' = [readAhead EXCEPT ![OpenHandle(v)] = IF n = 0 THEN 0 ELSE 1]
      BY <1>2, <2>1, <2>2, <2>3, <2>4 DEF Reset
    <2>6. /\ d \in DiskType /\ OpenName(v) \in DiskNames /\ v \in AllVars
          /\ \A m \in DiskNames : disk[m] \in Seq(Records) => d[m] \in Seq(Records)
      BY <2>1, <2>5, OpenDiskType, OpenEntry
    <2>7. s \in Seq(Records)
      BY <2>1, <2>5, <2>6 DEF DiskType
    <2>8. n \in 0 .. Len(s) /\ n \in Nat
      BY <2>2, <2>7, LenProperties, FileTableAssumption
    <2>9. first \in Seq(Records) /\ Len(first) = n
      <3>1. first \in Seq(Records)
        BY <2>3, <2>7, <2>8, PartOf
      <3>2. \A i \in 1 .. n : s[i] \in Records
        BY <2>7, <2>8, ElementOfSeq, LenProperties
      <3>3. Len(first) = IF 1 <= n THEN n - 1 + 1 ELSE 0
        BY <2>3, <2>8, <3>2, SubSeqProperties
      <3>4. QED  BY <2>8, <3>1, <3>3
    <2>10. data \in Seq(Records) /\ (n # 0 => first[1] \in Records)
      <3>1. CASE n = 0
        BY <2>4, <3>1, EmptySeq
      <3>2. CASE n # 0
        <4>1. first # <<>> /\ 1 \in 1 .. Len(first)
          BY <2>8, <2>9, <3>2, EmptySeq
        <4>2. QED  BY <2>4, <2>9, <3>2, <4>1, HeadTailProperties, ElementOfSeq
      <3>3. QED  BY <3>1, <3>2
    <2>11. PICK file \in StreamType : file = Stream("r", n, data)
      BY <2>8, <2>10, StreamIs
    <2>12. buffer' \in [AllVars -> Records]
      <3>1. buffer \in [AllVars -> Records]
        BY DEF IInv, TypeOK, Records
      <3>2. QED  BY <2>5, <2>10, <3>1
    <2>13. readAhead' \in [Handles -> {0, 1}]
      <3>1. readAhead \in [Handles -> {0, 1}]
        BY DEF IInv, TypeOK
      <3>2. QED  BY <2>5, <3>1
    <2>14. d[OpenName(v)] \in Seq(Records) /\ Opened(v, file, d)
      BY <2>1, <2>5, <2>7, <2>11
    <2>15. QED  BY <2>5, <2>6, <2>12, <2>13, <2>14, OpenedStep
  <1>3. QED  BY <1>1, <1>2

(* One file of the disk d is replaced by the records in s.                 *)
LEMMA ReplaceFile ==
  ASSUME NEW d \in DiskType, NEW n \in DiskNames, NEW s \in Seq(Records)
  PROVE  /\ [d EXCEPT ![n] = s] \in DiskType
         /\ [d EXCEPT ![n] = s][n] \in Seq(Records)
         /\ \A m \in DiskNames : d[m] \in Seq(Records) => [d EXCEPT ![n] = s][m] \in Seq(Records)
  BY DEF DiskType

(* rewrite and append: the file has records s when fopen is done with it.  *)
LEMMA OpenToWrite ==
  ASSUME IInv, NEW v \in Vars \cup Unnamed, ~NoEntry(v), NEW s \in Seq(Records),
         NEW m \in {"w", "a"},
         Opened(v, Stream(m, 0, <<>>), [OpenDisk(v) EXCEPT ![OpenName(v)] = s]),
         buffer' = buffer, readAhead' = [readAhead EXCEPT ![OpenHandle(v)] = 0]
  PROVE  IInv' /\ Orphans' = Orphans
  <1>1. PICK d : d = [OpenDisk(v) EXCEPT ![OpenName(v)] = s]
    OBVIOUS
  <1>2. /\ OpenDisk(v) \in DiskType
        /\ OpenName(v) \in DiskNames
        /\ \A n \in DiskNames : disk[n] \in Seq(Records) => OpenDisk(v)[n] \in Seq(Records)
    BY OpenDiskType, OpenEntry
  <1>3. /\ d \in DiskType
        /\ d[OpenName(v)] \in Seq(Records)
        /\ \A n \in DiskNames : OpenDisk(v)[n] \in Seq(Records) => d[n] \in Seq(Records)
    BY <1>1, <1>2, ReplaceFile
  <1>4. <<>> \in Seq(Records)
    OBVIOUS
  <1>5. PICK file \in StreamType : file = Stream(m, 0, <<>>)
    BY <1>4, StreamIs
  <1>6. /\ buffer' \in [AllVars -> Records]
        /\ readAhead' \in [Handles -> {0, 1}]
    BY DEF IInv, TypeOK, Records
  <1>7. Opened(v, file, d)
    BY <1>1, <1>5
  <1>8. QED  BY <1>2, <1>3, <1>6, <1>7, OpenedStep

LEMMA RewriteStep ==
  ASSUME IInv, NEW v \in Vars \cup Unnamed, Rewrite(v)
  PROVE  IInv' /\ Orphans' = Orphans
  <1>1. CASE OpenFails(v)
    BY <1>1, ExitStep DEF OpenFails, Exit
  <1>2. CASE ~OpenFails(v)
    <2>1. <<>> \in Seq(Records)
      OBVIOUS
    <2>2. QED  BY <1>2, <2>1, OpenToWrite DEF Rewrite
  <1>3. QED  BY <1>1, <1>2

LEMMA AppendStep ==
  ASSUME IInv, NEW v \in Vars \cup Unnamed, AppendTo(v)
  PROVE  IInv' /\ Orphans' = Orphans
  <1>1. CASE OpenFails(v)
    BY <1>1, ExitStep DEF OpenFails, Exit
  <1>2. CASE ~OpenFails(v)
    <2>1. ~NoEntry(v)
      BY <1>2 DEF AppendTo
    <2>2. PICK s : s = IF OpenDisk(v)[OpenName(v)] = Absent THEN <<>> ELSE OpenDisk(v)[OpenName(v)]
      OBVIOUS
    <2>3. s \in Seq(Records)
      BY <2>1, <2>2, OpenDiskType, OpenEntry DEF DiskType
    <2>4. Opened(v, Stream("a", 0, <<>>), [OpenDisk(v) EXCEPT ![OpenName(v)] = s])
      BY <1>2, <2>2 DEF AppendTo
    <2>5. buffer' = buffer /\ readAhead' = [readAhead EXCEPT ![OpenHandle(v)] = 0]
      BY <1>2 DEF AppendTo
    <2>6. QED  BY <2>1, <2>3, <2>4, <2>5, OpenToWrite
  <1>3. QED  BY <1>1, <1>2

-----------------------------------------------------------------------------
(* The operations on an open file.                                         *)

(* The entry a variable works on.                                          *)
LEMMA OwnEntry ==
  ASSUME IInv, NEW v \in Vars \cup Unnamed, files[handle[v]].inUse
  PROVE  /\ v \in AllVars
         /\ handle[v] \in Handles \ {1}
         /\ files[handle[v]] \in Entry
         /\ files[handle[v]].name \in DiskNames
         /\ files[handle[v]].file.mode \in OnDisk =>
              disk[files[handle[v]].name] \in Seq(Records)
         /\ disk \in DiskType
         /\ \A w \in AllVars \ {v} : handle[w] # handle[v] \/ handle[v] = 0
         /\ handle[v] # 0 => files[handle[v]].fileData = v
  <1>1. v \in AllVars /\ v # Output
    BY FileTableAssumption DEF AllVars
  <1>2. handle \in [AllVars -> Handles] /\ files \in [Handles -> Entry] /\ disk \in DiskType
    BY DEF IInv, TypeOK, DiskType, Records
  <1>3. handle[v] # 1
    BY <1>1 DEF IInv, Owned
  <1>4. files[handle[v]].name \in DiskNames
    BY <1>1, <1>2, NamesAreStored
  <1>5. files[handle[v]].file.mode \in OnDisk => disk[files[handle[v]].name] \in Seq(Records)
    BY <1>1, <1>2 DEF IInv, StreamsHaveFiles
  <1>6. \A w \in AllVars \ {v} : handle[w] # handle[v] \/ handle[v] = 0
    BY <1>1 DEF IInv, Owned
  <1>7. handle[v] # 0 => files[handle[v]].fileData = v
    BY <1>1 DEF IInv, Owned
  <1>8. QED  BY <1>1, <1>2, <1>3, <1>4, <1>5, <1>6, <1>7

(* The stream of that entry, the disk and the buffers change together.     *)
LEMMA OwnStreamStep ==
  ASSUME IInv, NEW v \in Vars \cup Unnamed, files[handle[v]].inUse,
         NEW file \in StreamType, files' = [files EXCEPT ![handle[v]].file = file],
         disk' \in DiskType,
         \A n \in DiskNames : disk[n] \in Seq(Records) => disk'[n] \in Seq(Records),
         file.mode \in OnDisk => files[handle[v]].file.mode \in OnDisk,
         buffer' \in [AllVars -> Records], readAhead' \in [Handles -> {0, 1}],
         taken' \in [AllVars -> Nat],
         UNCHANGED <<handle, tmpCount, attached>>
  PROVE  IInv' /\ Orphans' = Orphans
  <1>1. handle \in [AllVars -> Handles] /\ files \in [Handles -> Entry]
    BY DEF IInv, TypeOK
  <1>2. handle' = [handle EXCEPT ![v] = handle[v]]
    BY <1>1, OwnEntry
  <1>3. file.mode \in OnDisk => disk'[files[handle[v]].name] \in Seq(Records)
    BY OwnEntry
  <1>4. Restreamed(v, handle[v], files, file)
    BY <1>1, <1>2, <1>3, OwnEntry DEF Restreamed
  <1>5. TypeOK'
    <2>1. disk' \in [DiskNames -> Seq(Records) \cup {Absent}]
      BY DEF DiskType
    <2>2. tmpCount' \in Nat /\ attached' \in [AllVars -> DiskNames \cup AllVars \cup {Nobody}]
      BY DEF IInv, TypeOK
    <2>3. QED  BY <1>4, <2>1, <2>2, RestreamedTable DEF TypeOK, Records
  <1>6. QED  BY <1>4, <1>5, RestreamedTable, RestreamedOrphans DEF IInv

LEMMA BuffersType ==
  IInv => /\ buffer \in [AllVars -> Records]
          /\ readAhead \in [Handles -> {0, 1}]
          /\ taken \in [AllVars -> Nat]
          /\ disk \in DiskType
  BY DEF IInv, TypeOK, Records, DiskType

LEMMA CloseStep ==
  ASSUME IInv, NEW v \in Vars \cup Unnamed, Close(v)
  PROVE  IInv' /\ Orphans' = Orphans
  <1>1. CASE ~(files[handle[v]].inUse /\ IsOpen(handle[v]))
    <2>1. Exit("Attempt to close file failed")
      BY <1>1 DEF Close
    <2>2. QED  BY <2>1, ExitStep DEF Exit
  <1>2. CASE files[handle[v]].inUse /\ IsOpen(handle[v])
    <2>1. PICK e \in Entry : e = files[handle[v]]
      BY <1>2, OwnEntry
    <2>2. /\ disk' = Flushed(disk, e)
          /\ files' = [files EXCEPT ![handle[v]].file = NULL]
          /\ UNCHANGED <<handle, readAhead, buffer, tmpCount, attached, taken>>
      BY <1>2, <2>1 DEF Close
    <2>3. NULL \in StreamType /\ NULL.mode \notin OnDisk
      <3>1. <<>> \in Seq(Records) /\ 0 \in Nat
        OBVIOUS
      <3>2. NULL \in StreamType /\ NULL.mode = "none"
        BY <3>1, StreamIs DEF NULL
      <3>3. QED  BY <3>2 DEF OnDisk
    <2>4. e.file.mode \in OnDisk => e.name \in DiskNames /\ disk[e.name] \in Seq(Records)
      BY <1>2, <2>1, OwnEntry
    <2>5. /\ disk' \in DiskType
          /\ \A n \in DiskNames : disk[n] \in Seq(Records) => disk'[n] \in Seq(Records)
      BY <2>2, <2>4, BuffersType, FlushedType
    <2>6. /\ buffer' \in [AllVars -> Records]
          /\ readAhead' \in [Handles -> {0, 1}]
          /\ taken' \in [AllVars -> Nat]
      BY <2>2, BuffersType
    <2>7. QED  BY <1>2, <2>2, <2>3, <2>5, <2>6, OwnStreamStep
  <1>3. QED  BY <1>1, <1>2

LEMMA GetStep ==
  ASSUME IInv, NEW v \in Vars \cup Unnamed, Get(v)
  PROVE  IInv' /\ Orphans' = Orphans
  <1>1. v \in AllVars /\ handle[v] # 0
    BY FileTableAssumption DEF Get, AllVars
  <1>2. files[handle[v]].inUse
    BY <1>1 DEF IInv, Owned
  <1>3. PICK e \in Entry : e = files[handle[v]]
    BY <1>2, OwnEntry
  <1>4. PICK s \in StreamType : s = Fetched(e) /\ s.mode = e.file.mode
    BY <1>2, <1>3, OwnEntry, FetchedType
  <1>5. PICK file : file = IF s.mode = "r" /\ s.data # <<>> THEN [s EXCEPT !.data = Tail(@)] ELSE s
    OBVIOUS
  <1>6. s.data \in Seq(Records)
    BY DEF StreamType
  <1>7. s.data # <<>> => Tail(s.data) \in Seq(Records) /\ s.data[1] \in Records
    <2>1. s.data # <<>> => 1 \in 1 .. Len(s.data)
      BY <1>6, EmptySeq
    <2>2. QED  BY <1>6, <2>1, HeadTailProperties, ElementOfSeq
  <1>8. file \in StreamType /\ file.mode = e.file.mode
    BY <1>4, <1>5, <1>7 DEF StreamType
  <1>9. /\ files' = [files EXCEPT ![handle[v]].file = file]
        /\ \/ buffer' = buffer
           \/ s.data # <<>> /\ buffer' = [buffer EXCEPT ![v] = s.data[1]]
        /\ \/ readAhead' = [readAhead EXCEPT ![handle[v]] = 1]
           \/ readAhead' = [readAhead EXCEPT ![handle[v]] = 0]
        /\ taken' = taken \/ taken' = [taken EXCEPT ![v] = @ + 1]
        /\ UNCHANGED <<handle, tmpCount, disk, attached>>
    BY <1>3, <1>4, <1>5 DEF Get
  <1>10. /\ buffer' \in [AllVars -> Records]
         /\ readAhead' \in [Handles -> {0, 1}]
         /\ taken' \in [AllVars -> Nat]
    <2>1. /\ buffer \in [AllVars -> Records]
          /\ readAhead \in [Handles -> {0, 1}]
          /\ taken \in [AllVars -> Nat]
      BY BuffersType
    <2>2. buffer' \in [AllVars -> Records]
      BY <1>7, <1>9, <2>1
    <2>3. readAhead' \in [Handles -> {0, 1}]
      BY <1>9, <2>1
    <2>4. taken' \in [AllVars -> Nat]
      <3>1. taken[v] + 1 \in Nat
        BY <1>1, <2>1
      <3>2. QED  BY <1>9, <2>1, <3>1
    <2>5. QED  BY <2>2, <2>3, <2>4
  <1>11. QED  BY <1>2, <1>3, <1>8, <1>9, <1>10, BuffersType, OwnStreamStep

(* A write: the record waits in the stream, or all that wait are flushed.  *)
LEMMA PutStep ==
  ASSUME IInv, NEW v \in Vars \cup Unnamed, NEW x \in Values, Put(v, x)
  PROVE  IInv' /\ Orphans' = Orphans
  <1>1. v \in AllVars /\ handle[v] # 0
    BY FileTableAssumption DEF Put, AllVars
  <1>2. files[handle[v]].inUse
    BY <1>1 DEF IInv, Owned
  <1>3. PICK e \in Entry : e = files[handle[v]]
    BY <1>2, OwnEntry
  <1>4. PICK data : data = Append(e.file.data, x)
    OBVIOUS
  <1>5. data \in Seq(Records) /\ Len(data) \in Nat /\ e.file.off \in Nat
    <2>1. x \in Records
      BY DEF Records
    <2>2. e.file.data \in Seq(Records) /\ e.file.off \in Nat
      BY EntryFields
    <2>3. data \in Seq(Records)
      BY <1>4, <2>1, <2>2
    <2>4. QED  BY <2>2, <2>3, LenProperties
  <1>6. PICK more : more = [e EXCEPT !.file.data = data]
    OBVIOUS
  <1>7. /\ more \in Entry
        /\ more.name = e.name
        /\ more.file \in StreamType
        /\ more.file.mode = e.file.mode
        /\ more.file.data = data
    BY <1>5, <1>6 DEF Entry, StreamType, Records
  <1>8. buffer' = [buffer EXCEPT ![v] = x] /\ UNCHANGED <<handle, readAhead, tmpCount, attached, taken>>
    BY DEF Put
  <1>9. /\ buffer' \in [AllVars -> Records]
        /\ readAhead' \in [Handles -> {0, 1}]
        /\ taken' \in [AllVars -> Nat]
    BY <1>8, BuffersType DEF Records
  <1>10. files \in [Handles -> Entry] /\ disk \in DiskType /\ handle[v] \in Handles
    BY <1>2, OwnEntry DEF IInv, TypeOK
  <1>11. more.file.mode \in OnDisk => more.name \in DiskNames /\ disk[more.name] \in Seq(Records)
    BY <1>2, <1>3, <1>7, OwnEntry
  <1>12. /\ Flushed(disk, more) \in DiskType
         /\ \A n \in DiskNames : disk[n] \in Seq(Records) => Flushed(disk, more)[n] \in Seq(Records)
    BY <1>7, <1>10, <1>11, FlushedType
  <1>13. CASE e.file.mode \notin {"w", "a"}
    <2>1. UNCHANGED <<disk, files>>
      BY <1>3, <1>13 DEF Put
    <2>2. PICK file \in StreamType : file = e.file
      BY EntryFields
    <2>3. files' = [files EXCEPT ![handle[v]].file = file]
      BY <1>3, <1>10, <2>1, <2>2 DEF Entry
    <2>4. disk' \in DiskType
      BY <1>10, <2>1
    <2>5. file.mode \in OnDisk => files[handle[v]].file.mode \in OnDisk
      BY <1>3, <2>2
    <2>6. QED  BY <1>2, <1>8, <1>9, <2>1, <2>3, <2>4, <2>5, OwnStreamStep
  <1>14. CASE e.file.mode \in {"w", "a"} /\ Len(data) >= StdioSize
    <2>1. PICK o : o = IF e.file.mode = "w" THEN e.file.off + Len(data) ELSE 0
      OBVIOUS
    <2>2. o \in Nat /\ <<>> \in Seq(Records)
      BY <1>5, <2>1
    <2>3. PICK file \in StreamType : file = Stream(e.file.mode, o, <<>>) /\ file.mode = e.file.mode
      <3>1. e.file.mode \in {"none", "stdin", "stdout", "r", "w", "a"}
        BY <1>14
      <3>2. Stream(e.file.mode, o, <<>>) \in StreamType /\ Stream(e.file.mode, o, <<>>).mode = e.file.mode
        BY <2>2, <3>1, StreamIs
      <3>3. QED  BY <3>2
    <2>4. disk' = Flushed(disk, more)
      BY <1>3, <1>4, <1>6, <1>7, <1>14 DEF Put
    <2>5. files' = [files EXCEPT ![handle[v]].file = file]
      BY <1>3, <1>4, <1>6, <1>7, <1>10, <1>14, <2>1, <2>3 DEF Put
    <2>6. QED  BY <1>2, <1>3, <1>8, <1>9, <1>12, <2>3, <2>4, <2>5, OwnStreamStep
  <1>15. CASE e.file.mode \in {"w", "a"} /\ ~(Len(data) >= StdioSize)
    <2>1. disk' = disk /\ files' = [files EXCEPT ![handle[v]] = more]
      BY <1>3, <1>4, <1>6, <1>7, <1>15 DEF Put
    <2>2. PICK file \in StreamType : file = more.file
      BY <1>7
    <2>3. more = [e EXCEPT !.file = file]
      BY <1>6, <2>2 DEF Entry
    <2>4. files' = [files EXCEPT ![handle[v]].file = file]
      BY <1>3, <2>1, <2>3
    <2>5. QED  BY <1>2, <1>3, <1>7, <1>8, <1>9, <1>10, <2>1, <2>2, <2>4, OwnStreamStep
  <1>16. QED  BY <1>13, <1>14, <1>15

-----------------------------------------------------------------------------
(* Assign gives the variable a free entry; the one it had is left behind.  *)
LEMMA AssignStep ==
  ASSUME IInv, NEW v \in Vars, NEW name \in Names, Assign(v, name)
  PROVE  IInv' /\ OrphanStep
  <1>1. CASE TableFull
    <2>1. Exit("No free files... Exiting")
      BY <1>1 DEF Assign
    <2>2. QED  BY <2>1, ExitStep DEF Exit, OrphanStep
  <1>2. CASE ~TableFull
    <2>1. PICK h \in Handles : h = FirstFree /\ ~files[h].inUse
      BY <1>2, FirstFreeIsFree
    <2>2. v \in AllVars /\ v # Output /\ name \in DiskNames
      BY FileTableAssumption DEF AllVars, DiskNames
    <2>3. /\ handle' = [handle EXCEPT ![v] = h]
          /\ files' = Assigned(h, v, name)
          /\ readAhead' = [readAhead EXCEPT ![h] = 0]
          /\ attached' = [attached EXCEPT ![v] = name]
          /\ taken' = [taken EXCEPT ![v] = 0]
          /\ UNCHANGED <<buffer, tmpCount, disk>>
      BY <1>2, <2>1 DEF Assign
    <2>4. /\ files' \in [Handles -> Entry]
          /\ files'[h].inUse /\ files'[h].fileData = v /\ files'[h].name = name
          /\ files'[h].file = files[h].file
          /\ \A g \in Handles \ {h} : files'[g] = files[g]
      <3>1. TypeOK
        BY DEF IInv
      <3>2. QED  BY <2>2, <2>3, <3>1, AssignedType
    <2>5. h # 0 /\ h # 1 /\ \A w \in AllVars : handle[w] # h
      BY <2>1 DEF IInv, Owned
    <2>6. files[h].file = NULL
      BY <2>1 DEF IInv, StreamsHaveFiles
    <2>7. handle \in [AllVars -> Handles] /\ files \in [Handles -> Entry]
      BY DEF IInv, TypeOK
    <2>8. NULL \in StreamType /\ NULL.mode \notin OnDisk
      <3>1. <<>> \in Seq(Records) /\ 0 \in Nat
        OBVIOUS
      <3>2. NULL \in StreamType /\ NULL.mode = "none"
        BY <3>1, StreamIs DEF NULL
      <3>3. QED  BY <3>2 DEF OnDisk
    <2>9. IInv'
      <3>1. Owned'
        <4>1. ASSUME NEW w \in AllVars, handle'[w] # 0
              PROVE  files'[handle'[w]].inUse /\ files'[handle'[w]].fileData = w
          <5>1. CASE w = v
            BY <2>2, <2>3, <2>4, <2>7, <5>1
          <5>2. CASE w # v
            <6>1. handle'[w] = handle[w] /\ handle[w] \in Handles \ {h}
              BY <2>2, <2>3, <2>5, <2>7, <5>2
            <6>2. files[handle[w]].inUse /\ files[handle[w]].fileData = w
              BY <4>1, <6>1 DEF IInv, Owned
            <6>3. QED  BY <2>4, <6>1, <6>2
          <5>3. QED  BY <5>1, <5>2
        <4>2. files[0].inUse /\ files[1].inUse /\ files[1].fileData = Output
          BY DEF IInv, Owned
        <4>3. files'[0].inUse /\ files'[1].inUse /\ files'[1].fileData = Output
          BY <2>4, <2>5, <4>2, ZeroIsHandle
        <4>4. QED  BY <4>1, <4>3 DEF Owned
      <3>2. StreamsHaveFiles'
        <4>1. ASSUME NEW g \in Handles
              PROVE  /\ ~files'[g].inUse => files'[g].file = NULL
                     /\ files'[g].file.mode \in OnDisk => disk'[files'[g].name] \in Seq(Records)
          BY <2>3, <2>4, <2>6, <2>8 DEF IInv, StreamsHaveFiles
        <4>2. QED  BY <4>1 DEF StreamsHaveFiles, NULL, Stream, OnDisk
      <3>3. TypeOK'
        <4>1. handle' \in [AllVars -> Handles]
          BY <2>3, <2>7
        <4>2. \A g \in Handles : files'[g].inUse => files'[g].name # Absent
          BY <2>2, <2>4, FileTableAssumption DEF IInv, TypeOK
        <4>3. readAhead' \in [Handles -> {0, 1}] /\ taken' \in [AllVars -> Nat]
          BY <2>3, BuffersType
        <4>4. attached' \in [AllVars -> DiskNames \cup AllVars \cup {Nobody}]
          BY <2>2, <2>3 DEF IInv, TypeOK
        <4>5. QED  BY <2>3, <2>4, <4>1, <4>2, <4>3, <4>4 DEF IInv, TypeOK
      <3>4. QED  BY <3>1, <3>2, <3>3 DEF IInv
    <2>10. \A g \in Handles : (IsOpen(g))' <=> IsOpen(g)
      BY <2>4 DEF IsOpen, NULL
    <2>11. /\ handle'[v] = h
           /\ \A w \in AllVars \ {v} : handle'[w] = handle[w]
      BY <2>2, <2>3, <2>7
    <2>12. ~IsOpen(h)
      BY <2>6 DEF IsOpen
    <2>13. CASE handle[v] = 0 \/ ~IsOpen(handle[v])
      <3>1. Orphans' = Orphans
        <4>1. ASSUME NEW g \in Handles \ {0, 1}
              PROVE  (IsOpen(g) /\ \A w \in AllVars : handle[w] # g)' <=>
                     (IsOpen(g) /\ \A w \in AllVars : handle[w] # g)
          BY <2>2, <2>5, <2>10, <2>11, <2>12, <2>13
        <4>2. QED  BY <4>1 DEF Orphans
      <3>2. QED  BY <2>9, <3>1 DEF OrphanStep
    <2>14. CASE handle[v] # 0 /\ IsOpen(handle[v])
      <3>1. handle[v] \in Handles \ {0, 1}
        BY <2>2, <2>7, <2>14 DEF IInv, Owned
      <3>2. \A w \in AllVars \ {v} : handle[w] # handle[v]
        BY <2>2, <2>14 DEF IInv, Owned
      <3>3. Orphans' = Orphans \cup {handle[v]}
        <4>1. ASSUME NEW g \in Handles \ {0, 1}
              PROVE  (IsOpen(g) /\ \A w \in AllVars : handle[w] # g)' <=>
                     (IsOpen(g) /\ \A w \in AllVars : handle[w] # g) \/ g = handle[v]
          BY <2>2, <2>5, <2>10, <2>11, <2>12, <2>14, <3>2
        <4>2. QED  BY <3>1, <4>1 DEF Orphans
      <3>4. QED  BY <2>9, <2>14, <3>3 DEF OrphanStep
    <2>15. QED  BY <2>13, <2>14
  <1>3. QED  BY <1>1, <1>2

-----------------------------------------------------------------------------
(* The invariant is inductive, and no step breaks OrphanStep.              *)

LEMMA InitInvariant == Init => IInv
  <1> SUFFICES ASSUME Init PROVE IInv
    OBVIOUS
  <1>1. /\ <<>> \in Seq(Records) /\ 0 \in Nat
        /\ NULL \in StreamType /\ NULL.mode = "none"
        /\ Stream("stdin", 0, <<>>) \in StreamType
        /\ Stream("stdin", 0, <<>>).mode = "stdin"
        /\ Stream("stdout", 0, <<>>) \in StreamType
        /\ Stream("stdout", 0, <<>>).mode = "stdout"
    <2>1. <<>> \in Seq(Records) /\ 0 \in Nat
      OBVIOUS
    <2>2. QED  BY <2>1, StreamIs DEF NULL
  <1>2. PICK in : in = [inUse |-> TRUE, name |-> InputName, fileData |-> Input,
                        file |-> Stream("stdin", 0, <<>>)]
    OBVIOUS
  <1>3. PICK out : out = [inUse |-> TRUE, name |-> OutputName, fileData |-> Output,
                          file |-> Stream("stdout", 0, <<>>)]
    OBVIOUS
  <1>4. files = [h \in Handles |-> CASE h = 0 -> in [] h = 1 -> out [] OTHER -> FreshEntry]
    BY <1>2, <1>3 DEF Init
  <1>5. /\ in \in Entry /\ in.inUse /\ in.name \in DiskNames /\ in.file.mode \notin OnDisk
        /\ out \in Entry /\ out.inUse /\ out.name \in DiskNames /\ out.file.mode \notin OnDisk
        /\ out.fileData = Output
    BY <1>1, <1>2, <1>3 DEF Entry, StreamType, Records, AllVars, DiskNames, OnDisk
  <1>6. /\ FreshEntry \in Entry /\ FreshEntry.inUse = FALSE /\ FreshEntry.file = NULL
        /\ NULL.mode \notin OnDisk
    BY <1>1 DEF FreshEntry, Entry, StreamType, Records, OnDisk
  <1>7. \A h \in Handles :
          files[h] = in \/ files[h] = out \/ files[h] = FreshEntry
    BY <1>4
  <1>8. files \in [Handles -> Entry]
    BY <1>4, <1>5, <1>6
  <1>9. files[0] = in /\ files[1] = out
    BY <1>4, ZeroIsHandle
  <1>10. handle \in [AllVars -> Handles] /\ \A v \in AllVars : handle[v] = IF v = Output THEN 1 ELSE 0
    BY ZeroIsHandle DEF Init
  <1>11. TypeOK
    <2>1. \A h \in Handles : files[h].inUse => files[h].name # Absent
      BY <1>5, <1>6, <1>7, FileTableAssumption
    <2>2. readAhead \in [Handles -> {0, 1}] /\ taken \in [AllVars -> Nat] /\ tmpCount \in Nat
      BY DEF Init
    <2>3. /\ buffer \in [AllVars -> Values \cup {Absent}]
          /\ disk \in [DiskNames -> Seq(Values \cup {Absent}) \cup {Absent}]
      BY DEF Init
    <2>4. attached \in [AllVars -> DiskNames \cup AllVars \cup {Nobody}]
      BY DEF Init, DiskNames
    <2>5. QED  BY <1>8, <1>10, <2>1, <2>2, <2>3, <2>4 DEF TypeOK
  <1>12. Owned
    BY <1>5, <1>9, <1>10 DEF Owned
  <1>13. StreamsHaveFiles
    BY <1>5, <1>6, <1>7 DEF StreamsHaveFiles
  <1>14. QED  BY <1>11, <1>12, <1>13 DEF IInv

LEMMA StepInvariant ==
  ASSUME IInv, [Next]_vars
  PROVE  IInv' /\ (OrphanStep \/ UNCHANGED vars)
  <1>1. ASSUME NEW v \in Vars, NEW name \in Names, Assign(v, name)
        PROVE  IInv' /\ OrphanStep
    BY <1>1, AssignStep
  <1>2. ASSUME NEW v \in Vars \cup Unnamed,
               Reset(v) \/ Rewrite(v) \/ AppendTo(v) \/ Close(v) \/ Get(v)
        PROVE  IInv' /\ OrphanStep
    BY <1>2, ResetStep, RewriteStep, AppendStep, CloseStep, GetStep DEF OrphanStep
  <1>3. ASSUME NEW v \in Vars \cup Unnamed, NEW x \in Values, Put(v, x)
        PROVE  IInv' /\ OrphanStep
    BY <1>3, PutStep DEF OrphanStep
  <1>4. CASE UNCHANGED vars
    <2>1. IInv'
      BY <1>4, ExitStep DEF vars
    <2>2. QED  BY <1>4, <2>1
  <1>5. QED  BY <1>1, <1>2, <1>3, <1>4 DEF Next

LEMMA Invariant == Spec => []IInv
  <1>1. Init => IInv
    BY InitInvariant
  <1>2. IInv /\ [Next]_vars => IInv'
    BY StepInvariant
  <1>3. QED  BY <1>1, <1>2, PTL DEF Spec

(* Every variable of the table keeps its type, however many files there    *)
(* are and whichever way they are opened, and an entry in use has a name   *)
(* (assign.c, fileio.c).                                                   *)
THEOREM TypeCorrect == Spec => []TypeOK
  <1>1. IInv => TypeOK
    BY DEF IInv
  <1>2. QED  BY <1>1, Invariant, PTL

(* No two variables ever work on one entry of files[], and the entry's     *)
(* back pointer is the variable that does, in any order of assign, open    *)
(* and close, for a table of any size (assign.c, fileio.c).                *)
THEOREM Ownership == Spec => []EntriesOwned
  <1>1. IInv => EntriesOwned
    BY DEF IInv, Owned, EntriesOwned
  <1>2. QED  BY <1>1, Invariant, PTL

(* A stream that no variable reaches was left by an assign to a variable   *)
(* that was open: no open, close, put or get loses one (assign.c).         *)
THEOREM OrphansOnlyByAssign == Spec => OnlyAssignOrphans
  <1>1. IInv /\ [Next]_vars => [OrphanStep]_vars
    BY StepInvariant
  <1>2. QED  BY <1>1, Invariant, PTL DEF Spec, OnlyAssignOrphans

-----------------------------------------------------------------------------
(* That a file holds what was put into it and that a reader is given it,   *)
(* for every number of files, records and buffers.  The programs are the   *)
(* disciplined ones of FileTable, with no more than one variable that is   *)
(* opened without a name: two would share lacsap_tmp_file_000001 (see the  *)
(* run file_table_temporaries).                                            *)

Tidy ==
  /\ Disciplined
  /\ \A v, w \in Unnamed : v = w
  /\ Names \cap TempNames = {}
  /\ DiskNames \cap AllVars = {}
  /\ Absent \notin Seq(Records)

Own(v) == v \in AllVars \ {Output} /\ handle[v] # 0

(* The file on disk, s, has all the records i that it must.                *)
Complete(s, i) == s = i \/ (s = Absent /\ i = <<>>)

(* The stream f, the record b in the buffer variable if ahead is 1, and    *)
(* the file s make up the records i, of which t have been taken.           *)
Holds(f, ahead, b, s, i, t) ==
  /\ f.mode \in {"none", "r", "w", "a"}
  /\ f.mode = "none" => f = NULL /\ Complete(s, i)
  /\ f.mode = "w" => f.off = Len(s) /\ s \o f.data = i
  /\ f.mode = "a" => s \o f.data = i
  /\ f.mode = "r" => /\ s = i
                     /\ f.off <= Len(s)
                     /\ t <= Len(i)
                     /\ (IF ahead = 1 THEN <<b>> ELSE <<>>) \o f.data \o SubSeq(s, f.off + 1, Len(s))
                          = SubSeq(i, t + 1, Len(i))

(* A variable stands for the file its entry names, or for a temporary.     *)
Attached ==
  \A v \in AllVars : Own(v) =>
    \/ attached[v] = files[handle[v]].name /\ attached[v] \in Names
    \/ attached[v] = v /\ v \in Unnamed /\ files[handle[v]].name \in TempNames

Apart == \A v, w \in AllVars : Own(v) /\ Own(w) /\ v # w => attached[v] # attached[w]

StreamsHold ==
  \A v \in AllVars : Own(v) =>
    Holds(files[handle[v]].file, readAhead[handle[v]], buffer[v],
          disk[files[handle[v]].name], ideal[attached[v]], taken[v])

RestHolds ==
  /\ \A n \in Names : (\A v \in AllVars : Own(v) => attached[v] # n) => Complete(disk[n], ideal[n])
  /\ \A v \in Unnamed : handle[v] = 0 =>
       ideal[v] = <<>> /\ \A n \in TempNames : disk[n] = Absent

(* The standard streams are not files on disk.                             *)
Standard ==
  /\ handle[Output] = 1
  /\ files[1].file.mode = "stdout"
  /\ files[0].file.mode \notin OnDisk

IdealType == ideal \in [DiskNames \cup AllVars -> Seq(Records)]

Contents == IdealType /\ Standard /\ Attached /\ Apart /\ StreamsHold /\ RestHolds

-----------------------------------------------------------------------------
(* Sequences.                                                              *)

LEMMA WriteAtEnd ==
  ASSUME NEW s \in Seq(Records), NEW d \in Seq(Records)
  PROVE  WriteAt(s, Len(s), d) = s \o d
  <1>1. PICK w \in Seq(Records) : w = WriteAt(s, Len(s), d)
    BY WriteAtType, LenProperties
  <1>2. Len(s) \in Nat /\ Len(d) \in Nat
    BY LenProperties
  <1>3. PICK n \in Nat : n = Len(s) + Len(d)
    BY <1>2
  <1>4. n = IF Len(s) > Len(s) + Len(d) THEN Len(s) ELSE Len(s) + Len(d)
    BY <1>2, <1>3
  <1>5. w = [i \in 1 .. n |-> CASE i > Len(s) /\ i <= Len(s) + Len(d) -> d[i - Len(s)]
                                [] i <= Len(s) /\ i > Len(s) -> Absent
                                [] OTHER -> s[i]]
    BY <1>1, <1>4 DEF WriteAt
  <1>6. DOMAIN w = 1 .. n
    BY <1>5
  <1>7. Len(w) = n
    BY <1>3, <1>6, LenProperties
  <1>8. PICK c \in Seq(Records) : c = s \o d
    BY ConcatProperties
  <1>9. /\ Len(c) = n
        /\ \A i \in 1 .. n : c[i] = IF i <= Len(s) THEN s[i] ELSE d[i - Len(s)]
    BY <1>3, <1>8, ConcatProperties
  <1>10. \A i \in 1 .. n : w[i] = c[i]
    BY <1>2, <1>3, <1>5, <1>9
  <1>11. w = c
    BY <1>7, <1>9, <1>10, SeqEqual
  <1>12. QED  BY <1>1, <1>8, <1>11

(* What is left of s behind the first n records.                           *)
LEMMA Rest ==
  ASSUME NEW s \in Seq(Records), NEW n \in Nat, n <= Len(s)
  PROVE  /\ SubSeq(s, n + 1, Len(s)) \in Seq(Records)
         /\ Len(SubSeq(s, n + 1, Len(s))) = Len(s) - n
         /\ n < Len(s) => /\ SubSeq(s, n + 1, Len(s)) = <<s[n + 1]>> \o SubSeq(s, n + 2, Len(s))
                          /\ s[n + 1] \in Records
         /\ n = Len(s) => SubSeq(s, n + 1, Len(s)) = <<>>
  <1>1. Len(s) \in Nat
    BY LenProperties
  <1>2. \A i \in n + 1 .. Len(s) : s[i] \in Records
    BY <1>1, ElementOfSeq
  <1>3. SubSeq(s, n + 1, Len(s)) \in Seq(Records) /\ Len(SubSeq(s, n + 1, Len(s))) = Len(s) - n
    BY <1>1, <1>2, SubSeqProperties
  <1>4. ASSUME n < Len(s)
        PROVE  SubSeq(s, n + 1, Len(s)) = <<s[n + 1]>> \o SubSeq(s, n + 2, Len(s)) /\ s[n + 1] \in Records
    <2>1. n + 1 \in 1 .. Len(s) /\ Len(s) \in n + 1 .. Len(s) /\ (n + 1) + 1 = n + 2
      BY <1>1, <1>4
    <2>2. SubSeq(s, n + 1, Len(s)) = <<s[n + 1]>> \o SubSeq(s, (n + 1) + 1, Len(s))
      BY <2>1, SubSeqRecursiveFirst
    <2>3. QED  BY <1>2, <2>1, <2>2
  <1>5. n = Len(s) => SubSeq(s, n + 1, Len(s)) = <<>>
    BY <1>1, SubSeqEmpty
  <1>6. QED  BY <1>3, <1>4, <1>5

(* A record before others.                                                 *)
LEMMA Cons ==
  ASSUME NEW x \in Records, NEW r \in Seq(Records)
  PROVE  /\ <<x>> \o r \in Seq(Records)
         /\ Len(<<x>> \o r) = Len(r) + 1
         /\ (<<x>> \o r)[1] = x
         /\ \A k \in 1 .. Len(r) : (<<x>> \o r)[k + 1] = r[k]
  <1>1. PICK c \in Seq(Records) : c = <<x>> /\ Len(c) = 1 /\ c[1] = x
    <2>1. <<x>> \in Seq(Records) /\ Len(<<x>>) = 1 /\ <<x>>[1] = x
      OBVIOUS
    <2>2. QED  BY <2>1
  <1>2. Len(r) \in Nat
    BY LenProperties
  <1>3. /\ c \o r \in Seq(Records)
        /\ Len(c \o r) = 1 + Len(r)
        /\ \A k \in 1 .. 1 + Len(r) : (c \o r)[k] = IF k <= 1 THEN c[k] ELSE r[k - 1]
    BY <1>1, ConcatProperties
  <1>4. ASSUME NEW k \in 1 .. Len(r)
        PROVE  (c \o r)[k + 1] = r[k]
    BY <1>2, <1>3
  <1>5. QED  BY <1>1, <1>2, <1>3, <1>4

LEMMA ConsConcat ==
  ASSUME NEW x \in Records, NEW r \in Seq(Records), NEW q \in Seq(Records)
  PROVE  (<<x>> \o r) \o q = <<x>> \o (r \o q)
  <1>1. PICK c \in Seq(Records) : c = <<x>>
    <2>1. <<x>> \in Seq(Records)
      OBVIOUS
    <2>2. QED  BY <2>1
  <1>2. (c \o r) \o q = c \o (r \o q)
    BY ConcatAssociative
  <1>3. QED  BY <1>1, <1>2

LEMMA ConcatAppend ==
  ASSUME NEW s \in Seq(Records), NEW d \in Seq(Records), NEW x \in Records
  PROVE  s \o Append(d, x) = Append(s \o d, x)
  <1>1. PICK one \in Seq(Records) : one = <<x>>
    <2>1. <<x>> \in Seq(Records)
      OBVIOUS
    <2>2. QED  BY <2>1
  <1>2. s \o d \in Seq(Records)
    BY ConcatProperties
  <1>3. Append(d, x) = d \o one /\ Append(s \o d, x) = (s \o d) \o one
    BY <1>1, <1>2, AppendIsConcat
  <1>4. (s \o d) \o one = s \o (d \o one)
    BY ConcatAssociative
  <1>5. QED  BY <1>3, <1>4

(* Taking the first record of what is left.                                *)
LEMMA TakeOne ==
  ASSUME NEW i \in Seq(Records), NEW t \in Nat, t <= Len(i),
         NEW b \in Records, NEW a \in Seq(Records),
         <<b>> \o a = SubSeq(i, t + 1, Len(i))
  PROVE  t + 1 <= Len(i) /\ a = SubSeq(i, t + 2, Len(i))
  <1>1. Len(a) \in Nat /\ Len(i) \in Nat
    BY LenProperties
  <1>2. Len(i) - t = Len(a) + 1
    BY Cons, Rest
  <1>3. t < Len(i)
    BY <1>1, <1>2
  <1>4. PICK r \in Seq(Records) : r = SubSeq(i, t + 2, Len(i))
    <2>1. t + 1 \in Nat /\ t + 1 <= Len(i) /\ (t + 1) + 1 = t + 2
      BY <1>1, <1>3
    <2>2. SubSeq(i, (t + 1) + 1, Len(i)) \in Seq(Records)
      BY <2>1, Rest
    <2>3. QED  BY <2>1, <2>2
  <1>5. PICK x \in Records : <<b>> \o a = <<x>> \o r
    <2>1. SubSeq(i, t + 1, Len(i)) = <<i[t + 1]>> \o SubSeq(i, t + 2, Len(i)) /\ i[t + 1] \in Records
      BY <1>3, Rest
    <2>2. QED  BY <1>4, <2>1
  <1>6. Len(a) = Len(r)
    BY <1>1, <1>5, Cons, LenProperties
  <1>7. ASSUME NEW k \in 1 .. Len(a) PROVE a[k] = r[k]
    <2>1. (<<b>> \o a)[k + 1] = a[k]
      BY Cons
    <2>2. (<<x>> \o r)[k + 1] = r[k]
      BY <1>6, Cons
    <2>3. QED  BY <1>5, <2>1, <2>2
  <1>8. a = r
    BY <1>6, <1>7, SeqEqual
  <1>9. QED  BY <1>1, <1>3, <1>4, <1>8

(* A fetch moves records from the file into the stream.                    *)
LEMMA FetchedRest ==
  ASSUME NEW e \in Entry, e.file.mode = "r", NEW s \in Seq(Records), s = disk[e.name],
         e.file.off <= Len(s)
  PROVE  LET f == Fetched(e)
         IN  /\ f.off <= Len(s)
             /\ f.data \o SubSeq(s, f.off + 1, Len(s)) = e.file.data \o SubSeq(s, e.file.off + 1, Len(s))
             /\ f.data = <<>> => e.file.data = <<>> /\ e.file.off = Len(s)
  <1>1. /\ e.file.off \in Nat /\ e.file.data \in Seq(Records) /\ Len(s) \in Nat
    BY EntryFields, LenProperties
  <1>2. CASE e.file.data # <<>>
    <2>1. Fetched(e) = e.file
      BY <1>2 DEF Fetched
    <2>2. QED  BY <1>2, <2>1
  <1>3. CASE e.file.data = <<>>
    <2>1. PICK o \in Nat : o = e.file.off
      BY <1>1
    <2>2. PICK n : n = IF Len(s) - o < StdioSize THEN Len(s) ELSE o + StdioSize
      OBVIOUS
    <2>3. n \in Nat /\ n <= Len(s)
      BY <1>1, <2>1, <2>2, FileTableAssumption
    <2>4. CASE n <= o
      <3>1. Fetched(e) = e.file
        BY <1>3, <2>1, <2>2, <2>4 DEF Fetched
      <3>2. o = Len(s)
        BY <1>1, <2>1, <2>2, <2>4, FileTableAssumption
      <3>3. QED  BY <1>1, <2>1, <3>1, <3>2
    <2>5. CASE ~(n <= o)
      <3>1. PICK d : d = SubSeq(s, o + 1, n)
        OBVIOUS
      <3>2. Fetched(e) = Stream("r", n, d)
        BY <1>3, <2>1, <2>2, <2>3, <2>5, <3>1 DEF Fetched
      <3>3. Fetched(e).off = n /\ Fetched(e).data = d
        BY <3>2 DEF Stream
      <3>4. o + 1 \in 1 .. Len(s) + 1 /\ n \in (o + 1) - 1 .. Len(s) /\ Len(s) \in n .. Len(s)
        BY <1>1, <2>3, <2>5
      <3>5. d \o SubSeq(s, n + 1, Len(s)) = SubSeq(s, o + 1, Len(s))
        BY <3>1, <3>4, ConcatAdjacentSubSeq
      <3>6. \A i \in o + 1 .. n : s[i] \in Records
        BY <1>1, <2>3, ElementOfSeq
      <3>7. Len(d) = n - o
        BY <2>3, <2>5, <3>1, <3>6, SubSeqProperties
      <3>8. d # <<>>
        BY <2>3, <2>5, <3>7
      <3>9. <<>> \o SubSeq(s, o + 1, Len(s)) = SubSeq(s, o + 1, Len(s))
        BY <1>1, <2>1, Rest, ConcatEmptySeq
      <3>10. QED  BY <1>3, <2>1, <2>3, <3>3, <3>5, <3>8, <3>9
    <2>6. QED  BY <2>4, <2>5
  <1>4. QED  BY <1>2, <1>3

-----------------------------------------------------------------------------
(* Opening: the file the variable is going to work on is not another's.    *)

LEMMA NullStream ==
  /\ NULL \in StreamType
  /\ NULL.mode = "none" /\ NULL.mode \notin OnDisk
  <1>1. <<>> \in Seq(Records) /\ 0 \in Nat
    OBVIOUS
  <1>2. NULL \in StreamType /\ NULL.mode = "none"
    BY <1>1, StreamIs DEF NULL
  <1>3. QED  BY <1>2 DEF OnDisk

LEMMA OwnFile ==
  ASSUME IInv, Contents, NEW v \in AllVars, Own(v)
  PROVE  /\ handle[v] \in Handles \ {0, 1}
         /\ files[handle[v]] \in Entry
         /\ files[handle[v]].inUse
         /\ files[handle[v]].name \in DiskNames
         /\ attached[v] \in DiskNames \cup AllVars
         /\ ideal[attached[v]] \in Seq(Records)
  <1>1. handle \in [AllVars -> Handles] /\ files \in [Handles -> Entry]
    BY DEF IInv, TypeOK
  <1>2. handle[v] # 0 /\ v # Output
    BY DEF Own
  <1>3. files[handle[v]].inUse /\ files[handle[v]].fileData = v /\ files[1].fileData = Output
    BY <1>2 DEF IInv, Owned
  <1>4. handle[v] # 1
    BY <1>2, <1>3
  <1>5. files[handle[v]].name \in DiskNames
    BY <1>1, <1>3, NamesAreStored
  <1>6. attached[v] \in DiskNames \cup AllVars
    BY DEF Contents, Attached, DiskNames
  <1>7. ideal[attached[v]] \in Seq(Records)
    BY <1>6 DEF Contents, IdealType
  <1>8. QED  BY <1>1, <1>2, <1>3, <1>4, <1>5, <1>6, <1>7

LEMMA OpenFile ==
  ASSUME Tidy, IInv, Contents, NEW v \in Vars \cup Unnamed, ~NoEntry(v),
         Unassigned(v) => v \in Unnamed
  PROVE  /\ \/ OpenAttached(v) = OpenName(v) /\ OpenName(v) \in Names
            \/ OpenAttached(v) = v /\ v \in Unnamed /\ OpenName(v) \in TempNames
         /\ OpenName(v) \in DiskNames
         /\ OpenAttached(v) \in DiskNames \cup AllVars
         /\ \A w \in AllVars \ {v} : Own(w) =>
              /\ handle[w] # OpenHandle(v)
              /\ attached[w] # OpenAttached(v)
              /\ files[handle[w]].name # OpenName(v)
         /\ Own(v) <=> ~Unassigned(v)
         /\ Own(v) => /\ OpenHandle(v) = handle[v]
                       /\ OpenName(v) = files[handle[v]].name
                       /\ OpenAttached(v) = attached[v]
                       /\ OpenFiles(v) = files
  <1>1. v \in AllVars \ {Output} /\ OpenName(v) \in DiskNames
    BY OpenEntry
  <1>2. Own(v) <=> ~Unassigned(v)
    BY <1>1 DEF Own, Unassigned
  <1>3. Own(v) => /\ OpenHandle(v) = handle[v]
                  /\ OpenName(v) = files[handle[v]].name
                  /\ OpenAttached(v) = attached[v]
                  /\ OpenFiles(v) = files
    BY <1>2 DEF OpenHandle, OpenName, OpenAttached, OpenFiles
  <1>4. \/ OpenAttached(v) = OpenName(v) /\ OpenName(v) \in Names
        \/ OpenAttached(v) = v /\ v \in Unnamed /\ OpenName(v) \in TempNames
    <2>1. CASE Own(v)
      BY <1>1, <1>3, <2>1 DEF Contents, Attached
    <2>2. CASE Unassigned(v)
      <3>1. OpenAttached(v) = v /\ v \in Unnamed
        BY <2>2 DEF OpenAttached
      <3>2. PICK h \in Handles : h = FirstFree
        BY <2>2, FirstFreeIsFree DEF NoEntry
      <3>3. OpenName(v) = NextTemp
        <4>1. tmpCount \in Nat
          BY DEF IInv, TypeOK
        <4>2. NextTemp \in DiskNames
          BY <4>1, NextTempType
        <4>3. Assigned(h, v, NextTemp)[h].name = NextTemp
          BY <1>1, <4>2, AssignedType DEF IInv
        <4>4. QED  BY <2>2, <3>2, <4>3 DEF OpenName, OpenFiles, OpenHandle
      <3>4. NextTemp \in TempNames
        <4>1. tmpCount \in Nat
          BY DEF IInv, TypeOK
        <4>2. (tmpCount + 1) % MaxPascalFiles \in Handles
          BY <4>1, FileTableAssumption DEF Handles
        <4>3. QED  BY <4>2 DEF NextTemp, TempNames
      <3>5. QED  BY <3>1, <3>3, <3>4
    <2>3. QED  BY <1>2, <2>1, <2>2
  <1>5. OpenAttached(v) \in DiskNames \cup AllVars
    BY <1>1, <1>4 DEF DiskNames
  <1>6. ASSUME NEW w \in AllVars \ {v}, Own(w)
        PROVE  /\ handle[w] # OpenHandle(v)
               /\ attached[w] # OpenAttached(v)
               /\ files[handle[w]].name # OpenName(v)
    <2>1. handle[w] # OpenHandle(v)
      BY OpenEntry
    <2>2. \/ attached[w] = files[handle[w]].name /\ attached[w] \in Names
          \/ attached[w] = w /\ w \in Unnamed /\ files[handle[w]].name \in TempNames
      BY <1>6 DEF Contents, Attached
    <2>3. attached[w] # OpenAttached(v)
      <3>1. CASE Own(v)
        BY <1>1, <1>3, <1>6, <3>1 DEF Contents, Apart
      <3>2. CASE Unassigned(v)
        <4>1. OpenAttached(v) = v
          BY <3>2 DEF OpenAttached
        <4>2. v \notin Names
          BY <1>1 DEF Tidy, DiskNames
        <4>3. QED  BY <1>6, <2>2, <4>1, <4>2
      <3>3. QED  BY <1>2, <3>1, <3>2
    <2>4. w \in Unnamed => v \notin Unnamed
      BY <1>6 DEF Tidy
    <2>5. Names \cap TempNames = {}
      BY DEF Tidy
    <2>6. files[handle[w]].name # OpenName(v)
      BY <1>4, <2>2, <2>3, <2>4, <2>5
    <2>7. QED  BY <2>1, <2>3, <2>6
  <1>7. QED  BY <1>1, <1>2, <1>3, <1>4, <1>5, <1>6

(* What closing a stream leaves on disk.                                   *)
LEMMA FlushedHolds ==
  ASSUME NEW e \in Entry, NEW d \in DiskType, e.name \in DiskNames,
         e.file.mode \in OnDisk => d[e.name] \in Seq(Records),
         NEW i, NEW ahead, NEW b, NEW t, Holds(e.file, ahead, b, d[e.name], i, t)
  PROVE  /\ Complete(Flushed(d, e)[e.name], i)
         /\ \A n \in DiskNames \ {e.name} : Flushed(d, e)[n] = d[n]
  <1>1. e.file.data \in Seq(Records)
    BY EntryFields
  <1>2. CASE e.file.mode = "w"
    <2>1. d[e.name] \in Seq(Records)
      BY <1>2 DEF OnDisk
    <2>2. e.file.off = Len(d[e.name]) /\ d[e.name] \o e.file.data = i
      BY <1>2 DEF Holds
    <2>3. WriteAt(d[e.name], e.file.off, e.file.data) = i
      BY <1>1, <2>1, <2>2, WriteAtEnd
    <2>4. Flushed(d, e) = [d EXCEPT ![e.name] = i]
      BY <1>2, <2>3 DEF Flushed
    <2>5. QED  BY <2>4 DEF DiskType, Complete
  <1>3. CASE e.file.mode = "a"
    <2>1. d[e.name] \o e.file.data = i
      BY <1>3 DEF Holds
    <2>2. Flushed(d, e) = [d EXCEPT ![e.name] = i]
      BY <1>3, <2>1 DEF Flushed
    <2>3. QED  BY <2>2 DEF DiskType, Complete
  <1>4. CASE e.file.mode \in {"none", "r"}
    <2>1. Flushed(d, e) = d
      BY <1>4 DEF Flushed
    <2>2. Complete(d[e.name], i)
      BY <1>4 DEF Holds, Complete
    <2>3. QED  BY <2>1, <2>2
  <1>5. QED  BY <1>2, <1>3, <1>4 DEF Holds

LEMMA OpenDiskHolds ==
  ASSUME Tidy, IInv, Contents, NEW v \in Vars \cup Unnamed, ~NoEntry(v),
         Unassigned(v) => v \in Unnamed
  PROVE  /\ Complete(OpenDisk(v)[OpenName(v)], ideal[OpenAttached(v)])
         /\ \A n \in DiskNames \ {OpenName(v)} : OpenDisk(v)[n] = disk[n]
  <1>1. disk \in DiskType /\ v \in AllVars
    BY BuffersType, OpenEntry
  <1>2. PICK e \in Entry : e = OpenFiles(v)[OpenHandle(v)]
    BY OpenEntry
  <1>3. OpenDisk(v) = Flushed(disk, e) /\ e.name = OpenName(v) /\ e.name \in DiskNames
    BY <1>2, OpenEntry DEF OpenDisk, OpenName
  <1>4. CASE Own(v)
    <2>1. e = files[handle[v]] /\ OpenAttached(v) = attached[v]
      BY <1>2, <1>4, OpenFile
    <2>2. Holds(e.file, readAhead[handle[v]], buffer[v], disk[e.name], ideal[attached[v]], taken[v])
      BY <1>1, <1>4, <2>1 DEF Contents, StreamsHold
    <2>3. e.file.mode \in OnDisk => disk[e.name] \in Seq(Records)
      BY <1>2, <1>3, OpenEntry
    <2>4. /\ Complete(Flushed(disk, e)[e.name], ideal[attached[v]])
          /\ \A n \in DiskNames \ {e.name} : Flushed(disk, e)[n] = disk[n]
      BY <1>1, <1>3, <2>2, <2>3, FlushedHolds
    <2>5. QED  BY <1>3, <2>1, <2>4
  <1>5. CASE Unassigned(v)
    <2>1. PICK h \in Handles : h = FirstFree /\ ~files[h].inUse
      BY <1>5, FirstFreeIsFree DEF NoEntry
    <2>2. files[h].file = NULL
      BY <2>1 DEF IInv, StreamsHaveFiles
    <2>3. e.file = NULL
      <3>1. NextTemp \in DiskNames
        BY NextTempType DEF IInv, TypeOK
      <3>2. Assigned(h, v, NextTemp)[h].file = files[h].file
        BY <1>1, <3>1, AssignedType DEF IInv
      <3>3. QED  BY <1>2, <1>5, <2>1, <2>2, <3>2 DEF OpenFiles, OpenHandle
    <2>4. Flushed(disk, e) = disk
      BY <2>3, NullStream DEF Flushed
    <2>5. OpenAttached(v) = v /\ v \in Unnamed /\ handle[v] = 0
      BY <1>5 DEF OpenAttached, Unassigned
    <2>6. OpenName(v) \in TempNames
      <3>1. v \notin DiskNames
        BY <1>1 DEF Tidy
      <3>2. QED  BY <2>5, <3>1, OpenFile
    <2>7. ideal[v] = <<>> /\ disk[OpenName(v)] = Absent
      BY <2>5, <2>6 DEF Contents, RestHolds
    <2>8. QED  BY <1>3, <2>4, <2>5, <2>7 DEF Complete
  <1>6. QED  BY <1>4, <1>5, OpenFile

(* An operation on the file of v alone, which then holds its records.      *)
Touched(v) ==
  LET h == OpenHandle(v)
      n == OpenName(v)
      a == OpenAttached(v)
  IN  /\ handle' = [handle EXCEPT ![v] = h]
      /\ attached' = [attached EXCEPT ![v] = a]
      /\ files'[h].name = n
      /\ \A g \in Handles \ {h} : files'[g] = files[g] /\ readAhead'[g] = readAhead[g]
      /\ \A m \in DiskNames \ {n} : disk'[m] = disk[m]
      /\ \A i \in (DiskNames \cup AllVars) \ {a} : ideal'[i] = ideal[i]
      /\ \A w \in AllVars \ {v} : buffer'[w] = buffer[w] /\ taken'[w] = taken[w]
      /\ IdealType'
      /\ Holds(files'[h].file, readAhead'[h], buffer'[v], disk'[n], ideal'[a], taken'[v])

LEMMA TouchedStep ==
  ASSUME Tidy, IInv, Contents, NEW v \in Vars \cup Unnamed, ~NoEntry(v),
         Unassigned(v) => v \in Unnamed, Touched(v)
  PROVE  Contents'
  <1>1. PICK h, n, a : h = OpenHandle(v) /\ n = OpenName(v) /\ a = OpenAttached(v)
    OBVIOUS
  <1>2. /\ v \in AllVars \ {Output}
        /\ h \in Handles \ {0, 1}
        /\ n \in DiskNames /\ a \in DiskNames \cup AllVars
        /\ \/ a = n /\ n \in Names
           \/ a = v /\ v \in Unnamed /\ n \in TempNames
        /\ \A w \in AllVars \ {v} : Own(w) =>
              handle[w] # h /\ attached[w] # a /\ files[handle[w]].name # n
        /\ Own(v) => attached[v] = a
        /\ ~Own(v) => v \in Unnamed
    BY <1>1, OpenFile, OpenEntry
  <1>3. /\ handle \in [AllVars -> Handles]
        /\ attached \in [AllVars -> DiskNames \cup AllVars \cup {Nobody}]
    BY DEF IInv, TypeOK
  <1>4. /\ handle'[v] = h /\ attached'[v] = a
        /\ \A w \in AllVars \ {v} : handle'[w] = handle[w] /\ attached'[w] = attached[w]
    BY <1>1, <1>2, <1>3 DEF Touched
  <1>5. /\ files'[h].name = n
        /\ \A g \in Handles \ {h} : files'[g] = files[g] /\ readAhead'[g] = readAhead[g]
        /\ \A m \in DiskNames \ {n} : disk'[m] = disk[m]
        /\ \A i \in (DiskNames \cup AllVars) \ {a} : ideal'[i] = ideal[i]
        /\ \A w \in AllVars \ {v} : buffer'[w] = buffer[w] /\ taken'[w] = taken[w]
        /\ IdealType'
        /\ Holds(files'[h].file, readAhead'[h], buffer'[v], disk'[n], ideal'[a], taken'[v])
    BY <1>1 DEF Touched
  <1>6. Own(v)' /\ \A w \in AllVars \ {v} : (Own(w))' <=> Own(w)
    BY <1>2, <1>4 DEF Own
  <1>7. \A w \in AllVars \ {v} : Own(w) => files'[handle[w]] = files[handle[w]]
    BY <1>2, <1>3, <1>5
  <1>8. Standard'
    <2>1. handle'[Output] = 1
      BY <1>2, <1>4 DEF Contents, Standard, AllVars
    <2>2. files'[0] = files[0] /\ files'[1] = files[1]
      BY <1>2, <1>5, ZeroIsHandle
    <2>3. QED  BY <2>1, <2>2 DEF Contents, Standard
  <1>9. Attached'
    <2>1. ASSUME NEW w \in AllVars, Own(w)'
          PROVE  \/ attached'[w] = files'[handle'[w]].name /\ attached'[w] \in Names
                 \/ attached'[w] = w /\ w \in Unnamed /\ files'[handle'[w]].name \in TempNames
      <3>1. CASE w = v
        BY <1>2, <1>4, <1>5, <3>1
      <3>2. CASE w # v
        BY <1>4, <1>6, <1>7, <2>1, <3>2 DEF Contents, Attached
      <3>3. QED  BY <3>1, <3>2
    <2>2. QED  BY <2>1 DEF Attached
  <1>10. Apart'
    <2>1. ASSUME NEW u \in AllVars, NEW w \in AllVars, Own(u)', Own(w)', u # w
          PROVE  attached'[u] # attached'[w]
      <3>1. CASE u = v
        BY <1>2, <1>4, <1>6, <2>1, <3>1
      <3>2. CASE w = v
        BY <1>2, <1>4, <1>6, <2>1, <3>2
      <3>3. CASE u # v /\ w # v
        BY <1>4, <1>6, <2>1, <3>3 DEF Contents, Apart
      <3>4. QED  BY <3>1, <3>2, <3>3
    <2>2. QED  BY <2>1 DEF Apart
  <1>11. StreamsHold'
    <2>1. ASSUME NEW w \in AllVars, Own(w)'
          PROVE  Holds(files'[handle'[w]].file, readAhead'[handle'[w]], buffer'[w],
                       disk'[files'[handle'[w]].name], ideal'[attached'[w]], taken'[w])
      <3>1. CASE w = v
        BY <1>4, <1>5, <3>1
      <3>2. CASE w # v
        <4>1. Own(w) /\ handle'[w] = handle[w] /\ attached'[w] = attached[w]
          BY <1>4, <1>6, <2>1, <3>2
        <4>2. /\ handle[w] \in Handles \ {h}
              /\ files[handle[w]].name \in DiskNames \ {n}
              /\ attached[w] \in (DiskNames \cup AllVars) \ {a}
          BY <1>2, <3>2, <4>1, OwnFile
        <4>3. /\ files'[handle[w]] = files[handle[w]]
              /\ readAhead'[handle[w]] = readAhead[handle[w]]
              /\ buffer'[w] = buffer[w]
              /\ disk'[files[handle[w]].name] = disk[files[handle[w]].name]
              /\ ideal'[attached[w]] = ideal[attached[w]]
              /\ taken'[w] = taken[w]
          BY <1>5, <3>2, <4>2
        <4>4. Holds(files[handle[w]].file, readAhead[handle[w]], buffer[w],
                    disk[files[handle[w]].name], ideal[attached[w]], taken[w])
          BY <4>1 DEF Contents, StreamsHold
        <4>5. QED  BY <4>1, <4>3, <4>4
      <3>3. QED  BY <3>1, <3>2
    <2>2. QED  BY <2>1 DEF StreamsHold
  <1>12. RestHolds'
    <2>1. Names \cap TempNames = {} /\ Names \subseteq DiskNames /\ TempNames \subseteq DiskNames
      BY DEF Tidy, DiskNames
    <2>2. ASSUME NEW m \in Names, \A w \in AllVars : Own(w)' => attached'[w] # m
          PROVE  Complete(disk'[m], ideal'[m])
      <3>1. m # a /\ m # n
        BY <1>2, <1>4, <1>6, <2>1, <2>2
      <3>2. \A w \in AllVars : Own(w) => attached[w] # m
        BY <1>2, <1>4, <1>6, <2>2
      <3>3. Complete(disk[m], ideal[m])
        BY <3>2 DEF Contents, RestHolds
      <3>4. QED  BY <1>5, <2>1, <3>1, <3>3
    <2>3. ASSUME NEW w \in Unnamed, handle'[w] = 0
          PROVE  ideal'[w] = <<>> /\ \A m \in TempNames : disk'[m] = Absent
      <3>1. w \in AllVars /\ w # v /\ v \notin Unnamed
        BY <1>2, <1>4, <2>3, FileTableAssumption DEF AllVars, Tidy
      <3>2. a = n /\ n \in Names
        BY <1>2, <3>1
      <3>3. w # a
        BY <2>1, <3>1, <3>2 DEF Tidy
      <3>4. ideal'[w] = ideal[w] /\ \A m \in TempNames : disk'[m] = disk[m]
        BY <1>5, <2>1, <3>1, <3>2, <3>3
      <3>5. ideal[w] = <<>> /\ \A m \in TempNames : disk[m] = Absent
        BY <1>4, <2>3, <3>1 DEF Contents, RestHolds
      <3>6. QED  BY <3>4, <3>5
    <2>4. QED  BY <2>2, <2>3 DEF RestHolds
  <1>13. QED  BY <1>5, <1>8, <1>9, <1>10, <1>11, <1>12 DEF Contents

-----------------------------------------------------------------------------
(* The actions.                                                            *)

LEMMA ExitHolds ==
  ASSUME Contents, UNCHANGED <<handle, files, readAhead, buffer, disk, attached, ideal, taken>>
  PROVE  Contents'
  <1>1. IdealType' /\ Standard' /\ Attached' /\ Apart'
    BY DEF Contents, IdealType, Standard, Attached, Apart, Own
  <1>2. StreamsHold' /\ RestHolds'
    BY DEF Contents, StreamsHold, RestHolds, Own
  <1>3. QED  BY <1>1, <1>2 DEF Contents

LEMMA MayOpen ==
  ASSUME NEW v, CanOpen(v)
  PROVE  Unassigned(v) => v \in Unnamed
  BY DEF CanOpen

(* What reset, rewrite and append have in common.                          *)
LEMMA OpenedHolds ==
  ASSUME Tidy, IInv, Contents, NEW v \in Vars \cup Unnamed, ~NoEntry(v),
         Unassigned(v) => v \in Unnamed,
         NEW file, NEW d, Opened(v, file, d),
         \A m \in DiskNames \ {OpenName(v)} : d[m] = disk[m],
         \A w \in AllVars \ {v} : buffer'[w] = buffer[w],
         \A g \in Handles \ {OpenHandle(v)} : readAhead'[g] = readAhead[g],
         IdealType',
         \A i \in (DiskNames \cup AllVars) \ {OpenAttached(v)} : ideal'[i] = ideal[i],
         Holds(file, readAhead'[OpenHandle(v)], buffer'[v], d[OpenName(v)],
               ideal'[OpenAttached(v)], 0)
  PROVE  Contents'
  <1>1. PICK h, fs : h = OpenHandle(v) /\ fs = OpenFiles(v)
    OBVIOUS
  <1>2. /\ handle' = [handle EXCEPT ![v] = h]
        /\ files' = [fs EXCEPT ![h].file = file]
        /\ disk' = d
        /\ attached' = [attached EXCEPT ![v] = OpenAttached(v)]
        /\ taken' = [taken EXCEPT ![v] = 0]
    BY <1>1 DEF Opened
  <1>3. /\ h \in Handles /\ fs \in [Handles -> Entry]
        /\ \A g \in Handles \ {h} : fs[g] = files[g]
        /\ v \in AllVars
        /\ fs[h].name = OpenName(v)
    BY <1>1, OpenEntry DEF OpenName
  <1>4. PICK e : e = [fs[h] EXCEPT !.file = file]
    OBVIOUS
  <1>5. fs[h] \in Entry
    BY <1>3
  <1>6. e.name = OpenName(v) /\ e.file = file
    BY <1>3, <1>4, <1>5 DEF Entry
  <1>7. files' = [fs EXCEPT ![h] = e]
    BY <1>2, <1>4
  <1>8. files'[h] = e /\ \A g \in Handles \ {h} : files'[g] = files[g]
    BY <1>3, <1>7
  <1>9. taken'[v] = 0 /\ \A w \in AllVars \ {v} : taken'[w] = taken[w]
    BY <1>2, <1>3, BuffersType
  <1>10. Touched(v)
    BY <1>1, <1>2, <1>6, <1>8, <1>9 DEF Touched
  <1>11. QED  BY <1>10, TouchedStep

LEMMA ResetHolds ==
  ASSUME Tidy, IInv, Contents, NEW v \in Vars \cup Unnamed, Reset(v)
  PROVE  Contents'
  <1>1. CASE OpenFails(v)
    BY <1>1, ExitHolds DEF OpenFails, Exit
  <1>2. CASE ~OpenFails(v)
    <2>1. PICK d, s : d = OpenDisk(v) /\ s = d[OpenName(v)]
      OBVIOUS
    <2>2. PICK n : n = IF Len(s) < StdioSize THEN Len(s) ELSE StdioSize
      OBVIOUS
    <2>3. PICK first : first = SubSeq(s, 1, n)
      OBVIOUS
    <2>4. PICK data : data = IF n = 0 THEN <<>> ELSE Tail(first)
      OBVIOUS
    <2>5. /\ ~NoEntry(v)
          /\ s # Absent
          /\ Opened(v, Stream("r", n, data), d)
          /\ buffer' = IF n = 0 THEN buffer ELSE [buffer EXCEPT ![v] = first[1]]
          /\ readAhead' = [readAhead EXCEPT ![OpenHandle(v)] = IF n = 0 THEN 0 ELSE 1]
          /\ UNCHANGED ideal
      BY <1>2, <2>1, <2>2, <2>3, <2>4 DEF Reset
    <2>6. Unassigned(v) => v \in Unnamed
      BY MayOpen DEF Reset
    <2>7. PICK i \in Seq(Records) : i = ideal[OpenAttached(v)]
      BY <2>5, <2>6, OpenFile DEF Contents, IdealType
    <2>8. s = i /\ \A m \in DiskNames \ {OpenName(v)} : d[m] = disk[m]
      BY <2>1, <2>5, <2>6, <2>7, OpenDiskHolds DEF Complete
    <2>9. n \in 0 .. Len(i) /\ n \in Nat /\ Len(i) \in Nat /\ (n = 0 => Len(i) = 0)
      BY <2>2, <2>8, LenProperties, FileTableAssumption
    <2>10. v \in AllVars /\ OpenHandle(v) \in Handles
      BY <2>5, OpenEntry
    <2>11. /\ readAhead'[OpenHandle(v)] = IF n = 0 THEN 0 ELSE 1
           /\ \A g \in Handles \ {OpenHandle(v)} : readAhead'[g] = readAhead[g]
      BY <2>5, <2>10, BuffersType
    <2>12. /\ n # 0 => buffer'[v] = first[1]
           /\ \A w \in AllVars \ {v} : buffer'[w] = buffer[w]
      BY <2>5, <2>10, BuffersType
    <2>13. IdealType' /\ ideal' = ideal
      BY <2>5 DEF Contents, IdealType
    <2>14. (IF readAhead'[OpenHandle(v)] = 1 THEN <<buffer'[v]>> ELSE <<>>)
              \o data \o SubSeq(i, n + 1, Len(i)) = SubSeq(i, 1, Len(i))
      <3>1. PICK rest \in Seq(Records) : rest = SubSeq(i, n + 1, Len(i))
        <4>1. n <= Len(i)
          BY <2>9
        <4>2. SubSeq(i, n + 1, Len(i)) \in Seq(Records)
          BY <2>9, <4>1, Rest
        <4>3. QED  BY <4>2
      <3>2. CASE n = 0
        <4>1. <<>> \o <<>> \o rest = rest
          BY <3>1, ConcatEmptySeq, EmptySeq
        <4>2. QED  BY <2>4, <2>11, <3>1, <3>2, <4>1
      <3>3. CASE n # 0
        <4>1. first \in Seq(Records) /\ Len(first) = n
          <5>1. \A k \in 1 .. n : i[k] \in Records
            BY <2>9, ElementOfSeq
          <5>2. QED  BY <2>3, <2>8, <2>9, <3>3, <5>1, SubSeqProperties
        <4>2. 1 \in 1 .. Len(first) /\ Len(first) \in 1 .. Len(first)
          BY <2>9, <3>3, <4>1
        <4>3. first = <<first[1]>> \o SubSeq(first, 2, Len(first))
          <5>1. SubSeq(first, 1, Len(first)) = <<first[1]>> \o SubSeq(first, 1 + 1, Len(first))
            BY <4>1, <4>2, SubSeqRecursiveFirst
          <5>2. QED  BY <4>1, <5>1, SubSeqFull
        <4>4. Tail(first) = SubSeq(first, 2, Len(first))
          BY <4>1, <4>2, TailIsSubSeq, EmptySeq
        <4>5. first \o rest = SubSeq(i, 1, Len(i))
          <5>1. 1 \in 1 .. Len(i) + 1 /\ n \in 1 - 1 .. Len(i) /\ Len(i) \in n .. Len(i)
            BY <2>9
          <5>2. QED  BY <2>3, <2>8, <3>1, <5>1, ConcatAdjacentSubSeq
        <4>6. QED  BY <2>4, <2>11, <2>12, <3>1, <3>3, <4>3, <4>4, <4>5
      <3>4. QED  BY <3>2, <3>3
    <2>15. PICK file : file = Stream("r", n, data)
      OBVIOUS
    <2>16. Holds(file, readAhead'[OpenHandle(v)], buffer'[v], d[OpenName(v)],
                 ideal'[OpenAttached(v)], 0)
      <3>1. file.mode = "r" /\ file.off = n /\ file.data = data
        BY <2>15 DEF Stream
      <3>2. d[OpenName(v)] = i /\ ideal'[OpenAttached(v)] = i
        BY <2>1, <2>7, <2>8, <2>13
      <3>3. n <= Len(i) /\ 0 <= Len(i) /\ 0 + 1 = 1
        BY <2>9
      <3>4. QED  BY <2>14, <3>1, <3>2, <3>3 DEF Holds
    <2>17. QED  BY <2>5, <2>6, <2>8, <2>11, <2>12, <2>13, <2>15, <2>16, OpenedHolds
  <1>3. QED  BY <1>1, <1>2

LEMMA RewriteHolds ==
  ASSUME Tidy, IInv, Contents, NEW v \in Vars \cup Unnamed, Rewrite(v)
  PROVE  Contents'
  <1>1. CASE OpenFails(v)
    BY <1>1, ExitHolds DEF OpenFails, Exit
  <1>2. CASE ~OpenFails(v)
    <2>1. PICK d : d = [OpenDisk(v) EXCEPT ![OpenName(v)] = <<>>]
      OBVIOUS
    <2>2. PICK file : file = Stream("w", 0, <<>>)
      OBVIOUS
    <2>3. /\ ~NoEntry(v)
          /\ Opened(v, file, d)
          /\ ideal' = [ideal EXCEPT ![OpenAttached(v)] = <<>>]
          /\ readAhead' = [readAhead EXCEPT ![OpenHandle(v)] = 0]
          /\ UNCHANGED buffer
      BY <1>2, <2>1, <2>2 DEF Rewrite
    <2>4. Unassigned(v) => v \in Unnamed
      BY MayOpen DEF Rewrite
    <2>5. OpenDisk(v) \in DiskType /\ OpenName(v) \in DiskNames /\ OpenHandle(v) \in Handles
      BY <2>3, OpenDiskType, OpenEntry
    <2>6. /\ d[OpenName(v)] = <<>>
          /\ \A m \in DiskNames \ {OpenName(v)} : d[m] = disk[m]
      BY <2>1, <2>3, <2>4, <2>5, OpenDiskHolds DEF DiskType
    <2>7. OpenAttached(v) \in DiskNames \cup AllVars
      BY <2>3, <2>4, OpenFile
    <2>8. <<>> \in Seq(Records) /\ Len(<<>>) = 0 /\ <<>> \o <<>> = <<>>
      BY EmptySeq, ConcatEmptySeq
    <2>9. /\ IdealType' /\ ideal'[OpenAttached(v)] = <<>>
          /\ \A i \in (DiskNames \cup AllVars) \ {OpenAttached(v)} : ideal'[i] = ideal[i]
      BY <2>3, <2>7, <2>8 DEF Contents, IdealType
    <2>10. \A g \in Handles \ {OpenHandle(v)} : readAhead'[g] = readAhead[g]
      BY <2>3, BuffersType
    <2>11. Holds(file, readAhead'[OpenHandle(v)], buffer'[v], d[OpenName(v)],
                 ideal'[OpenAttached(v)], 0)
      BY <2>2, <2>6, <2>8, <2>9 DEF Holds, Stream
    <2>12. QED  BY <2>3, <2>4, <2>6, <2>9, <2>10, <2>11, OpenedHolds
  <1>3. QED  BY <1>1, <1>2

LEMMA AppendHolds ==
  ASSUME Tidy, IInv, Contents, NEW v \in Vars \cup Unnamed, AppendTo(v)
  PROVE  Contents'
  <1>1. CASE OpenFails(v)
    BY <1>1, ExitHolds DEF OpenFails, Exit
  <1>2. CASE ~OpenFails(v)
    <2>1. PICK s : s = IF OpenDisk(v)[OpenName(v)] = Absent THEN <<>> ELSE OpenDisk(v)[OpenName(v)]
      OBVIOUS
    <2>2. PICK d : d = [OpenDisk(v) EXCEPT ![OpenName(v)] = s]
      OBVIOUS
    <2>3. PICK file : file = Stream("a", 0, <<>>)
      OBVIOUS
    <2>4. /\ ~NoEntry(v)
          /\ Opened(v, file, d)
          /\ readAhead' = [readAhead EXCEPT ![OpenHandle(v)] = 0]
          /\ UNCHANGED <<buffer, ideal>>
      BY <1>2, <2>1, <2>2, <2>3 DEF AppendTo
    <2>5. Unassigned(v) => v \in Unnamed
      BY MayOpen DEF AppendTo
    <2>6. OpenDisk(v) \in DiskType /\ OpenName(v) \in DiskNames /\ OpenHandle(v) \in Handles
      BY <2>4, OpenDiskType, OpenEntry
    <2>7. PICK i \in Seq(Records) : i = ideal[OpenAttached(v)]
      BY <2>4, <2>5, OpenFile DEF Contents, IdealType
    <2>8. s = i
      BY <2>1, <2>4, <2>5, <2>7, OpenDiskHolds DEF Complete, Tidy
    <2>9. /\ d[OpenName(v)] = i
          /\ \A m \in DiskNames \ {OpenName(v)} : d[m] = disk[m]
      BY <2>2, <2>4, <2>5, <2>6, <2>8, OpenDiskHolds DEF DiskType
    <2>10. \A g \in Handles \ {OpenHandle(v)} : readAhead'[g] = readAhead[g]
      BY <2>4, BuffersType
    <2>11. IdealType' /\ ideal' = ideal
      BY <2>4 DEF Contents, IdealType
    <2>12. i \o <<>> = i
      BY <2>7, ConcatEmptySeq
    <2>13. Holds(file, readAhead'[OpenHandle(v)], buffer'[v], d[OpenName(v)],
                 ideal'[OpenAttached(v)], 0)
      BY <2>3, <2>7, <2>9, <2>11, <2>12 DEF Holds, Stream
    <2>14. QED  BY <2>4, <2>5, <2>9, <2>10, <2>11, <2>13, OpenedHolds
  <1>3. QED  BY <1>1, <1>2

(* What close, put and get have in common.                                 *)
LEMMA OwnHolds ==
  ASSUME Tidy, IInv, Contents, NEW v \in Vars \cup Unnamed, handle[v] # 0,
         NEW e, e.name = files[handle[v]].name, files' = [files EXCEPT ![handle[v]] = e],
         handle' = handle, attached' = attached,
         \A m \in DiskNames \ {e.name} : disk'[m] = disk[m],
         \A w \in AllVars \ {v} : buffer'[w] = buffer[w] /\ taken'[w] = taken[w],
         \A g \in Handles \ {handle[v]} : readAhead'[g] = readAhead[g],
         IdealType',
         \A i \in (DiskNames \cup AllVars) \ {attached[v]} : ideal'[i] = ideal[i],
         Holds(e.file, readAhead'[handle[v]], buffer'[v], disk'[e.name],
               ideal'[attached[v]], taken'[v])
  PROVE  Contents'
  <1>1. ~Unassigned(v) /\ ~NoEntry(v)
    BY DEF Unassigned, NoEntry
  <1>2. /\ handle \in [AllVars -> Handles] /\ files \in [Handles -> Entry]
        /\ attached \in [AllVars -> DiskNames \cup AllVars \cup {Nobody}]
    BY DEF IInv, TypeOK
  <1>3. v \in AllVars /\ handle[v] \in Handles
    BY <1>1, <1>2, OpenEntry
  <1>4. /\ OpenHandle(v) = handle[v]
        /\ OpenName(v) = e.name
        /\ OpenAttached(v) = attached[v]
    BY <1>1, OpenFile
  <1>5. files'[handle[v]] = e /\ \A g \in Handles \ {handle[v]} : files'[g] = files[g]
    BY <1>2, <1>3
  <1>6. /\ handle' = [handle EXCEPT ![v] = handle[v]]
        /\ attached' = [attached EXCEPT ![v] = attached[v]]
    BY <1>2, <1>3
  <1>7. Touched(v)
    BY <1>4, <1>5, <1>6 DEF Touched
  <1>8. QED  BY <1>1, <1>7, TouchedStep

(* The entry of a variable that has one, and what it holds.                *)
LEMMA OwnStream ==
  ASSUME Tidy, IInv, Contents, NEW v \in Vars \cup Unnamed, handle[v] # 0
  PROVE  LET e == files[handle[v]]
         IN  /\ v \in AllVars /\ Own(v)
             /\ handle[v] \in Handles \ {0, 1}
             /\ e \in Entry /\ e.inUse
             /\ e.name \in DiskNames
             /\ e.file.mode \in OnDisk => disk[e.name] \in Seq(Records)
             /\ attached[v] \in DiskNames \cup AllVars
             /\ ideal[attached[v]] \in Seq(Records)
             /\ Holds(e.file, readAhead[handle[v]], buffer[v], disk[e.name],
                      ideal[attached[v]], taken[v])
             /\ [e EXCEPT !.file = NULL].name = e.name
  <1>1. v \in AllVars \ {Output}
    BY FileTableAssumption DEF AllVars
  <1>2. Own(v)
    BY <1>1 DEF Own
  <1>3. Holds(files[handle[v]].file, readAhead[handle[v]], buffer[v],
              disk[files[handle[v]].name], ideal[attached[v]], taken[v])
    BY <1>1, <1>2 DEF Contents, StreamsHold
  <1>4. files[handle[v]].file.mode \in OnDisk => disk[files[handle[v]].name] \in Seq(Records)
    BY <1>1, <1>2, OwnFile DEF IInv, StreamsHaveFiles
  <1>5. files[handle[v]] \in Entry
    BY <1>1, <1>2, OwnFile
  <1>6. [files[handle[v]] EXCEPT !.file = NULL].name = files[handle[v]].name
    BY <1>5 DEF Entry
  <1>7. QED  BY <1>1, <1>2, <1>3, <1>4, <1>5, <1>6, OwnFile

LEMMA CloseHolds ==
  ASSUME Tidy, IInv, Contents, NEW v \in Vars \cup Unnamed, Close(v)
  PROVE  Contents'
  <1>1. CASE ~(files[handle[v]].inUse /\ IsOpen(handle[v]))
    <2>1. Exit("Attempt to close file failed")
      BY <1>1 DEF Close
    <2>2. QED  BY <2>1, ExitHolds DEF Exit
  <1>2. CASE files[handle[v]].inUse /\ IsOpen(handle[v]) /\ handle[v] # 0
    <2>1. PICK e \in Entry : e = files[handle[v]]
      BY OwnStream, <1>2
    <2>2. PICK c : c = [e EXCEPT !.file = NULL]
      OBVIOUS
    <2>3. /\ disk' = Flushed(disk, e)
          /\ files' = [files EXCEPT ![handle[v]] = c]
          /\ UNCHANGED <<handle, readAhead, buffer, attached, ideal, taken>>
      BY <1>2, <2>1, <2>2 DEF Close
    <2>4. c.name = e.name /\ c.file = NULL
      BY <2>1, <2>2 DEF Entry
    <2>5. /\ disk \in DiskType /\ e.name \in DiskNames
          /\ e.file.mode \in OnDisk => disk[e.name] \in Seq(Records)
          /\ Holds(e.file, readAhead[handle[v]], buffer[v], disk[e.name],
                   ideal[attached[v]], taken[v])
      BY <1>2, <2>1, OwnStream, BuffersType
    <2>6. /\ Complete(disk'[e.name], ideal[attached[v]])
          /\ \A m \in DiskNames \ {e.name} : disk'[m] = disk[m]
      BY <2>3, <2>5, FlushedHolds
    <2>7. IdealType'
      BY <2>3 DEF Contents, IdealType
    <2>8. Holds(c.file, readAhead'[handle[v]], buffer'[v], disk'[c.name],
                ideal'[attached[v]], taken'[v])
      BY <2>3, <2>4, <2>6, NullStream DEF Holds
    <2>9. QED  BY <1>2, <2>1, <2>3, <2>4, <2>6, <2>7, <2>8, OwnHolds
  <1>3. CASE files[handle[v]].inUse /\ IsOpen(handle[v]) /\ handle[v] = 0
    <2>1. /\ disk' = Flushed(disk, files[0])
          /\ files' = [files EXCEPT ![0].file = NULL]
          /\ UNCHANGED <<handle, readAhead, buffer, attached, ideal, taken>>
      BY <1>3 DEF Close
    <2>2. disk' = disk
      BY <2>1 DEF Contents, Standard, Flushed, OnDisk
    <2>3. files \in [Handles -> Entry]
      BY DEF IInv, TypeOK
    <2>4. files'[0].file = NULL /\ \A g \in Handles \ {0} : files'[g] = files[g]
      BY <2>1, <2>3, ZeroIsHandle DEF Entry
    <2>5. \A w \in AllVars : (Own(w))' <=> Own(w)
      BY <2>1 DEF Own
    <2>6. \A w \in AllVars : Own(w) => files'[handle'[w]] = files[handle[w]]
      BY <2>1, <2>4, OwnFile
    <2>7. IdealType' /\ Standard'
      BY <2>1, <2>4, NullStream, ZeroIsHandle DEF Contents, IdealType, Standard
    <2>8. Attached' /\ Apart'
      BY <2>1, <2>5, <2>6 DEF Contents, Attached, Apart
    <2>9. StreamsHold'
      BY <2>1, <2>2, <2>5, <2>6 DEF Contents, StreamsHold
    <2>10. RestHolds'
      BY <2>1, <2>2, <2>5 DEF Contents, RestHolds
    <2>11. QED  BY <2>7, <2>8, <2>9, <2>10 DEF Contents
  <1>4. QED  BY <1>1, <1>2, <1>3

LEMMA GetHolds ==
  ASSUME Tidy, IInv, Contents, NEW v \in Vars \cup Unnamed, Get(v)
  PROVE  Contents'
  <1>1. handle[v] # 0
    BY DEF Get
  <1>2. PICK e \in Entry : e = files[handle[v]]
    BY <1>1, OwnStream
  <1>3. /\ v \in AllVars /\ handle[v] \in Handles
        /\ e.name \in DiskNames
        /\ e.file.mode \in OnDisk => disk[e.name] \in Seq(Records)
        /\ Holds(e.file, readAhead[handle[v]], buffer[v], disk[e.name], ideal[attached[v]], taken[v])
    BY <1>1, <1>2, OwnStream
  <1>4. PICK i \in Seq(Records) : i = ideal[attached[v]]
    BY <1>1, OwnStream
  <1>5. PICK s \in StreamType : s = Fetched(e) /\ s.mode = e.file.mode
    BY <1>3, FetchedType
  <1>6. PICK ok \in BOOLEAN : ok = (s.mode = "r" /\ s.data # <<>>)
    OBVIOUS
  <1>7. PICK file : file = IF ok THEN [s EXCEPT !.data = Tail(@)] ELSE s
    OBVIOUS
  <1>8. PICK c : c = [e EXCEPT !.file = file]
    OBVIOUS
  <1>9. /\ files' = [files EXCEPT ![handle[v]].file = file]
        /\ buffer' = IF ok THEN [buffer EXCEPT ![v] = s.data[1]] ELSE buffer
        /\ readAhead' = [readAhead EXCEPT ![handle[v]] = IF ok THEN 1 ELSE 0]
        /\ taken' = IF readAhead[handle[v]] = 1 THEN [taken EXCEPT ![v] = @ + 1] ELSE taken
        /\ UNCHANGED <<handle, disk, attached, ideal>>
    BY <1>2, <1>5, <1>6, <1>7 DEF Get
  <1>10. files' = [files EXCEPT ![handle[v]] = c]
    BY <1>2, <1>8, <1>9
  <1>11. c.name = e.name /\ c.file = file
    BY <1>2, <1>8 DEF Entry
  <1>12. /\ buffer \in [AllVars -> Records] /\ readAhead \in [Handles -> {0, 1}]
         /\ taken \in [AllVars -> Nat]
    BY BuffersType
  <1>13. /\ ok => buffer'[v] = s.data[1]
         /\ readAhead'[handle[v]] = IF ok THEN 1 ELSE 0
         /\ taken'[v] = IF readAhead[handle[v]] = 1 THEN taken[v] + 1 ELSE taken[v]
         /\ \A w \in AllVars \ {v} : buffer'[w] = buffer[w] /\ taken'[w] = taken[w]
         /\ \A g \in Handles \ {handle[v]} : readAhead'[g] = readAhead[g]
    BY <1>3, <1>9, <1>12
  <1>14. Holds(file, readAhead'[handle[v]], buffer'[v], disk[e.name], i, taken'[v])
    <2>1. CASE s.mode # "r"
      <3>1. ~ok /\ file = s /\ s = e.file
        BY <1>5, <1>6, <1>7, <2>1 DEF Fetched
      <3>2. QED  BY <1>3, <1>4, <2>1, <3>1, <1>5 DEF Holds
    <2>2. CASE s.mode = "r"
      <3>1. PICK t \in Nat : t = taken[v]
        BY <1>3, <1>12
      <3>2. /\ disk[e.name] = i
            /\ e.file.off <= Len(i)
            /\ t <= Len(i)
            /\ (IF readAhead[handle[v]] = 1 THEN <<buffer[v]>> ELSE <<>>)
                 \o e.file.data \o SubSeq(i, e.file.off + 1, Len(i)) = SubSeq(i, t + 1, Len(i))
        BY <1>3, <1>4, <1>5, <2>2, <3>1 DEF Holds
      <3>3. /\ s.off <= Len(i)
            /\ s.data \o SubSeq(i, s.off + 1, Len(i))
                 = e.file.data \o SubSeq(i, e.file.off + 1, Len(i))
            /\ s.data = <<>> => e.file.data = <<>> /\ e.file.off = Len(i)
        BY <1>5, <2>2, <3>2, FetchedRest
      <3>4. /\ e.file.off \in Nat /\ e.file.data \in Seq(Records)
            /\ s.off \in Nat /\ s.data \in Seq(Records)
            /\ Len(i) \in Nat
        BY EntryFields, LenProperties DEF StreamType
      <3>5. PICK rest \in Seq(Records) : rest = SubSeq(i, e.file.off + 1, Len(i))
        BY <3>2, <3>4, Rest
      <3>6. PICK left \in Seq(Records) : left = SubSeq(i, s.off + 1, Len(i))
        BY <3>3, <3>4, Rest
      <3>7. PICK all \in Seq(Records) : all = e.file.data \o rest
        BY <3>4, ConcatProperties
      <3>8. all = s.data \o left
        BY <3>3, <3>5, <3>6, <3>7
      <3>9. taken'[v] <= Len(i) /\ taken'[v] \in Nat /\ all = SubSeq(i, taken'[v] + 1, Len(i))
        <4>1. CASE readAhead[handle[v]] = 1
          <5>1. PICK b \in Records : b = buffer[v]
            BY <1>3, <1>12
          <5>2. <<b>> \o all = SubSeq(i, t + 1, Len(i))
            <6>1. <<b>> \o e.file.data \o rest = SubSeq(i, t + 1, Len(i))
              BY <3>2, <3>5, <4>1, <5>1
            <6>2. (<<b>> \o e.file.data) \o rest = <<b>> \o (e.file.data \o rest)
              BY <3>4, ConsConcat
            <6>3. QED  BY <3>7, <6>1, <6>2
          <5>3. t + 1 <= Len(i) /\ all = SubSeq(i, t + 2, Len(i))
            BY <3>2, <5>2, TakeOne
          <5>4. taken'[v] = t + 1 /\ (t + 1) + 1 = t + 2
            BY <1>13, <3>1, <4>1
          <5>5. QED  BY <5>3, <5>4
        <4>2. CASE readAhead[handle[v]] # 1
          <5>1. taken'[v] = t
            BY <1>13, <3>1, <4>2
          <5>2. <<>> \o e.file.data \o rest = all
            BY <3>4, <3>7, ConcatEmptySeq
          <5>3. QED  BY <3>2, <3>5, <4>2, <5>1, <5>2
        <4>3. QED  BY <4>1, <4>2
      <3>10. CASE ok
        <4>1. PICK d : d = s.data
          OBVIOUS
        <4>2. d \in Seq(Records) /\ d # <<>> /\ 1 \in 1 .. Len(d) /\ Len(d) \in 1 .. Len(d)
          <5>1. d \in Seq(Records) /\ d # <<>>
            BY <1>6, <3>4, <3>10, <4>1
          <5>2. Len(d) \in Nat \ {0}
            BY <5>1, EmptySeq
          <5>3. QED  BY <5>1, <5>2
        <4>3. d = <<d[1]>> \o SubSeq(d, 2, Len(d))
          <5>1. SubSeq(d, 1, Len(d)) = <<d[1]>> \o SubSeq(d, 1 + 1, Len(d))
            BY <4>2, SubSeqRecursiveFirst
          <5>2. QED  BY <4>2, <5>1, SubSeqFull
        <4>4. Tail(d) = SubSeq(d, 2, Len(d))
          BY <4>2, TailIsSubSeq
        <4>5. file.mode = "r" /\ file.off = s.off /\ file.data = Tail(d)
          BY <1>7, <2>2, <3>10, <4>1 DEF StreamType
        <4>6. <<buffer'[v]>> \o Tail(d) \o left = all
          BY <1>13, <3>8, <3>10, <4>1, <4>3, <4>4
        <4>7. readAhead'[handle[v]] = 1
          BY <1>13, <3>10
        <4>8. QED
          BY <3>2, <3>3, <3>6, <3>9, <4>5, <4>6, <4>7 DEF Holds
      <3>11. CASE ~ok
        <4>1. file = s /\ s.data = <<>>
          BY <1>6, <1>7, <2>2, <3>11
        <4>2. readAhead'[handle[v]] = 0
          BY <1>13, <3>11
        <4>3. <<>> \o <<>> \o left = all
          BY <3>8, <4>1, ConcatEmptySeq, EmptySeq
        <4>4. file.mode = "r" /\ file.off = s.off /\ file.data = <<>>
          BY <2>2, <4>1
        <4>5. file.off <= Len(i) /\ SubSeq(i, file.off + 1, Len(i)) = left
          BY <3>3, <3>6, <4>4
        <4>6. (IF readAhead'[handle[v]] = 1 THEN <<buffer'[v]>> ELSE <<>>)
                \o file.data \o SubSeq(i, file.off + 1, Len(i)) = SubSeq(i, taken'[v] + 1, Len(i))
          <5>1. (IF readAhead'[handle[v]] = 1 THEN <<buffer'[v]>> ELSE <<>>) = <<>>
            BY <4>2
          <5>2. (IF readAhead'[handle[v]] = 1 THEN <<buffer'[v]>> ELSE <<>>)
                  \o file.data \o SubSeq(i, file.off + 1, Len(i)) = <<>> \o <<>> \o left
            BY <4>4, <4>5, <5>1
          <5>3. QED  BY <3>9, <4>3, <5>2
        <4>7. QED
          BY <3>2, <3>9, <4>4, <4>5, <4>6 DEF Holds
      <3>12. QED  BY <3>10, <3>11
    <2>3. QED  BY <2>1, <2>2
  <1>15. IdealType' /\ ideal'[attached[v]] = i /\ disk'[e.name] = disk[e.name]
    BY <1>4, <1>9 DEF Contents, IdealType
  <1>16. Holds(c.file, readAhead'[handle[v]], buffer'[v], disk'[c.name],
                ideal'[attached[v]], taken'[v])
    BY <1>11, <1>14, <1>15
  <1>17. /\ handle' = handle /\ attached' = attached
         /\ \A m \in DiskNames \ {c.name} : disk'[m] = disk[m]
         /\ \A k \in (DiskNames \cup AllVars) \ {attached[v]} : ideal'[k] = ideal[k]
    BY <1>9
  <1>18. IdealType' /\ c.name = files[handle[v]].name
    BY <1>2, <1>11, <1>15
  <1>19. /\ \A w \in AllVars \ {v} : buffer'[w] = buffer[w] /\ taken'[w] = taken[w]
         /\ \A g \in Handles \ {handle[v]} : readAhead'[g] = readAhead[g]
    BY <1>13
  <1>20. QED
    BY <1>1, <1>10, <1>16, <1>17, <1>18, <1>19, OwnHolds

LEMMA PutHolds ==
  ASSUME Tidy, IInv, Contents, NEW v \in Vars \cup Unnamed, NEW x \in Values, Put(v, x)
  PROVE  Contents'
  <1>1. handle[v] # 0
    BY DEF Put
  <1>2. PICK e \in Entry : e = files[handle[v]]
    BY <1>1, OwnStream
  <1>3. /\ v \in AllVars /\ handle[v] \in Handles
        /\ e.name \in DiskNames
        /\ e.file.mode \in OnDisk => disk[e.name] \in Seq(Records)
        /\ attached[v] \in DiskNames \cup AllVars
        /\ Holds(e.file, readAhead[handle[v]], buffer[v], disk[e.name], ideal[attached[v]], taken[v])
    BY <1>1, <1>2, OwnStream
  <1>4. PICK i \in Seq(Records) : i = ideal[attached[v]]
    BY <1>1, OwnStream
  <1>5. e.file.mode \in {"w", "a"}
    BY <1>2 DEF Put, Tidy
  <1>6. PICK s \in Seq(Records) : s = disk[e.name]
    BY <1>3, <1>5 DEF OnDisk
  <1>7. e.file.data \in Seq(Records) /\ e.file.off \in Nat /\ x \in Records
    BY EntryFields DEF Records
  <1>8. PICK data \in Seq(Records) : data = Append(e.file.data, x)
    BY <1>7, AppendProperties
  <1>9. PICK j \in Seq(Records) : j = Append(i, x)
    BY <1>7, AppendProperties
  <1>10. PICK more : more = [e EXCEPT !.file.data = data]
    OBVIOUS
  <1>11. /\ more \in Entry
         /\ more.name = e.name
         /\ more.file.mode = e.file.mode
         /\ more.file.off = e.file.off
         /\ more.file.data = data
    BY <1>10 DEF Entry, Records
  <1>12. PICK full : full = IF Len(data) >= StdioSize THEN TRUE ELSE FALSE
    OBVIOUS
  <1>13. PICK file : file = IF full
                       THEN Stream(e.file.mode, IF e.file.mode = "w" THEN e.file.off + Len(data) ELSE 0, <<>>)
                       ELSE more.file
    OBVIOUS
  <1>14. PICK c : c = [e EXCEPT !.file = file]
    OBVIOUS
  <1>15. c.name = e.name /\ c.file = file
    BY <1>2, <1>14 DEF Entry
  <1>16. /\ buffer' = [buffer EXCEPT ![v] = x]
         /\ UNCHANGED <<handle, readAhead, attached, taken>>
    BY DEF Put
  <1>17. /\ disk' = IF full THEN Flushed(disk, more) ELSE disk
         /\ ideal' = [ideal EXCEPT ![attached[v]] = j]
    BY <1>2, <1>4, <1>5, <1>8, <1>9, <1>10, <1>11, <1>12 DEF Put
  <1>18. files' = [files EXCEPT ![handle[v]] = c]
    <2>1. CASE full
      <3>1. files' = [files EXCEPT ![handle[v]].file = file]
        BY <1>2, <1>5, <1>8, <1>10, <1>11, <1>12, <1>13, <2>1 DEF Put
      <3>2. QED  BY <1>2, <1>14, <3>1
    <2>2. CASE ~full
      <3>1. files' = [files EXCEPT ![handle[v]] = more]
        BY <1>2, <1>5, <1>8, <1>10, <1>11, <1>12, <2>2 DEF Put
      <3>2. more = c
        BY <1>10, <1>13, <1>14, <2>2 DEF Entry
      <3>3. QED  BY <3>1, <3>2
    <2>3. QED  BY <2>1, <2>2
  <1>19. /\ ideal'[attached[v]] = j /\ IdealType'
         /\ \A k \in (DiskNames \cup AllVars) \ {attached[v]} : ideal'[k] = ideal[k]
    BY <1>3, <1>9, <1>17 DEF Contents, IdealType
  <1>20. s \o e.file.data = i /\ (e.file.mode = "w" => e.file.off = Len(s))
    BY <1>3, <1>4, <1>5, <1>6 DEF Holds
  <1>21. s \o data = j
    <2>1. PICK d \in Seq(Records) : d = e.file.data
      BY <1>7
    <2>2. s \o Append(d, x) = Append(s \o d, x)
      BY <1>7, ConcatAppend
    <2>3. QED  BY <1>8, <1>9, <1>20, <2>1, <2>2
  <1>22. disk'[e.name] = (IF full THEN j ELSE s) /\ \A m \in DiskNames \ {e.name} : disk'[m] = disk[m]
    <2>1. CASE ~full
      BY <1>6, <1>17, <2>1
    <2>2. CASE full
      <3>1. WriteAt(s, Len(s), data) = j
        BY <1>21, WriteAtEnd
      <3>2. Flushed(disk, more) = [disk EXCEPT ![e.name] = j]
        BY <1>5, <1>6, <1>11, <1>20, <1>21, <3>1 DEF Flushed
      <3>3. disk \in DiskType
        BY BuffersType
      <3>4. QED  BY <1>3, <1>17, <2>2, <3>2, <3>3 DEF DiskType
    <2>3. QED  BY <2>1, <2>2
  <1>23. Holds(file, readAhead'[handle[v]], buffer'[v], disk'[e.name], j, taken'[v])
    <2>1. CASE ~full
      <3>1. file.mode = e.file.mode /\ file.off = e.file.off /\ file.data = data /\ disk'[e.name] = s
        BY <1>11, <1>13, <1>22, <2>1
      <3>2. QED  BY <1>5, <1>20, <1>21, <3>1 DEF Holds
    <2>2. CASE full
      <3>1. file.mode = e.file.mode /\ file.data = <<>> /\ disk'[e.name] = j
        BY <1>13, <1>22, <2>2 DEF Stream
      <3>2. e.file.mode = "w" => file.off = Len(j)
        <4>1. Len(j) = Len(s) + Len(data)
          BY <1>21, ConcatProperties
        <4>2. QED  BY <1>13, <1>20, <2>2, <4>1 DEF Stream
      <3>3. j \o <<>> = j
        BY ConcatEmptySeq
      <3>4. QED  BY <1>5, <3>1, <3>2, <3>3 DEF Holds
    <2>3. QED  BY <2>1, <2>2
  <1>24. Holds(c.file, readAhead'[handle[v]], buffer'[v], disk'[c.name],
                ideal'[attached[v]], taken'[v])
    BY <1>15, <1>19, <1>23
  <1>25. \A w \in AllVars \ {v} : buffer'[w] = buffer[w] /\ taken'[w] = taken[w]
    BY <1>3, <1>16, BuffersType
  <1>26. /\ handle' = handle /\ attached' = attached
         /\ \A g \in Handles \ {handle[v]} : readAhead'[g] = readAhead[g]
         /\ \A m \in DiskNames \ {c.name} : disk'[m] = disk[m]
         /\ c.name = files[handle[v]].name
    BY <1>2, <1>15, <1>16, <1>22
  <1>27. QED
    BY <1>1, <1>18, <1>19, <1>24, <1>25, <1>26, OwnHolds

(* An assign to a closed variable: the file it had is complete, and the    *)
(* one it is given is no other variable's.                                 *)
LEMMA AssignHolds ==
  ASSUME Tidy, IInv, Contents, NEW v \in Vars, NEW name \in Names, Assign(v, name)
  PROVE  Contents'
  <1>1. CASE TableFull
    BY <1>1, ExitHolds DEF Assign, Exit
  <1>2. CASE ~TableFull
    <2>1. PICK h \in Handles : h = FirstFree /\ ~files[h].inUse
      BY <1>2, FirstFreeIsFree
    <2>2. v \in AllVars \ {Output} /\ name \in DiskNames /\ v \notin DiskNames
      BY FileTableAssumption DEF AllVars, DiskNames, Tidy
    <2>3. /\ handle' = [handle EXCEPT ![v] = h]
          /\ files' = Assigned(h, v, name)
          /\ readAhead' = [readAhead EXCEPT ![h] = 0]
          /\ attached' = [attached EXCEPT ![v] = name]
          /\ taken' = [taken EXCEPT ![v] = 0]
          /\ UNCHANGED <<buffer, disk, ideal>>
      BY <1>2, <2>1 DEF Assign
    <2>4. /\ handle[v] # 0 => files[handle[v]].file = NULL
          /\ \A w \in AllVars \ {v} : attached[w] # name
      BY DEF Assign, MayAssign, IsOpen, Tidy
    <2>5. h # 0 /\ h # 1 /\ \A w \in AllVars : handle[w] # h
      BY <2>1 DEF IInv, Owned
    <2>6. files'[h].name = name /\ files'[h].file = NULL /\ \A g \in Handles \ {h} : files'[g] = files[g]
      <3>1. TypeOK /\ files[h].file = NULL
        BY <2>1 DEF IInv, StreamsHaveFiles
      <3>2. QED  BY <2>2, <2>3, <3>1, AssignedType
    <2>7. /\ handle'[v] = h /\ attached'[v] = name
          /\ \A w \in AllVars \ {v} : handle'[w] = handle[w] /\ attached'[w] = attached[w] /\ taken'[w] = taken[w]
          /\ \A g \in Handles \ {h} : readAhead'[g] = readAhead[g]
      <3>1. /\ handle \in [AllVars -> Handles]
            /\ attached \in [AllVars -> DiskNames \cup AllVars \cup {Nobody}]
        BY DEF IInv, TypeOK
      <3>2. QED  BY <2>2, <2>3, <3>1, BuffersType
    <2>8. Own(v)' /\ \A w \in AllVars \ {v} : (Own(w))' <=> Own(w)
      BY <2>2, <2>5, <2>7 DEF Own
    <2>9. \A w \in AllVars \ {v} : Own(w) =>
            /\ handle[w] \in Handles \ {h}
            /\ files'[handle[w]] = files[handle[w]]
      BY <2>5, <2>6, OwnFile
    <2>10. ASSUME Own(v)
           PROVE  attached[v] \in Names => Complete(disk[attached[v]], ideal[attached[v]])
      <3>1. files[handle[v]].file.mode = "none"
        BY <2>4, <2>10, NullStream DEF Own
      <3>2. Holds(files[handle[v]].file, readAhead[handle[v]], buffer[v],
                  disk[files[handle[v]].name], ideal[attached[v]], taken[v])
        BY <2>2, <2>10 DEF Contents, StreamsHold
      <3>3. attached[v] \in Names => attached[v] = files[handle[v]].name
        BY <2>2, <2>10 DEF Contents, Attached, DiskNames
      <3>4. QED  BY <3>1, <3>2, <3>3 DEF Holds
    <2>11. ASSUME NEW m \in Names, \A w \in AllVars \ {v} : Own(w) => attached[w] # m
           PROVE  Complete(disk[m], ideal[m])
      BY <2>10, <2>11 DEF Contents, RestHolds
    <2>12. IdealType' /\ Standard'
      <3>1. files'[0] = files[0] /\ files'[1] = files[1] /\ handle'[Output] = handle[Output]
        BY <2>2, <2>5, <2>6, <2>7, ZeroIsHandle DEF AllVars
      <3>2. QED  BY <2>3, <3>1 DEF Contents, IdealType, Standard
    <2>13. Attached'
      <3>1. ASSUME NEW w \in AllVars, Own(w)'
            PROVE  \/ attached'[w] = files'[handle'[w]].name /\ attached'[w] \in Names
                   \/ attached'[w] = w /\ w \in Unnamed /\ files'[handle'[w]].name \in TempNames
        <4>1. CASE w = v
          BY <2>6, <2>7, <4>1
        <4>2. CASE w # v
          BY <2>7, <2>8, <2>9, <3>1, <4>2 DEF Contents, Attached
        <4>3. QED  BY <4>1, <4>2
      <3>2. QED  BY <3>1 DEF Attached
    <2>14. Apart'
      <3>1. ASSUME NEW u \in AllVars, NEW w \in AllVars, Own(u)', Own(w)', u # w
            PROVE  attached'[u] # attached'[w]
        <4>1. CASE u = v \/ w = v
          BY <2>4, <2>7, <3>1, <4>1
        <4>2. CASE u # v /\ w # v
          BY <2>7, <2>8, <3>1, <4>2 DEF Contents, Apart
        <4>3. QED  BY <4>1, <4>2
      <3>2. QED  BY <3>1 DEF Apart
    <2>15. StreamsHold'
      <3>1. ASSUME NEW w \in AllVars, Own(w)'
            PROVE  Holds(files'[handle'[w]].file, readAhead'[handle'[w]], buffer'[w],
                         disk'[files'[handle'[w]].name], ideal'[attached'[w]], taken'[w])
        <4>1. CASE w = v
          <5>1. Complete(disk[name], ideal[name])
            BY <2>4, <2>11
          <5>2. files'[handle'[w]].file = NULL /\ files'[handle'[w]].name = name /\ attached'[w] = name
            BY <2>6, <2>7, <4>1
          <5>3. QED  BY <2>3, <5>1, <5>2, NullStream DEF Holds
        <4>2. CASE w # v
          <5>1. Own(w) /\ handle'[w] = handle[w] /\ attached'[w] = attached[w] /\ taken'[w] = taken[w]
            BY <2>7, <2>8, <3>1, <4>2
          <5>2. files'[handle[w]] = files[handle[w]] /\ readAhead'[handle[w]] = readAhead[handle[w]]
            BY <2>7, <2>9, <4>2, <5>1
          <5>3. Holds(files[handle[w]].file, readAhead[handle[w]], buffer[w],
                      disk[files[handle[w]].name], ideal[attached[w]], taken[w])
            BY <5>1 DEF Contents, StreamsHold
          <5>4. QED  BY <2>3, <5>1, <5>2, <5>3
        <4>3. QED  BY <4>1, <4>2
      <3>2. QED  BY <3>1 DEF StreamsHold
    <2>16. RestHolds'
      <3>1. ASSUME NEW m \in Names, \A w \in AllVars : Own(w)' => attached'[w] # m
            PROVE  Complete(disk'[m], ideal'[m])
        <4>1. \A w \in AllVars \ {v} : Own(w) => attached[w] # m
          BY <2>7, <2>8, <3>1
        <4>2. QED  BY <2>3, <2>11, <4>1
      <3>2. ASSUME NEW w \in Unnamed, handle'[w] = 0
            PROVE  ideal'[w] = <<>> /\ \A m \in TempNames : disk'[m] = Absent
        <4>1. w \in AllVars \ {v}
          BY <2>5, <2>7, <3>2, FileTableAssumption DEF AllVars
        <4>2. handle[w] = 0
          BY <2>7, <3>2, <4>1
        <4>3. QED  BY <2>3, <4>2 DEF Contents, RestHolds
      <3>3. QED  BY <3>1, <3>2 DEF RestHolds
    <2>17. QED  BY <2>12, <2>13, <2>14, <2>15, <2>16 DEF Contents
  <1>3. QED  BY <1>1, <1>2

LEMMA InitContents ==
  ASSUME Init
  PROVE  Contents
  <1>1. handle = [v \in AllVars |-> IF v = Output THEN 1 ELSE 0] /\ Output \in AllVars
    BY DEF Init, AllVars
  <1>2. \A v \in AllVars : ~Own(v)
    BY <1>1 DEF Own
  <1>3. /\ disk = [n \in DiskNames |-> Absent]
        /\ ideal = [n \in DiskNames \cup AllVars |-> <<>>]
    BY DEF Init
  <1>4. IdealType
    <2>1. <<>> \in Seq(Records)
      OBVIOUS
    <2>2. QED  BY <1>3, <2>1 DEF IdealType
  <1>5. Standard
    <2>1. files[0].file = Stream("stdin", 0, <<>>) /\ files[1].file = Stream("stdout", 0, <<>>)
      BY ZeroIsHandle DEF Init
    <2>2. handle[Output] = 1
      BY <1>1
    <2>3. QED  BY <2>1, <2>2 DEF Standard, Stream, OnDisk
  <1>6. Attached /\ Apart /\ StreamsHold
    BY <1>2 DEF Attached, Apart, StreamsHold
  <1>7. RestHolds
    <2>1. Names \subseteq DiskNames /\ TempNames \subseteq DiskNames /\ Unnamed \subseteq AllVars
      BY FileTableAssumption DEF DiskNames, AllVars
    <2>2. QED  BY <1>3, <2>1 DEF RestHolds, Complete
  <1>8. QED  BY <1>4, <1>5, <1>6, <1>7 DEF Contents

LEMMA StepContents ==
  ASSUME Tidy, IInv, Contents, [Next]_vars
  PROVE  Contents'
  <1>1. ASSUME NEW v \in Vars, NEW name \in Names, Assign(v, name)
        PROVE  Contents'
    BY <1>1, AssignHolds
  <1>2. ASSUME NEW v \in Vars \cup Unnamed,
               Reset(v) \/ Rewrite(v) \/ AppendTo(v) \/ Close(v) \/ Get(v)
        PROVE  Contents'
    BY <1>2, ResetHolds, RewriteHolds, AppendHolds, CloseHolds, GetHolds
  <1>3. ASSUME NEW v \in Vars \cup Unnamed, NEW x \in Values, Put(v, x)
        PROVE  Contents'
    BY <1>3, PutHolds
  <1>4. CASE UNCHANGED vars
    BY <1>4, ExitHolds DEF vars
  <1>5. QED  BY <1>1, <1>2, <1>3, <1>4 DEF Next

LEMMA ContentsInvariant ==
  ASSUME Tidy
  PROVE  Spec => []Contents
  <1>1. Init => Contents
    BY InitContents
  <1>2. IInv /\ Contents /\ [Next]_vars => Contents'
    BY StepContents
  <1>3. QED  BY <1>1, <1>2, Invariant, PTL DEF Spec

(* In a tidy program a variable that is open for reading has before it     *)
(* exactly the records that were put into its file and not yet taken, for  *)
(* any number of files, any buffer of the C library, and any history of    *)
(* opening, appending, closing and leaving open (getput.c, fileio.c).      *)
THEOREM ReadersGetWhatWasWritten ==
  ASSUME Tidy
  PROVE  Spec => []ReadsWhatWasWritten
  <1>1. ASSUME Contents, NEW v \in AllVars, handle[v] # 0, files[handle[v]].file.mode = "r"
        PROVE  Unread(v) = SubSeq(ideal[attached[v]], taken[v] + 1, Len(ideal[attached[v]]))
    <2>1. Own(v)
      BY <1>1 DEF Contents, Standard, Own
    <2>2. Holds(files[handle[v]].file, readAhead[handle[v]], buffer[v],
                disk[files[handle[v]].name], ideal[attached[v]], taken[v])
      BY <1>1, <2>1 DEF Contents, StreamsHold
    <2>3. QED  BY <1>1, <2>2 DEF Holds, Unread
  <1>2. Contents => ReadsWhatWasWritten
    BY <1>1 DEF ReadsWhatWasWritten
  <1>3. QED  BY <1>2, ContentsInvariant, PTL

(* In a tidy program the file of a variable that is not open has on disk   *)
(* all that was put into it: close and every open of a variable that still *)
(* has a stream write what its buffer holds (fileio.c).                    *)
THEOREM NothingIsLeftInABuffer ==
  ASSUME Tidy
  PROVE  Spec => []ClosedFilesAreComplete
  <1>1. ASSUME Contents, NEW v \in AllVars, handle[v] # 0, ~IsOpen(handle[v]),
               disk[files[handle[v]].name] # Absent
        PROVE  disk[files[handle[v]].name] = ideal[attached[v]]
    <2>1. files[handle[v]].file = NULL
      BY <1>1 DEF IsOpen
    <2>2. Own(v)
      BY <1>1, <2>1, NullStream DEF Contents, Standard, Own
    <2>3. Holds(files[handle[v]].file, readAhead[handle[v]], buffer[v],
                disk[files[handle[v]].name], ideal[attached[v]], taken[v])
      BY <1>1, <2>2 DEF Contents, StreamsHold
    <2>4. QED  BY <1>1, <2>1, <2>3, NullStream DEF Holds, Complete
  <1>2. Contents => ClosedFilesAreComplete
    BY <1>1 DEF ClosedFilesAreComplete
  <1>3. QED  BY <1>2, ContentsInvariant, PTL

(* So what goes wrong with temporary files (the run                        *)
(* file_table_temporaries) takes two variables that are opened without a   *)
(* name: the temporary of a program that has one is read back as written.  *)
THEOREM OneTemporaryIsReadBack ==
  ASSUME Tidy
  PROVE  Spec => []TemporariesAreSeparate
  <1>1. Unnamed \subseteq AllVars
    BY FileTableAssumption DEF AllVars
  <1>2. ReadsWhatWasWritten => TemporariesAreSeparate
    BY <1>1 DEF ReadsWhatWasWritten, TemporariesAreSeparate
  <1>3. QED  BY <1>2, ReadersGetWhatWasWritten, PTL
=============================================================================
