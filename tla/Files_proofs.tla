---------------------------- MODULE Files_proofs ----------------------------
(***************************************************************************)
(* The files of a table: for any number of files, statements and failures  *)
(* they are whole whatever a loss of power leaves, and rows are never      *)
(* without their schema; for any set of schemas and any number of edits    *)
(* the schema file means the schema it was written for; and any table is   *)
(* read back from the text it is written as, which is proved along the     *)
(* text: field by field, line by line.                                     *)
(***************************************************************************)
EXTENDS PowerLoss, MCSchemaFile, MCCsvText, SequenceTheorems, FiniteSetTheorems,
        WellFoundedInduction, TLAPS

(* The two files under loss of power. *)

\* What the files are, and that a file is synced before it is renamed.
FilesType ==
    /\ dir \in disk /\ disk \subseteq [Name -> 0 .. NumInodes]
    /\ synced \subseteq Inode
    /\ DOMAIN content = Inode
    /\ job \in File
    /\ count \in Nat /\ (pc # "idle" => count # 0)
    /\ pc \in {"write", "sync", "rename"} => Tmp # 0
    /\ pc \in {"sync", "rename"} => content[Tmp] # Torn
    /\ pc = "rename" => Tmp \in synced

\* In every directory a failure may leave, a file under its own name is whole
\* and on the disk,
Safe == \A d \in disk, f \in File : d[f] # 0 => d[f] \in synced /\ content[d[f]] # Torn

\* no file is under two names,
Apart(d) == \A f, g \in File : d[TmpOf[f]] # 0 =>
                d[g] # d[TmpOf[f]] /\ (f # g => d[TmpOf[g]] # d[TmpOf[f]])

\* and a file that may be overwritten is under its own name in none.
Private == \A d \in disk, f, g \in File : dir[TmpOf[f]] # 0 => d[g] # dir[TmpOf[f]]

Sound == FilesType /\ Safe /\ (\A d \in disk : Apart(d)) /\ Private

LEMMA TmpNames == /\ TmpOf["schema"] = "schema.tmp" /\ TmpOf["csv"] = "csv.tmp"
                  /\ "schema" # "schema.tmp" /\ "csv" # "csv.tmp" /\ "csv" # "schema.tmp"
                  /\ "schema" # "csv.tmp" /\ "csv.tmp" # "schema.tmp" /\ "csv" # "schema"
                  /\ Name = {"schema", "csv", "schema.tmp", "csv.tmp"}
  BY DEF TmpOf, Name, File

LEMMA InitSound == Init => Sound
<1> SUFFICES ASSUME Init PROVE Sound OBVIOUS
<1>1. dir \in [Name -> 0 .. NumInodes] /\ \A n \in Name : dir[n] = 0
  BY BoundsAssumption DEF Init
<1>2. disk = {dir} BY DEF Init
<1>3. FilesType BY <1>1, <1>2 DEF Init, FilesType, File
<1>4. \A f \in File : dir[f] = 0 /\ dir[TmpOf[f]] = 0 BY <1>1, TmpNames DEF File
<1> QED BY <1>2, <1>3, <1>4 DEF Sound, Safe, Private, Apart

\* Adding a directory that has some of the names of the present one.
LEMMA Removing ==
    ASSUME Sound, NEW d \in [Name -> 0 .. NumInodes], \A n \in Name : d[n] \in {0, dir[n]},
           Changed(d), UNCHANGED <<content, synced, job, count>>,
           pc # "idle", pc' \in {"idle", "undo", "drop schema"}
    PROVE  Sound'
<1> USE TmpNames DEF File
<1>1. FilesType' BY DEF Sound, FilesType, Changed
<1>2. Safe' BY DEF Sound, FilesType, Safe, Changed
<1>3. \A e \in disk' : Apart(e)
  <2>1. Apart(dir) BY DEF Sound, FilesType
  <2>2. Apart(d) BY ZenonT(60), <2>1 DEF Apart
  <2> QED BY <2>2 DEF Sound, Changed
<1>4. Private'
  <2>1. Apart(dir) BY DEF Sound, FilesType
  <2>2. \A f, g \in File : d[TmpOf[f]] # 0 => d[g] # d[TmpOf[f]] BY <2>1 DEF Apart
  <2> QED BY ZenonT(60), <2>2 DEF Sound, Private, Changed
<1> QED BY <1>1, <1>2, <1>3, <1>4 DEF Sound

LEMMA OpenTmpSound == Sound /\ OpenTmp => Sound'
<1> SUFFICES ASSUME Sound, OpenTmp PROVE Sound' OBVIOUS
<1> USE TmpNames
<1>1. PICK i \in IF Tmp # 0 THEN {Tmp} ELSE IF Unused = {} THEN {} ELSE {CHOOSE u \in Unused : TRUE} :
        /\ content' = [content EXCEPT ![i] = Torn] /\ synced' = synced \ {i}
        /\ Changed([dir EXCEPT ![TmpOf[job]] = i])
  BY DEF OpenTmp
<1> DEFINE d == [dir EXCEPT ![TmpOf[job]] = i]
<1>2. dir \in [Name -> 0 .. NumInodes] /\ job \in File /\ TmpOf[job] \in Name
  BY DEF Sound, FilesType, File
<1>3. i \in Inode /\ i # 0
  <2>1. CASE Tmp # 0 BY <1>1, <1>2, <2>1 DEF Tmp, Inode
  <2>2. CASE Tmp = 0 BY <1>1, <2>2 DEF Unused, Inode
  <2> QED BY <2>1, <2>2
\* Nothing else has the file.
<1>4. \A e \in disk, g \in File : e[g] # i
  <2>1. CASE Tmp # 0 BY <1>1, <1>2, <2>1 DEF Sound, Private, Tmp
  <2>2. CASE Tmp = 0
    <3>1. i \in Unused BY <1>1, <2>2
    <3> QED BY <3>1 DEF Unused, File
  <2> QED BY <2>1, <2>2
<1>5. \A g \in File : g # job => dir[TmpOf[g]] # i
  <2>1. CASE Tmp # 0
    <3>1. i = dir[TmpOf[job]] BY <1>1, <2>1 DEF Tmp
    <3>2. Apart(dir) BY DEF Sound, FilesType
    <3> QED BY <1>2, <2>1, <3>1, <3>2 DEF Apart, Tmp
  <2>2. CASE Tmp = 0
    <3>1. i \in Unused BY <1>1, <2>2
    <3>2. \A n \in Name : dir[n] # i BY <3>1 DEF Unused, Sound, FilesType
    <3> QED BY <3>2 DEF File
  <2> QED BY <2>1, <2>2
<1>6. d \in [Name -> 0 .. NumInodes] /\ d[TmpOf[job]] = i
  BY <1>2, <1>3 DEF Inode
<1>7. /\ \A g \in File : d[g] = dir[g]
      /\ \A g \in File : g # job => d[TmpOf[g]] = dir[TmpOf[g]]
  BY <1>2 DEF File
<1>8. dir' = d /\ disk' = disk \cup {d} /\ job' = job /\ pc' = "write" /\ count' = count /\ pc = "open"
  BY <1>1 DEF OpenTmp, Changed, Goto
<1> HIDE DEF d
<1>9. FilesType'
  BY <1>1, <1>3, <1>6, <1>8 DEF Sound, FilesType, Tmp
<1>10. Safe'
  <2>1. \A f \in File : d[f] # 0 => d[f] \in synced /\ content[d[f]] # Torn
    BY <1>7 DEF Sound, Safe, FilesType
  <2>2. \A e \in disk', f \in File : e[f] # 0 => e[f] \in synced /\ content[e[f]] # Torn /\ e[f] # i
    BY <1>4, <1>7, <1>8, <2>1 DEF Sound, Safe, FilesType
  <2> QED BY <1>1, <2>2 DEF Safe, Sound, FilesType
<1>11. Apart(d)
  <2>1. Apart(dir) BY DEF Sound, FilesType
  <2>2. \A g \in File : dir[g] # i BY <1>4 DEF Sound, FilesType
  <2> QED BY <1>2, <1>5, <1>6, <1>7, <2>1, <2>2 DEF Apart
<1>12. Private'
  <2>1. \A e \in disk, f, g \in File : d[TmpOf[f]] # 0 => e[g] # d[TmpOf[f]]
    BY <1>4, <1>6, <1>7 DEF Sound, Private
  <2> QED BY <1>8, <1>11, <2>1 DEF Private, Apart
<1> QED BY <1>8, <1>9, <1>10, <1>11, <1>12 DEF Sound

LEMMA RenameSound == Sound /\ Rename => Sound'
<1> SUFFICES ASSUME Sound, Rename PROVE Sound' OBVIOUS
<1> USE TmpNames
<1> DEFINE d == [dir EXCEPT ![job] = Tmp, ![TmpOf[job]] = 0]
<1>1. dir \in [Name -> 0 .. NumInodes] /\ job \in File /\ job \in Name /\ TmpOf[job] \in Name
      /\ TmpOf[job] # job /\ Tmp = dir[TmpOf[job]] /\ Tmp # 0 /\ Tmp \in synced /\ content[Tmp] # Torn
  BY DEF Sound, FilesType, File, Rename, Tmp
<1>2. /\ dir' = d /\ disk' = disk \cup {d} /\ content' = content /\ synced' = synced
      /\ job' \in File /\ count' = count /\ pc' \in {"open", "idle"} /\ pc = "rename"
  BY <1>1 DEF Rename, Changed, Goto, File
<1>3. d \in [Name -> 0 .. NumInodes]
  <2>1. Tmp \in 0 .. NumInodes /\ 0 \in 0 .. NumInodes BY <1>1, BoundsAssumption
  <2> HIDE DEF Tmp
  <2> QED BY <1>1, <2>1
<1>4. d[job] = Tmp /\ d[TmpOf[job]] = 0 BY <1>1
<1>5. \A g \in File : g # job => d[g] = dir[g] /\ d[TmpOf[g]] = dir[TmpOf[g]] BY <1>1 DEF File
<1> HIDE DEF d
<1>6. FilesType' BY <1>2, <1>3 DEF Sound, FilesType
<1>7. Safe' BY <1>1, <1>2, <1>4, <1>5 DEF Sound, Safe, FilesType
<1>8. Apart(dir) BY DEF Sound, FilesType
<1>9. Apart(d) BY <1>1, <1>4, <1>5, <1>8 DEF Apart
<1>10. Private'
  <2>1. \A e \in disk, f, g \in File : d[TmpOf[f]] # 0 => e[g] # d[TmpOf[f]]
    BY <1>4, <1>5 DEF Sound, Private
  <2> QED BY <1>2, <1>9, <2>1 DEF Private, Apart
<1> QED BY <1>2, <1>6, <1>7, <1>9, <1>10 DEF Sound

LEMMA PowerFailureSound == Sound /\ PowerFailure => Sound'
<1> SUFFICES ASSUME Sound, PowerFailure PROVE Sound' OBVIOUS
<1>1. PICK d \in disk : dir' = d /\ disk' = {d} BY DEF PowerFailure
<1>2. PICK lost \in SUBSET (Inode \ synced) :
        content' = [i \in Inode |-> IF i \in lost THEN Torn ELSE content[i]]
  BY DEF PowerFailure
<1>3. synced' = Inode /\ pc' = "idle" /\ job' = job /\ count' = count BY DEF PowerFailure
<1>4. FilesType' BY <1>1, <1>2, <1>3 DEF Sound, FilesType
<1>5. Safe' BY <1>1, <1>2, <1>3 DEF Sound, Safe, FilesType
<1>6. Apart(d) BY DEF Sound
<1>7. Private' BY <1>1, <1>6 DEF Private, Apart
<1> QED BY <1>1, <1>4, <1>5, <1>6, <1>7 DEF Sound

\* What a step leaves alone: the directories, or all but their number.
LEMMA SameFilesSound ==
    ASSUME Sound, FilesType', dir' = dir, disk' \subseteq disk, synced \subseteq synced',
           \A d \in disk, f \in File : d[f] # 0 => content'[d[f]] = content[d[f]]
    PROVE  Sound'
  BY DEF Sound, Safe, Private

LEMMA StepSound == Sound /\ [Next]_vars => Sound'
<1> SUFFICES ASSUME Sound, [Next]_vars PROVE Sound' OBVIOUS
<1> USE TmpNames
<1>1. CASE OpenTmp BY <1>1, OpenTmpSound
<1>2. CASE WriteTmp
  <2>1. /\ pc = "write" /\ pc' = "sync" /\ content' = [content EXCEPT ![Tmp] = Written]
        /\ UNCHANGED <<dir, disk, synced, job, count>>
    BY <1>2 DEF WriteTmp, Goto
  <2>2. Written # Torn
    <3>1. Written.statement # Torn.statement BY <2>1 DEF Written, Torn, Sound, FilesType
    <3> QED BY <3>1
  <2>3. dir \in [Name -> 0 .. NumInodes] /\ job \in File /\ Tmp # 0 /\ Tmp = dir[TmpOf[job]] /\ Tmp \in Inode
    BY <2>1 DEF Sound, FilesType, Tmp, Inode, File
  <2>4. FilesType' BY <2>1, <2>2, <2>3 DEF Sound, FilesType, Tmp
  <2>5. \A d \in disk, f \in File : d[f] # Tmp BY <2>3 DEF Sound, Private
  <2>6. \A d \in disk, f \in File : d[f] # 0 => content'[d[f]] = content[d[f]]
    BY <2>1, <2>5 DEF Sound, Safe, FilesType
  <2> QED BY <2>1, <2>4, <2>6, SameFilesSound
<1>3. CASE SyncTmp
  <2>1. /\ pc = "sync" /\ pc' = "rename" /\ synced' = synced \cup {Tmp}
        /\ UNCHANGED <<dir, disk, content, job, count>>
    BY <1>3 DEF SyncTmp, Goto
  <2>2. Tmp \in Inode /\ Tmp' = Tmp BY <2>1 DEF Sound, FilesType, Tmp, Inode, File
  <2>3. FilesType' BY <2>1, <2>2 DEF Sound, FilesType
  <2> QED BY <2>1, <2>3, SameFilesSound
<1>4. CASE Rename BY <1>4, RenameSound
<1>5. CASE WriteError
  <2>1. UNCHANGED <<content, synced, job, count>> /\ pc' \in {"idle", "undo"} /\ pc # "idle"
    <3>1. pc' = IF op = "CREATE" /\ job = "csv" THEN "undo" ELSE "idle"
      BY <1>5 DEF WriteError, Goto
    <3> QED BY <1>5, <3>1 DEF WriteError, Goto
  <2>2. dir \in [Name -> 0 .. NumInodes] /\ TmpOf[job] \in Name /\ 0 \in 0 .. NumInodes
    BY BoundsAssumption DEF Sound, FilesType, File
  <2>3. CASE UNCHANGED <<dir, disk>>
    <3>1. pc' \notin {"write", "sync", "rename"} BY <2>1
    <3>2. count \in Nat /\ count # 0 BY <2>1 DEF Sound, FilesType
    <3>3. FilesType' BY <2>1, <2>3, <3>1, <3>2 DEF Sound, FilesType
    <3> QED BY <2>1, <2>3, <3>3, SameFilesSound
  <2>4. CASE Changed([dir EXCEPT ![TmpOf[job]] = 0])
    <3> DEFINE d == [dir EXCEPT ![TmpOf[job]] = 0]
    <3>1. d \in [Name -> 0 .. NumInodes] /\ \A n \in Name : d[n] \in {0, dir[n]} BY <2>2
    <3>2. Changed(d) BY <2>4
    <3> HIDE DEF d
    <3> QED BY <2>1, <3>1, <3>2, Removing
  <2> QED BY <1>5, <2>3, <2>4 DEF WriteError
<1>12. CASE Undo
  <2>1. UNCHANGED <<content, synced, job, count>> /\ pc' = "idle" /\ pc # "idle"
    BY <1>12 DEF Undo, Goto
  <2>2. CASE UNCHANGED <<dir, disk>>
    <3>1. FilesType' BY <2>1, <2>2 DEF Sound, FilesType
    <3> QED BY <2>1, <2>2, <3>1, SameFilesSound
  <2>3. CASE Changed([dir EXCEPT !["schema"] = 0])
    <3> DEFINE d == [dir EXCEPT !["schema"] = 0]
    <3>1. d \in [Name -> 0 .. NumInodes] /\ \A n \in Name : d[n] \in {0, dir[n]}
      BY BoundsAssumption DEF Sound, FilesType, File
    <3>2. Changed(d) BY <2>3
    <3> HIDE DEF d
    <3> QED BY <2>1, <3>1, <3>2, Removing
  <2> QED BY <1>12, <2>2, <2>3 DEF Undo
<1>6. CASE Create \/ Rewrite \/ Drop
  <2>1. /\ UNCHANGED <<dir, disk, content, synced>> /\ count' = count + 1 /\ job' \in File
        /\ pc' \in {"open", "drop csv"}
    BY <1>6 DEF Create, Rewrite, Drop, Begin, File, files
  <2>2. count' \in Nat /\ count' # 0
    <3>1. count \in Nat /\ count' = count + 1 BY <2>1 DEF Sound, FilesType
    <3>2. \A k \in Nat : k + 1 \in Nat /\ k + 1 # 0 OBVIOUS
    <3> QED BY <3>1, <3>2
  <2>3. pc' \notin {"write", "sync", "rename"} BY <2>1
  <2>4. FilesType' BY <2>1, <2>2, <2>3 DEF Sound, FilesType
  <2> QED BY <2>1, <2>4, SameFilesSound
<1>7. CASE DropFiles
  <2>1. PICK f \in File : Changed([dir EXCEPT ![f] = 0]) BY <1>7 DEF DropFiles, File
  <2>2. UNCHANGED <<content, synced, job, count>> /\ pc' \in {"idle", "drop schema"} /\ pc # "idle"
    BY <1>7 DEF DropFiles, Goto
  <2> DEFINE d == [dir EXCEPT ![f] = 0]
  <2>3. d \in [Name -> 0 .. NumInodes] /\ \A n \in Name : d[n] \in {0, dir[n]}
    BY BoundsAssumption DEF Sound, FilesType, File
  <2>4. Changed(d) BY <2>1
  <2> HIDE DEF d
  <2> QED BY <2>2, <2>3, <2>4, Removing
<1>8. CASE DropError
  <2>1. UNCHANGED files /\ UNCHANGED <<job, count>> /\ pc' = "idle" BY <1>8 DEF DropError, Goto
  <2>2. FilesType' BY <2>1 DEF Sound, FilesType, files
  <2> QED BY <2>1, <2>2, SameFilesSound DEF files
<1>9. CASE WriteBack
  <2>1. disk' = {dir} /\ UNCHANGED <<dir, content, synced, pc, job, count>> BY <1>9 DEF WriteBack
  <2>2. FilesType' BY <2>1 DEF Sound, FilesType, Tmp
  <2>3. disk' \subseteq disk BY <2>1 DEF Sound, FilesType
  <2> QED BY <2>1, <2>2, <2>3, SameFilesSound
<1>10. CASE PowerFailure BY <1>10, PowerFailureSound
<1>11. CASE UNCHANGED vars
  <2>1. UNCHANGED <<dir, disk, content, synced, pc, job, count>> BY <1>11 DEF vars
  <2>2. FilesType' BY <2>1 DEF Sound, FilesType, Tmp
  <2> QED BY <2>1, <2>2, SameFilesSound
<1> QED BY <1>1, <1>2, <1>3, <1>4, <1>5, <1>6, <1>7, <1>8, <1>9, <1>10, <1>11, <1>12 DEF Next

\* A file under its own name is whole at every moment, also after losses of
\* power: the fsync before the rename, and the temporary file that is never
\* the one a directory on the disk still has under the table's name
\* (write_file_atomic, storage_write).
THEOREM FilesAreWhole == Spec => []WholeFiles
<1>1. Sound => WholeFiles BY DEF Sound, FilesType, Safe, WholeFiles
<1> QED BY <1>1, InitSound, StepSound, PTL DEF Spec
-----------------------------------------------------------------------------
(* Rows have their schema. *)

Matching(data, d) == d["csv"] # 0 =>
    d["schema"] # 0 /\ data[d["csv"]].table = data[d["schema"]].table

Saving == pc \in {"open", "write", "sync", "rename"}

\* Every directory a failure may leave has the schema of its rows: a table
\* that is not listed has no rows, a CREATE has made its schema before it
\* makes its rows, and a DROP has removed the rows before the schema.
Ordered ==
    /\ \A d \in disk : Matching(content, d)
    /\ IF listed THEN dir["schema"] # 0 ELSE dir["csv"] = 0
    /\ pc = "drop schema" => dir["csv"] = 0
    /\ pc = "undo" => ~ listed
    /\ Saving => \/ op = "CREATE" /\ ~ listed
                 \/ op = "WRITE" /\ listed /\ job = "csv"
    /\ Saving /\ op = "CREATE" /\ job = "csv" =>
         dir["schema"] # 0 /\ content[dir["schema"]].table = count
    /\ pc \in {"sync", "rename"} =>
         content[Tmp].table = IF job = "schema" THEN count ELSE content[dir["schema"]].table

\* The file that is opened for writing is under its own name nowhere.
LEMMA OpenedIsPrivate ==
    ASSUME Sound, OpenTmp
    PROVE  \E i \in Inode : /\ content' = [content EXCEPT ![i] = Torn]
                            /\ Changed([dir EXCEPT ![TmpOf[job]] = i])
                            /\ \A d \in disk, f \in File : d[f] # i
<1>1. PICK i \in IF Tmp # 0 THEN {Tmp} ELSE IF Unused = {} THEN {} ELSE {CHOOSE u \in Unused : TRUE} :
        content' = [content EXCEPT ![i] = Torn] /\ Changed([dir EXCEPT ![TmpOf[job]] = i])
  BY DEF OpenTmp
<1>2. dir \in [Name -> 0 .. NumInodes] /\ job \in File /\ TmpOf[job] \in Name
  BY TmpNames DEF Sound, FilesType, File
<1>3. CASE Tmp # 0
  <2>1. i = Tmp /\ i \in Inode BY <1>1, <1>2, <1>3 DEF Tmp, Inode
  <2>2. \A d \in disk, f \in File : d[f] # i BY <1>2, <1>3, <2>1 DEF Sound, Private, Tmp
  <2> QED BY <1>1, <2>1, <2>2
<1>4. CASE Tmp = 0
  <2>1. i \in Unused BY <1>1, <1>4
  <2>2. i \in Inode /\ \A d \in disk, f \in File : d[f] # i BY <2>1, TmpNames DEF Unused, File
  <2> QED BY <1>1, <2>2
<1> QED BY <1>3, <1>4

\* No step changes a file that a directory has under its own name.
LEMMA OwnFilesStay ==
    ASSUME Sound, [Next]_vars
    PROVE  \A d \in disk, f \in File : d[f] # 0 => content'[d[f]] = content[d[f]]
<1>1. CASE OpenTmp
  <2>1. PICK i \in Inode : /\ content' = [content EXCEPT ![i] = Torn]
                           /\ \A d \in disk, f \in File : d[f] # i
    BY <1>1, OpenedIsPrivate
  <2> QED BY <2>1 DEF Sound, Safe, FilesType
<1>2. CASE WriteTmp
  <2>1. content' = [content EXCEPT ![Tmp] = Written] /\ Tmp # 0
    BY <1>2 DEF WriteTmp, Sound, FilesType
  <2>2. \A d \in disk, f \in File : d[f] # Tmp BY <2>1 DEF Sound, FilesType, Private, Tmp
  <2> QED BY <2>1, <2>2 DEF Sound, Safe, FilesType
<1>3. CASE PowerFailure
  <2>1. PICK lost \in SUBSET (Inode \ synced) :
          content' = [i \in Inode |-> IF i \in lost THEN Torn ELSE content[i]]
    BY <1>3 DEF PowerFailure
  <2> QED BY <2>1 DEF Sound, Safe, FilesType
<1>4. CASE content' = content BY <1>4
<1> QED
  BY <1>1, <1>2, <1>3, <1>4 DEF Next, SyncTmp, Rename, WriteError, Undo, Create, Rewrite, Drop, Begin, files,
     DropFiles, DropError, WriteBack, vars

LEMMA InitOrdered == Init => Ordered
<1> SUFFICES ASSUME Init PROVE Ordered OBVIOUS
<1>1. dir["csv"] = 0 /\ disk = {dir} /\ ~ listed /\ pc = "idle"
  BY TmpNames DEF Init
<1> QED BY <1>1 DEF Ordered, Matching, Saving

\* What was written stays matched, in the directories there were.
LEMMA MatchingStays ==
    ASSUME Sound, Ordered, [Next]_vars
    PROVE  \A d \in disk : Matching(content', d)
  BY OwnFilesStay DEF Ordered, Matching, File

\* So it does in a new directory d that is as the present one but for the
\* temporary names, or has no rows.
LEMMA MatchingInNew ==
    ASSUME Sound, Ordered, [Next]_vars, NEW d, Changed(d),
           (d["csv"] = 0) \/ (d["csv"] = dir["csv"] /\ d["schema"] = dir["schema"])
    PROVE  \A e \in disk' : Matching(content', e)
<1>1. Matching(content', dir) BY MatchingStays DEF Sound, FilesType
<1>2. Matching(content', d) BY <1>1 DEF Matching
<1> QED BY <1>2, MatchingStays DEF Changed

LEMMA OpenTmpOrdered == Sound /\ Ordered /\ OpenTmp => Ordered'
<1> SUFFICES ASSUME Sound, Ordered, OpenTmp PROVE Ordered' OBVIOUS
<1>1. PICK i \in Inode : /\ content' = [content EXCEPT ![i] = Torn]
                         /\ Changed([dir EXCEPT ![TmpOf[job]] = i])
                         /\ \A d \in disk, f \in File : d[f] # i
  BY OpenedIsPrivate
<1> DEFINE d == [dir EXCEPT ![TmpOf[job]] = i]
<1>2. dir \in [Name -> 0 .. NumInodes] /\ job \in File /\ dir \in disk /\ DOMAIN content = Inode
  BY DEF Sound, FilesType
<1>3. d["csv"] = dir["csv"] /\ d["schema"] = dir["schema"] BY <1>2, TmpNames DEF File
<1>4. Changed(d) BY <1>1
<1> HIDE DEF d
<1>5. \A e \in disk' : Matching(content', e) BY <1>3, <1>4, MatchingInNew DEF Next
<1>6. dir' = d /\ pc = "open" /\ pc' = "write" /\ UNCHANGED <<op, count, listed, job>>
  BY <1>4 DEF OpenTmp, Goto, Changed
<1>7. dir["schema"] # 0 => content'[dir["schema"]] = content[dir["schema"]]
  BY <1>1, <1>2 DEF Sound, Safe, FilesType, File
<1> QED BY <1>3, <1>5, <1>6, <1>7 DEF Ordered, Saving

LEMMA WriteTmpOrdered == Sound /\ Ordered /\ WriteTmp => Ordered'
<1> SUFFICES ASSUME Sound, Ordered, WriteTmp PROVE Ordered' OBVIOUS
<1>1. /\ content' = [content EXCEPT ![Tmp] = Written] /\ pc = "write" /\ pc' = "sync"
      /\ UNCHANGED <<op, count, dir, disk, listed, job>>
  BY DEF WriteTmp, Goto
<1>2. Tmp \in Inode /\ Tmp # 0 /\ dir \in disk /\ DOMAIN content = Inode /\ job \in File
  BY <1>1, TmpNames DEF Sound, FilesType, Tmp, Inode, File
<1>3. \A e \in disk' : Matching(content', e) BY <1>1, MatchingStays DEF Next
<1>4. dir["schema"] # 0 => content'[dir["schema"]] = content[dir["schema"]]
  BY <1>2, OwnFilesStay DEF Next, File
<1>5. Tmp' = Tmp /\ content'[Tmp].table = Written.table BY <1>1, <1>2 DEF Tmp
<1>6. Written.table = IF op = "CREATE" THEN count ELSE content[dir["schema"]].table
  BY DEF Written
<1>7. dir["schema"] # 0 \/ (job = "schema" /\ op = "CREATE")
  BY <1>1, <1>2 DEF Ordered, Saving, File
<1>8. content'[Tmp].table = IF job = "schema" THEN count ELSE content'[dir["schema"]].table
  BY <1>1, <1>2, <1>4, <1>5, <1>6, <1>7 DEF Ordered, Saving, File
<1> QED BY <1>1, <1>3, <1>4, <1>5, <1>7, <1>8 DEF Ordered, Saving, Tmp

LEMMA RenameOrdered == Sound /\ Ordered /\ Rename => Ordered'
<1> SUFFICES ASSUME Sound, Ordered, Rename PROVE Ordered' OBVIOUS
<1> DEFINE d == [dir EXCEPT ![job] = Tmp, ![TmpOf[job]] = 0]
<1>1. dir \in [Name -> 0 .. NumInodes] /\ job \in File /\ TmpOf[job] \in Name /\ Tmp # 0 /\ pc = "rename"
  BY TmpNames DEF Sound, FilesType, File, Rename
<1>2. d["schema"] = (IF job = "schema" THEN Tmp ELSE dir["schema"])
      /\ d["csv"] = IF job = "schema" THEN dir["csv"] ELSE Tmp
  BY <1>1, TmpNames DEF File
<1>3. dir' = d /\ disk' = disk \cup {d} /\ content' = content BY DEF Rename, Changed
<1> HIDE DEF d
<1>4. \A e \in disk : Matching(content', e) BY MatchingStays DEF Next
<1>5. CASE op = "CREATE" /\ job = "schema"
  <2>1. pc' = "open" /\ op' = "CREATE" /\ count' = count /\ job' = "csv" /\ listed' = listed /\ ~ listed
    BY <1>1, <1>5 DEF Rename, Goto, Ordered, Saving
  <2>2. d["csv"] = 0 BY <1>2, <1>5, <2>1 DEF Ordered
  <2>3. content[Tmp].table = count BY <1>1, <1>5 DEF Ordered
  <2> QED BY <1>1, <1>2, <1>3, <1>4, <1>5, <2>1, <2>2, <2>3 DEF Ordered, Saving, Matching
<1>6. CASE ~ (op = "CREATE" /\ job = "schema")
  <2>1. pc' = "idle" /\ listed' = TRUE /\ job = "csv"
    BY <1>1, <1>6 DEF Rename, Goto, Ordered, Saving, File
  <2>2. dir["schema"] # 0 /\ content[Tmp].table = content[dir["schema"]].table
    BY <1>1, <2>1 DEF Ordered, Saving
  <2> QED BY <1>2, <1>3, <1>4, <2>1, <2>2 DEF Ordered, Saving, Matching
<1> QED BY <1>5, <1>6

LEMMA OrderedStep == Sound /\ Ordered /\ [Next]_vars => Ordered'
<1> SUFFICES ASSUME Sound, Ordered, [Next]_vars PROVE Ordered' OBVIOUS
<1> USE TmpNames
<1>a. dir \in [Name -> 0 .. NumInodes] /\ job \in File /\ dir \in disk BY DEF Sound, FilesType
<1>1. CASE OpenTmp BY <1>1, OpenTmpOrdered
<1>2. CASE WriteTmp BY <1>2, WriteTmpOrdered
<1>3. CASE SyncTmp
  <2>1. /\ pc = "sync" /\ pc' = "rename" /\ UNCHANGED <<dir, disk, content, listed, job, op, count>>
    BY <1>3 DEF SyncTmp, Goto
  <2> QED BY <2>1 DEF Ordered, Saving, Tmp
<1>4. CASE Rename BY <1>4, RenameOrdered
<1>5. CASE WriteError
  <2>1. pc' = (IF op = "CREATE" /\ job = "csv" THEN "undo" ELSE "idle") /\ Saving /\ UNCHANGED <<content, listed>>
    BY <1>5 DEF WriteError, Goto, Saving
  <2>2. pc' \in {"idle", "undo"} /\ (pc' = "undo" => ~ listed') BY <2>1 DEF Ordered
  <2>3. CASE UNCHANGED <<dir, disk>> BY <2>1, <2>2, <2>3 DEF Ordered, Saving
  <2>4. CASE Changed([dir EXCEPT ![TmpOf[job]] = 0])
    <3> DEFINE d == [dir EXCEPT ![TmpOf[job]] = 0]
    <3>1. d["csv"] = dir["csv"] /\ d["schema"] = dir["schema"] BY <1>a DEF File
    <3>2. Changed(d) BY <2>4
    <3> HIDE DEF d
    <3>3. \A e \in disk' : Matching(content', e) BY <3>1, <3>2, MatchingInNew
    <3> QED BY <2>1, <2>2, <3>1, <3>2, <3>3 DEF Ordered, Saving, Changed
  <2> QED BY <1>5, <2>3, <2>4 DEF WriteError
<1>12. CASE Undo
  <2>1. pc = "undo" /\ pc' = "idle" /\ UNCHANGED <<content, listed>> BY <1>12 DEF Undo, Goto
  <2>2. CASE UNCHANGED <<dir, disk>> BY <2>1, <2>2 DEF Ordered, Saving
  <2>3. CASE Changed([dir EXCEPT !["schema"] = 0])
    <3> DEFINE d == [dir EXCEPT !["schema"] = 0]
    <3>1. d["csv"] = dir["csv"] BY <1>a DEF File
    <3>2. dir["csv"] = 0 /\ ~ listed BY <2>1 DEF Ordered
    <3>3. Changed(d) BY <2>3
    <3> HIDE DEF d
    <3>4. \A e \in disk' : Matching(content', e) BY <3>1, <3>2, <3>3, MatchingInNew
    <3> QED BY <2>1, <3>1, <3>2, <3>3, <3>4 DEF Ordered, Saving, Changed
  <2> QED BY <1>12, <2>2, <2>3 DEF Undo
<1>6. CASE Create \/ Rewrite \/ Drop
  <2>1. UNCHANGED <<dir, disk, content, listed>> BY <1>6 DEF Create, Rewrite, Drop, Begin, files
  <2>2. \/ op' = "CREATE" /\ ~ listed /\ pc' = "open" /\ job' = "schema"
        \/ op' = "WRITE" /\ listed /\ pc' = "open" /\ job' = "csv"
        \/ pc' = "drop csv"
    BY <1>6 DEF Create, Rewrite, Drop, Begin
  <2> QED BY <2>1, <2>2 DEF Ordered, Saving
<1>7. CASE DropFiles
  <2> DEFINE f == IF pc = "drop csv" THEN "csv" ELSE "schema"
             d == [dir EXCEPT ![f] = 0]
  <2>1. Changed(d) /\ content' = content BY <1>7 DEF DropFiles
  <2>2. /\ d["csv"] = IF pc = "drop csv" THEN 0 ELSE dir["csv"]
        /\ d["schema"] = IF pc = "drop csv" THEN dir["schema"] ELSE 0
    BY <1>a
  <2>3. d["csv"] = 0 BY <1>7, <2>2 DEF DropFiles, Ordered
  <2>4. \/ pc = "drop csv" /\ pc' = "drop schema" /\ listed' = listed
        \/ pc = "drop schema" /\ pc' = "idle" /\ listed' = FALSE
    BY <1>7 DEF DropFiles, Goto
  <2> HIDE DEF d
  <2>5. \A e \in disk' : Matching(content', e) BY <2>1, <2>3, MatchingInNew
  <2>6. dir' = d BY <2>1 DEF Changed
  <2> HIDE DEF f
  <2>7. CASE pc = "drop csv"
    <3>1. dir'["csv"] = 0 /\ dir'["schema"] = dir["schema"] BY <2>2, <2>3, <2>6, <2>7
    <3>2. pc' = "drop schema" /\ listed' = listed BY <2>4, <2>7
    <3> QED BY <2>5, <3>1, <3>2 DEF Ordered, Saving
  <2>8. CASE pc = "drop schema"
    BY <1>7, <2>2, <2>3, <2>4, <2>5, <2>6, <2>8 DEF Ordered, Saving
  <2> QED BY <2>4, <2>7, <2>8
<1>8. CASE DropError
  <2>1. UNCHANGED <<dir, disk, content, listed>> /\ pc' = "idle" BY <1>8 DEF DropError, Goto, files
  <2> QED BY <2>1 DEF Ordered, Saving
<1>9. CASE WriteBack
  <2>1. disk' = {dir} /\ UNCHANGED <<dir, content, listed, pc, op, job, count>> BY <1>9 DEF WriteBack
  <2> QED BY <1>a, <2>1 DEF Ordered, Saving, Tmp
<1>10. CASE PowerFailure
  <2>1. PICK d \in disk : dir' = d /\ disk' = {d} /\ listed' = (d["schema"] # 0) BY <1>10 DEF PowerFailure
  <2>2. Matching(content', d) BY MatchingStays
  <2>3. pc' = "idle" BY <1>10 DEF PowerFailure
  <2> QED BY <2>1, <2>2, <2>3 DEF Ordered, Saving, Matching
<1>11. CASE UNCHANGED vars BY <1>11 DEF vars, Ordered, Saving, Tmp
<1> QED BY <1>1, <1>2, <1>3, <1>4, <1>5, <1>6, <1>7, <1>8, <1>9, <1>10, <1>11, <1>12 DEF Next

\* A table's rows are never without the schema they were written for, also
\* after losses of power: rows come after their schema and go before it, and
\* a new schema is only made for a table that has no rows
\* (catalog_create_table, catalog_drop_table).
THEOREM RowsKeepTheirSchema == Spec => []RowsHaveTheirSchema
<1>1. Sound /\ Ordered => RowsHaveTheirSchema
  BY DEF Sound, FilesType, Ordered, Matching, RowsHaveTheirSchema
<1> QED BY <1>1, InitSound, StepSound, InitOrdered, OrderedStep, PTL DEF Spec
-----------------------------------------------------------------------------
(* The document of a schema, as it was written. *)

\* The members of the object of a column.
LEMMA MembersOfColumn ==
    ASSUME NEW c \in SchemaColumn
    PROVE  /\ Member(ColumnToJson(c), "name") = Text(c.name)
           /\ Member(ColumnToJson(c), "type") = Text(c.type)
           /\ Member(ColumnToJson(c), "nullable") = Truth(c.nullable)
           /\ Member(ColumnToJson(c), "primary_key") = Truth(c.primaryKey)
           /\ Member(ColumnToJson(c), "foreign_key") = IF c.fk = NoReference THEN Absent ELSE Reference(c.fk)
  <1>1. CASE c.fk = NoReference
    BY <1>1 DEF ColumnToJson, Object, Member
  <1>2. CASE c.fk # NoReference
    BY <1>2 DEF ColumnToJson, Object, Member
  <1> QED BY <1>1, <1>2

\* The members of a column that refers to another.
LEMMA MembersOfReference ==
    ASSUME NEW fk
    PROVE  /\ Member(Reference(fk), "table") = Text(fk.table)
           /\ Member(Reference(fk), "column") = Text(fk.column)
           /\ Reference(fk).kind = "object"
  BY DEF Reference, Object, Member

\* A column object is read without an error.
LEMMA ColumnIsColumn ==
    ASSUME NEW c \in SchemaColumn, c.name # EmptyName
    PROVE  IsColumn(ColumnToJson(c))
  <1> DEFINE item == ColumnToJson(c)
  <1>1. /\ Member(item, "name") = Text(c.name)
        /\ Member(item, "type") = Text(c.type)
        /\ Member(item, "nullable") = Truth(c.nullable)
        /\ Member(item, "primary_key") = Truth(c.primaryKey)
        /\ Member(item, "foreign_key") = IF c.fk = NoReference THEN Absent ELSE Reference(c.fk)
    BY MembersOfColumn
  <1>2. c.type \in Types
    BY DEF SchemaColumn
  <1> HIDE DEF item
  <1>3. /\ IsText(Member(item, "name")) /\ Member(item, "name").v # EmptyName
        /\ IsText(Member(item, "type")) /\ Member(item, "type").v \in Types
    BY <1>1, <1>2 DEF IsText, Text
  <1>4. /\ Member(item, "nullable").kind = "boolean"
        /\ Member(item, "primary_key").kind = "boolean"
    BY <1>1 DEF Truth
  <1>5. Member(item, "foreign_key").kind # "absent" =>
           /\ IsText(Member(Member(item, "foreign_key"), "table"))
           /\ IsText(Member(Member(item, "foreign_key"), "column"))
    <2>1. CASE c.fk = NoReference
      BY <1>1, <2>1 DEF Absent
    <2>2. CASE c.fk # NoReference
      <3>1. Member(item, "foreign_key") = Reference(c.fk)
        BY <1>1, <2>2
      <3>2. /\ Member(Reference(c.fk), "table") = Text(c.fk.table)
            /\ Member(Reference(c.fk), "column") = Text(c.fk.column)
        BY MembersOfReference
      <3> QED BY <3>1, <3>2 DEF IsText, Text
    <2> QED BY <2>1, <2>2
  <1>6. IsColumn(item)
    BY <1>3, <1>4, <1>5 DEF IsColumn
  <1> QED BY <1>6 DEF item

\* A column is read back as it was written.
LEMMA ColumnReadBack ==
    ASSUME NEW c \in SchemaColumn
    PROVE  Column(ColumnToJson(c)) = c
  <1> DEFINE item == ColumnToJson(c)
             fk == Member(item, "foreign_key")
             reference == IF fk.kind = "absent" THEN NoReference
                          ELSE [table |-> Member(fk, "table").v, column |-> Member(fk, "column").v]
  <1>1. reference = c.fk
    <2>1. CASE c.fk = NoReference
      <3>1. fk = Absent
        BY <2>1, MembersOfColumn
      <3> QED BY <2>1, <3>1 DEF Absent
    <2>2. CASE c.fk # NoReference
      <3>1. fk = Reference(c.fk)
        BY <2>2, MembersOfColumn
      <3>2. /\ Member(Reference(c.fk), "table") = Text(c.fk.table)
            /\ Member(Reference(c.fk), "column") = Text(c.fk.column)
            /\ Reference(c.fk).kind = "object"
        BY MembersOfReference
      <3>3. c.fk = [table |-> c.fk.table, column |-> c.fk.column]
        BY <2>2 DEF SchemaColumn
      <3> HIDE DEF fk
      <3> QED BY <3>1, <3>2, <3>3 DEF Text
    <2> QED BY <2>1, <2>2
  <1>2. /\ Member(item, "name").v = c.name
        /\ Member(item, "type").v = c.type
        /\ Flag(Member(item, "nullable"), TRUE) = c.nullable
        /\ Flag(Member(item, "primary_key"), FALSE) = c.primaryKey
    <2>1. c.nullable \in BOOLEAN /\ c.primaryKey \in BOOLEAN
      BY DEF SchemaColumn
    <2>2. /\ Member(item, "name") = Text(c.name)
          /\ Member(item, "type") = Text(c.type)
          /\ Member(item, "nullable") = Truth(c.nullable)
          /\ Member(item, "primary_key") = Truth(c.primaryKey)
      BY MembersOfColumn
    <2> HIDE DEF item
    <2>3. \A b \in BOOLEAN : /\ Flag(Truth(b), TRUE) = b
                            /\ Flag(Truth(b), FALSE) = b
      BY DEF Flag, Truth
    <2>4. \A t : Text(t).v = t
      BY DEF Text
    <2> QED BY <2>1, <2>2, <2>3, <2>4
  <1>3. Column(item) = [name |-> Member(item, "name").v, type |-> Member(item, "type").v,
                        nullable |-> Flag(Member(item, "nullable"), TRUE),
                        primaryKey |-> Flag(Member(item, "primary_key"), FALSE),
                        fk |-> reference]
    BY DEF Column
  <1>4. c = [name |-> c.name, type |-> c.type, nullable |-> c.nullable,
             primaryKey |-> c.primaryKey, fk |-> c.fk]
    BY DEF SchemaColumn
  <1> HIDE DEF item, reference
  <1>5. Column(item) = c
    BY <1>1, <1>2, <1>3, <1>4
  <1> QED BY <1>5 DEF item

\* A table that CREATE TABLE made can be loaded, and is the table it made
\* (catalog_create_table writes schema_to_json_string of a schema that passed
\* schema_validate; catalog_get_schema reads it with schema_parse_json).
THEOREM CreatedTablesLoad ==
    ASSUME NEW s \in AnySchema, Validates(s)
    PROVE  ParseSchema(SchemaToJson(s)) = s
  <1> DEFINE file == SchemaToJson(s)
             read == [i \in DOMAIN s.columns |-> Column(ColumnToJson(s.columns[i]))]
  <1>1. /\ s.columns \in Seq(SchemaColumn)
        /\ \A i \in DOMAIN s.columns : s.columns[i] \in SchemaColumn /\ s.columns[i].name # EmptyName
    BY IdentifiersAssumption DEF AnySchema, Validates
  <1>2. \A i \in DOMAIN s.columns : IsColumn(ColumnToJson(s.columns[i]))
    BY <1>1, ColumnIsColumn
  <1>3. read = s.columns
    <2>1. \A i \in DOMAIN s.columns : Column(ColumnToJson(s.columns[i])) = s.columns[i]
      BY <1>1, ColumnReadBack
    <2> QED BY <1>1, <2>1
  <1>4. /\ Member(file, "name") = Text(s.name)
        /\ Member(file, "columns") = Array([i \in DOMAIN s.columns |-> ColumnToJson(s.columns[i])])
    BY DEF SchemaToJson, Object, Member
  <1>5. s.name # EmptyName
    BY IdentifiersAssumption DEF Validates
  <1>6. s = [name |-> s.name, columns |-> s.columns]
    BY DEF AnySchema
  <1> QED
    BY <1>2, <1>3, <1>4, <1>5, <1>6 DEF ParseSchema, Text, Array, IsText
-----------------------------------------------------------------------------
(* Documents that were edited. *)

\* The members of part c without those dropped, with those retyped.
LeftOf(c, members, D, R) ==
    Object([m \in {n \in DOMAIN members : <<c, n>> \notin D} |->
               IF <<c, m>> \in R THEN Number ELSE members[m]])
ColumnsOf(s, D, R) == [i \in DOMAIN s.columns |-> LeftOf(i, ColumnToJson(s.columns[i]).v, D, R)]
MembersOf(s, D, R) == [name |-> Text(s.name), columns |-> Array(ColumnsOf(s, D, R))]
DocOf(s, D, R) == LeftOf(0, MembersOf(s, D, R), D, R)

\* The members there are to be edited.
HasMember(s, e) ==
    \/ e[1] = 0 /\ e[2] \in {"name", "columns"}
    \/ e[1] \in DOMAIN s.columns /\ e[2] \in DOMAIN ColumnToJson(s.columns[e[1]]).v

EditsOf(s, D, R) == D \cap R = {} /\ \A e \in D \cup R : e = <<e[1], e[2]>> /\ HasMember(s, e)

DocOK == /\ schema \in Schemas
         /\ \/ doc = DocOf(schema, dropped, retyped) /\ EditsOf(schema, dropped, retyped)
            \/ doc = Malformed /\ retyped # {}

LEMMA LeftIs ==
    ASSUME NEW c, NEW members, NEW D, NEW R
    PROVE  /\ LeftOf(c, members, D, R).kind = "object"
           /\ DOMAIN LeftOf(c, members, D, R).v = {n \in DOMAIN members : <<c, n>> \notin D}
           /\ \A m \in DOMAIN members : <<c, m>> \notin D =>
                 LeftOf(c, members, D, R).v[m] = IF <<c, m>> \in R THEN Number ELSE members[m]
BY DEF LeftOf, Object

\* An edit of one part leaves the others alone.
LEMMA OtherPart ==
    ASSUME NEW c, NEW members, NEW D, NEW E, NEW R, NEW Q,
           \A n : (<<c, n>> \in D <=> <<c, n>> \in E) /\ (<<c, n>> \in R <=> <<c, n>> \in Q)
    PROVE  LeftOf(c, members, D, R) = LeftOf(c, members, E, Q)
<1>1. {n \in DOMAIN members : <<c, n>> \notin D} = {n \in DOMAIN members : <<c, n>> \notin E}
    OBVIOUS
<1>2. QED
    BY <1>1 DEF LeftOf

LEMMA LeaveOut ==
    ASSUME NEW c, NEW members, NEW D, NEW R, NEW m
    PROVE  Object([n \in DOMAIN LeftOf(c, members, D, R).v \ {m} |-> LeftOf(c, members, D, R).v[n]])
           = LeftOf(c, members, D \cup {<<c, m>>}, R)
<1>1. DOMAIN LeftOf(c, members, D, R).v \ {m} = {n \in DOMAIN members : <<c, n>> \notin D \cup {<<c, m>>}}
    <2>1. \A n : <<c, n>> \in D \cup {<<c, m>>} <=> <<c, n>> \in D \/ n = m
        OBVIOUS
    <2>2. QED
        BY <2>1, LeftIs
<1>2. \A n \in DOMAIN LeftOf(c, members, D, R).v \ {m} :
         LeftOf(c, members, D, R).v[n] = IF <<c, n>> \in R THEN Number ELSE members[n]
    BY LeftIs
<1>3. [n \in DOMAIN LeftOf(c, members, D, R).v \ {m} |-> LeftOf(c, members, D, R).v[n]]
      = [n \in {n \in DOMAIN members : <<c, n>> \notin D \cup {<<c, m>>}} |->
            IF <<c, n>> \in R THEN Number ELSE members[n]]
    BY <1>1, <1>2
<1>4. QED
    BY <1>3 DEF LeftOf

LEMMA MakeNumber ==
    ASSUME NEW c, NEW members, NEW D, NEW R, NEW m \in DOMAIN LeftOf(c, members, D, R).v
    PROVE  Object([LeftOf(c, members, D, R).v EXCEPT ![m] = Number])
           = LeftOf(c, members, D, R \cup {<<c, m>>})
<1>1. \A n : <<c, n>> \in R \cup {<<c, m>>} <=> <<c, n>> \in R \/ n = m
    OBVIOUS
<1> DEFINE Left == {n \in DOMAIN members : <<c, n>> \notin D}
           f == [n \in Left |-> IF <<c, n>> \in R THEN Number ELSE members[n]]
           g == [n \in Left |-> IF <<c, n>> \in R \cup {<<c, m>>} THEN Number ELSE members[n]]
<1>2. [f EXCEPT ![m] = Number] = g
    BY <1>1
<1>3. LeftOf(c, members, D, R).v = f /\ LeftOf(c, members, D, R \cup {<<c, m>>}) = Object(g)
    BY DEF LeftOf, Object
<1>4. QED
    BY <1>2, <1>3

\* Columns are numbered from 1.
LEMMA ColumnsAre ==
    ASSUME NEW s \in AnySchema
    PROVE  /\ DOMAIN s.columns = 1 .. Len(s.columns) /\ 0 \notin DOMAIN s.columns
           /\ \A i \in DOMAIN s.columns : s.columns[i] \in SchemaColumn
<1>1. s.columns \in Seq(SchemaColumn)
    BY DEF AnySchema
<1>2. QED
    BY <1>1

LEMMA OtherColumns ==
    ASSUME NEW s \in AnySchema, NEW D, NEW E, NEW R, NEW Q,
           \A i \in DOMAIN s.columns : \A n :
              (<<i, n>> \in D <=> <<i, n>> \in E) /\ (<<i, n>> \in R <=> <<i, n>> \in Q)
    PROVE  MembersOf(s, D, R) = MembersOf(s, E, Q)
<1>1. \A i \in DOMAIN s.columns : \A members : LeftOf(i, members, D, R) = LeftOf(i, members, E, Q)
    BY OtherPart
<1>2. ColumnsOf(s, D, R) = ColumnsOf(s, E, Q)
    BY <1>1 DEF ColumnsOf
<1>3. QED
    BY <1>2 DEF MembersOf

\* What the table's object holds.
LEMMA TableMembers ==
    ASSUME NEW s, NEW D, NEW R
    PROVE  /\ DocOf(s, D, R).kind = "object"
           /\ Member(DocOf(s, D, R), "name") = IF <<0, "name">> \in D THEN Absent
                                               ELSE IF <<0, "name">> \in R THEN Number ELSE Text(s.name)
           /\ Member(DocOf(s, D, R), "columns") = IF <<0, "columns">> \in D THEN Absent
                                                  ELSE IF <<0, "columns">> \in R THEN Number
                                                  ELSE Array(ColumnsOf(s, D, R))
<1> DEFINE M == MembersOf(s, D, R)
<1>1. DOMAIN M = {"name", "columns"} /\ M["name"] = Text(s.name) /\ M["columns"] = Array(ColumnsOf(s, D, R))
    BY DEF MembersOf
<1> HIDE DEF M
<1>2. /\ DocOf(s, D, R) = LeftOf(0, M, D, R)
      /\ LeftOf(0, M, D, R).kind = "object"
      /\ DOMAIN LeftOf(0, M, D, R).v = {n \in DOMAIN M : <<0, n>> \notin D}
      /\ \A m \in DOMAIN M : <<0, m>> \notin D =>
            LeftOf(0, M, D, R).v[m] = IF <<0, m>> \in R THEN Number ELSE M[m]
    BY LeftIs DEF DocOf, M
<1>3. QED
    BY <1>1, <1>2 DEF Member

\* The edits of no other part than c changed.
OnlyIn(c, s, D, R, E, Q) ==
    \A i \in {0} \cup DOMAIN s.columns : i # c =>
        \A n : (<<i, n>> \in D <=> <<i, n>> \in E) /\ (<<i, n>> \in R <=> <<i, n>> \in Q)

\* Putting an edited column in its place.
WithColumn(d, c, object) == Object([d.v EXCEPT !["columns"] = Array([@.v EXCEPT ![c] = object])])

LEMMA PutColumn ==
    ASSUME NEW s \in AnySchema, NEW D, NEW E, NEW R, NEW Q, NEW c \in DOMAIN s.columns,
           <<0, "columns">> \notin D \cup R, OnlyIn(c, s, D, R, E, Q),
           NEW d, d = DocOf(s, D, R),
           NEW new, new = LeftOf(c, ColumnToJson(s.columns[c]).v, E, Q)
    PROVE  WithColumn(d, c, new) = DocOf(s, E, Q)
<1>0. c # 0
      /\ (\A n : (<<0, n>> \in D <=> <<0, n>> \in E) /\ (<<0, n>> \in R <=> <<0, n>> \in Q))
      /\ \A i \in DOMAIN s.columns \ {c} : \A n :
              (<<i, n>> \in D <=> <<i, n>> \in E) /\ (<<i, n>> \in R <=> <<i, n>> \in Q)
    BY ColumnsAre DEF OnlyIn
<1> DEFINE M == MembersOf(s, D, R)
           N == MembersOf(s, E, Q)
           Left == {n \in {"name", "columns"} : <<0, n>> \notin D}
           f == [n \in Left |-> IF <<0, n>> \in R THEN Number ELSE M[n]]
           g == [n \in Left |-> IF <<0, n>> \in R THEN Number ELSE N[n]]
           C == ColumnsOf(s, D, R)
<1>1. ColumnsOf(s, E, Q) = [C EXCEPT ![c] = new]
    <2>1. \A i \in DOMAIN s.columns \ {c} : \A members : LeftOf(i, members, D, R) = LeftOf(i, members, E, Q)
        BY <1>0, OtherPart
    <2>2. QED
        BY <2>1 DEF ColumnsOf
<1>2. DOMAIN M = {"name", "columns"} /\ DOMAIN N = {"name", "columns"}
    BY DEF MembersOf
<1>3. d = Object(f)
    <2>1. DocOf(s, D, R) = LeftOf(0, M, D, R)
        BY DEF DocOf
    <2>2. LeftOf(0, M, D, R) = Object([n \in {n \in DOMAIN M : <<0, n>> \notin D} |->
                                          IF <<0, n>> \in R THEN Number ELSE M[n]])
        BY DEF LeftOf
    <2> HIDE DEF M
    <2>3. QED
        BY <1>2, <2>1, <2>2
<1>4. DocOf(s, E, Q) = Object(g)
    <2>1. DocOf(s, E, Q) = LeftOf(0, N, E, Q)
        BY DEF DocOf
    <2>2. LeftOf(0, N, E, Q) = LeftOf(0, N, D, R)
        BY <1>0, OtherPart
    <2>3. LeftOf(0, N, D, R) = Object([n \in {n \in DOMAIN N : <<0, n>> \notin D} |->
                                          IF <<0, n>> \in R THEN Number ELSE N[n]])
        BY DEF LeftOf
    <2> HIDE DEF N
    <2>4. QED
        BY <1>2, <2>1, <2>2, <2>3
<1>5. /\ M["columns"] = Array(C) /\ N["columns"] = Array([C EXCEPT ![c] = new])
      /\ M["name"] = N["name"]
    BY <1>1 DEF MembersOf
<1> HIDE DEF M, N, C
<1>6. Array(C).v = C
    BY DEF Array
<1>7. "columns" \in Left /\ <<0, "columns">> \notin R
    OBVIOUS
<1>8. [f EXCEPT !["columns"] = Array([C EXCEPT ![c] = new])] = g
    <2>1. \A n \in Left : n # "columns" => f[n] = g[n]
        BY <1>5
    <2>2. g["columns"] = Array([C EXCEPT ![c] = new])
        BY <1>5, <1>7
    <2>3. g = [n \in Left |-> g[n]] /\ f = [n \in Left |-> f[n]]
        OBVIOUS
    <2> HIDE DEF f, g, Left
    <2>4. QED
        BY <1>7, <2>1, <2>2, <2>3
<1>9. f["columns"] = Array(C)
    BY <1>5, <1>7
<1> HIDE DEF f, g
<1>10. d.v = f
    BY <1>3 DEF Object
<1>11. QED
    BY <1>4, <1>6, <1>8, <1>9, <1>10 DEF WithColumn

\* The part an edit can reach is what is left of its members.
LEMMA EditableParts ==
    ASSUME DocOK, NEW c \in Editable
    PROVE  /\ doc = DocOf(schema, dropped, retyped) /\ EditsOf(schema, dropped, retyped)
           /\ schema \in AnySchema
           /\ \/ c = 0 /\ Part(c) = LeftOf(0, MembersOf(schema, dropped, retyped), dropped, retyped)
              \/ /\ c \in DOMAIN schema.columns /\ c # 0 /\ <<0, "columns">> \notin dropped \cup retyped
                 /\ Part(c) = LeftOf(c, ColumnToJson(schema.columns[c]).v, dropped, retyped)
<1>1. schema \in AnySchema
    BY SchemasAssumption DEF DocOK
<1>2. doc # Malformed
    <2> SUFFICES ASSUME doc = Malformed PROVE FALSE
        OBVIOUS
    <2>1. Editable = {}
        BY DEF Editable, Malformed, Member, Absent
    <2>2. QED
        BY <2>1
<1>3. doc = DocOf(schema, dropped, retyped) /\ EditsOf(schema, dropped, retyped)
    BY <1>2 DEF DocOK
<1>4. CASE c = 0
    BY <1>1, <1>3, <1>4 DEF Part, DocOf
<1>5. CASE c # 0
    <2>1. doc.kind = "object"
        BY <1>3, TableMembers
    <2>2. Member(doc, "columns").kind = "array" /\ c \in DOMAIN schema.columns
        BY <1>5, <2>1 DEF Editable
    <2>3. <<0, "columns">> \notin dropped \cup retyped /\ Member(doc, "columns") = Array(ColumnsOf(schema, dropped, retyped))
        BY <1>3, <2>2, TableMembers DEF Absent, Number
    <2>4. doc.v["columns"] = Array(ColumnsOf(schema, dropped, retyped))
        <3>1. Member(doc, "columns") = doc.v["columns"]
            BY <2>2 DEF Member, Absent
        <3>2. QED
            BY <2>3, <3>1
    <2>5. Part(c) = LeftOf(c, ColumnToJson(schema.columns[c]).v, dropped, retyped)
        BY <1>5, <2>2, <2>4 DEF Part, Array, ColumnsOf
    <2>6. QED
        BY <1>1, <1>3, <1>5, <2>2, <2>3, <2>5
<1>6. QED
    BY <1>4, <1>5

\* The document that nobody edited.
LEMMA NothingLeftOut ==
    ASSUME NEW c, NEW members, members = [m \in DOMAIN members |-> members[m]]
    PROVE  LeftOf(c, members, {}, {}) = Object(members)
<1>1. {n \in DOMAIN members : <<c, n>> \notin {}} = DOMAIN members
    OBVIOUS
<1>2. LeftOf(c, members, {}, {}) = Object([m \in DOMAIN members |-> members[m]])
    BY <1>1 DEF LeftOf
<1>3. QED
    BY <1>2

LEMMA InitDoc ==
    ASSUME NEW s \in AnySchema
    PROVE  DocOf(s, {}, {}) = SchemaToJson(s)
<1>1. \A i \in DOMAIN s.columns : ColumnsOf(s, {}, {})[i] = ColumnToJson(s.columns[i])
    <2> SUFFICES ASSUME NEW i \in DOMAIN s.columns
                 PROVE  LeftOf(i, ColumnToJson(s.columns[i]).v, {}, {}) = ColumnToJson(s.columns[i])
        BY DEF ColumnsOf
    <2> DEFINE c == s.columns[i]
               v == ColumnToJson(c).v
    <2>1. v = [m \in DOMAIN v |-> v[m]] /\ ColumnToJson(c) = Object(v)
        BY DEF ColumnToJson, Object
    <2> HIDE DEF v
    <2>2. LeftOf(i, v, {}, {}) = Object(v)
        BY <2>1, NothingLeftOut
    <2>3. QED
        BY <2>1, <2>2 DEF v
<1>2. ColumnsOf(s, {}, {}) = [i \in DOMAIN s.columns |-> ColumnToJson(s.columns[i])]
    BY <1>1 DEF ColumnsOf
<1> DEFINE M == MembersOf(s, {}, {})
<1>3. M = [m \in DOMAIN M |-> M[m]]
    BY DEF MembersOf
<1>4. SchemaToJson(s) = Object(M)
    BY <1>2 DEF MembersOf, SchemaToJson
<1> HIDE DEF M
<1>5. LeftOf(0, M, {}, {}) = Object(M)
    BY <1>3, NothingLeftOut
<1>6. QED
    BY <1>4, <1>5 DEF DocOf, M

\* What Put makes of an edited part.
LEMMA PutPart ==
    ASSUME DocOK, NEW c \in Editable, NEW E, NEW Q, NEW object,
           \A i, n : i # c => /\ <<i, n>> \in dropped <=> <<i, n>> \in E
                              /\ <<i, n>> \in retyped <=> <<i, n>> \in Q,
           \A members : Part(c) = LeftOf(c, members, dropped, retyped) => object = LeftOf(c, members, E, Q)
    PROVE  Put(c, object) = DocOf(schema, E, Q)
<1>1. schema \in AnySchema /\ doc = DocOf(schema, dropped, retyped)
    BY EditableParts
<1>2. CASE c = 0
    <2>1. Part(c) = LeftOf(0, MembersOf(schema, dropped, retyped), dropped, retyped)
        BY <1>2, EditableParts
    <2>2. object = LeftOf(0, MembersOf(schema, dropped, retyped), E, Q)
        BY <1>2, <2>1
    <2>3. \A i \in DOMAIN schema.columns : \A n : /\ <<i, n>> \in dropped <=> <<i, n>> \in E
                                                  /\ <<i, n>> \in retyped <=> <<i, n>> \in Q
        BY <1>1, <1>2, ColumnsAre
    <2>4. MembersOf(schema, dropped, retyped) = MembersOf(schema, E, Q)
        BY <1>1, <2>3, OtherColumns
    <2>5. QED
        BY <1>2, <2>2, <2>4 DEF Put, DocOf
<1>3. CASE c # 0
    <2>1. /\ c \in DOMAIN schema.columns /\ <<0, "columns">> \notin dropped \cup retyped
          /\ Part(c) = LeftOf(c, ColumnToJson(schema.columns[c]).v, dropped, retyped)
        BY <1>3, EditableParts
    <2>2. object = LeftOf(c, ColumnToJson(schema.columns[c]).v, E, Q)
        BY <2>1
    <2>3. OnlyIn(c, schema, dropped, retyped, E, Q)
        BY DEF OnlyIn
    <2>5. PICK s, D, R : s = schema /\ D = dropped /\ R = retyped
        OBVIOUS
    <2>6. /\ s \in AnySchema /\ c \in DOMAIN s.columns
          /\ <<0, "columns">> \notin D \cup R /\ OnlyIn(c, s, D, R, E, Q)
          /\ doc = DocOf(s, D, R)
          /\ object = LeftOf(c, ColumnToJson(s.columns[c]).v, E, Q)
        BY <1>1, <2>1, <2>2, <2>3, <2>5
    <2>7. WithColumn(doc, c, object) = DocOf(s, E, Q)
        BY <2>6, PutColumn
    <2>8. QED
        BY <1>3, <2>5, <2>7 DEF Put, WithColumn
<1>4. QED
    BY <1>2, <1>3

\* A member that can be edited is one of the document.
LEMMA EditedMember ==
    ASSUME DocOK, NEW c \in Editable, NEW m \in DOMAIN Part(c).v
    PROVE  HasMember(schema, <<c, m>>) /\ <<c, m>> \notin dropped
<1>1. CASE c = 0
    <2>1. Part(c) = LeftOf(0, MembersOf(schema, dropped, retyped), dropped, retyped)
        BY <1>1, EditableParts
    <2>2. DOMAIN MembersOf(schema, dropped, retyped) = {"name", "columns"}
        BY DEF MembersOf
    <2>3. m \in {"name", "columns"} /\ <<0, m>> \notin dropped
        BY <2>1, <2>2, LeftIs
    <2>4. QED
        BY <1>1, <2>3 DEF HasMember
<1>2. CASE c # 0
    <2>1. /\ c \in DOMAIN schema.columns
          /\ Part(c) = LeftOf(c, ColumnToJson(schema.columns[c]).v, dropped, retyped)
        BY <1>2, EditableParts
    <2>2. m \in DOMAIN ColumnToJson(schema.columns[c]).v /\ <<c, m>> \notin dropped
        BY <2>1, LeftIs
    <2>3. QED
        BY <2>1, <2>2 DEF HasMember
<1>3. QED
    BY <1>1, <1>2

LEMMA DropOK ==
    ASSUME DocOK, DropMember
    PROVE  DocOK'
<1>1. PICK c \in Editable : \E m \in {m \in DOMAIN Part(c).v : <<c, m>> \notin retyped} :
         /\ doc' = Put(c, Object([n \in DOMAIN Part(c).v \ {m} |-> Part(c).v[n]]))
         /\ dropped' = dropped \cup {<<c, m>>}
    BY DEF DropMember
<1>2. PICK m \in {m \in DOMAIN Part(c).v : <<c, m>> \notin retyped} :
         /\ doc' = Put(c, Object([n \in DOMAIN Part(c).v \ {m} |-> Part(c).v[n]]))
         /\ dropped' = dropped \cup {<<c, m>>}
    BY <1>1
<1>3. PICK E : E = dropped \cup {<<c, m>>}
    OBVIOUS
<1>4. PICK object : object = Object([n \in DOMAIN Part(c).v \ {m} |-> Part(c).v[n]])
    OBVIOUS
<1>5. \A i, n : i # c => /\ <<i, n>> \in dropped <=> <<i, n>> \in E
                         /\ <<i, n>> \in retyped <=> <<i, n>> \in retyped
    BY <1>3
<1>6. \A members : Part(c) = LeftOf(c, members, dropped, retyped) => object = LeftOf(c, members, E, retyped)
    BY <1>3, <1>4, LeaveOut
<1>7. Put(c, object) = DocOf(schema, E, retyped)
    BY <1>5, <1>6, PutPart
<1>8. HasMember(schema, <<c, m>>) /\ EditsOf(schema, dropped, retyped)
    BY EditedMember, EditableParts
<1>9. EditsOf(schema, E, retyped)
    BY <1>2, <1>3, <1>8 DEF EditsOf
<1>10. doc' = DocOf(schema, E, retyped) /\ dropped' = E /\ schema' = schema /\ retyped' = retyped
    BY <1>2, <1>3, <1>4, <1>7 DEF DropMember
<1>11. QED
    BY <1>9, <1>10 DEF DocOK

LEMMA RetypeOK ==
    ASSUME DocOK, Retype
    PROVE  DocOK'
<1>1. PICK c \in Editable : \E m \in DOMAIN Part(c).v :
         /\ doc' = Put(c, Object([Part(c).v EXCEPT ![m] = Number]))
         /\ retyped' = retyped \cup {<<c, m>>}
    BY DEF Retype
<1>2. PICK m \in DOMAIN Part(c).v :
         /\ doc' = Put(c, Object([Part(c).v EXCEPT ![m] = Number]))
         /\ retyped' = retyped \cup {<<c, m>>}
    BY <1>1
<1>3. PICK Q : Q = retyped \cup {<<c, m>>}
    OBVIOUS
<1>4. PICK object : object = Object([Part(c).v EXCEPT ![m] = Number])
    OBVIOUS
<1>5. \A i, n : i # c => /\ <<i, n>> \in dropped <=> <<i, n>> \in dropped
                         /\ <<i, n>> \in retyped <=> <<i, n>> \in Q
    BY <1>3
<1>6. \A members : Part(c) = LeftOf(c, members, dropped, retyped) => object = LeftOf(c, members, dropped, Q)
    BY <1>2, <1>3, <1>4, MakeNumber
<1>7. Put(c, object) = DocOf(schema, dropped, Q)
    BY <1>5, <1>6, PutPart
<1>8. HasMember(schema, <<c, m>>) /\ <<c, m>> \notin dropped /\ EditsOf(schema, dropped, retyped)
    BY EditedMember, EditableParts
<1>9. EditsOf(schema, dropped, Q)
    BY <1>3, <1>8 DEF EditsOf
<1>10. doc' = DocOf(schema, dropped, Q) /\ retyped' = Q /\ schema' = schema /\ dropped' = dropped
    BY <1>2, <1>3, <1>4, <1>7 DEF Retype
<1>11. QED
    BY <1>9, <1>10 DEF DocOK

LEMMA DocStays == DocSpec => []DocOK
<1>1. DocInit => DocOK
    <2> SUFFICES ASSUME DocInit PROVE DocOK
        OBVIOUS
    <2>1. schema \in Schemas /\ schema \in AnySchema
        BY SchemasAssumption DEF DocInit
    <2>2. doc = DocOf(schema, {}, {}) /\ dropped = {} /\ retyped = {}
        BY <2>1, InitDoc DEF DocInit
    <2>3. QED
        BY <2>1, <2>2 DEF DocOK, EditsOf
<1>2. DocOK /\ [DocNext]_docVars => DocOK'
    <2> SUFFICES ASSUME DocOK, [DocNext]_docVars PROVE DocOK'
        OBVIOUS
    <2>1. CASE DropMember
        BY <2>1, DropOK
    <2>2. CASE Retype
        BY <2>2, RetypeOK
    <2>3. CASE Spoil
        BY <2>3 DEF Spoil, DocOK
    <2>4. CASE UNCHANGED docVars
        BY <2>4 DEF docVars, DocOK
    <2>5. QED
        BY <2>1, <2>2, <2>3, <2>4 DEF DocNext
<1>3. QED
    BY <1>1, <1>2, PTL DEF DocSpec
-----------------------------------------------------------------------------
(* The schemas that are valid. *)

LEMMA AllDiffer ==
    ASSUME NEW n \in Nat, NEW f, DOMAIN f = 1 .. n
    PROVE  Cardinality({f[i] : i \in 1 .. n}) = n <=> \A i, j \in 1 .. n : f[i] = f[j] => i = j
<1> DEFINE T == {f[i] : i \in 1 .. n}
           g == [i \in 1 .. n |-> f[i]]
<1>1. IsFiniteSet(1 .. n) /\ Cardinality(1 .. n) = n
    BY FS_Interval
<1>2. g \in Surjection(1 .. n, T)
    BY DEF Surjection
<1>3. Cardinality(T) = n <=> g \in Injection(1 .. n, T)
    <2> HIDE DEF T, g
    <2>1. QED
        BY <1>1, <1>2, FS_Surjection
<1>4. g \in Injection(1 .. n, T) <=> \A i, j \in 1 .. n : f[i] = f[j] => i = j
    <2>1. g \in [1 .. n -> T] /\ DOMAIN g = 1 .. n /\ \A i \in 1 .. n : g[i] = f[i]
        OBVIOUS
    <2> HIDE DEF T, g
    <2>2. QED
        BY <2>1 DEF Injection, IsInjective
<1>5. QED
    BY <1>3, <1>4

LEMMA AtMostOne ==
    ASSUME NEW n \in Nat, NEW K \in SUBSET (1 .. n)
    PROVE  Cardinality(K) <= 1 <=> \A i, j \in K : i = j
<1>1. IsFiniteSet(K)
    <2>1. IsFiniteSet(1 .. n)
        BY FS_Interval
    <2>2. QED
        BY <2>1, FS_Subset
<1>2. Cardinality(K) \in Nat
    BY <1>1, FS_CardinalityType
<1>3. Cardinality(K) = 0 <=> K = {}
    BY <1>1, FS_EmptySet
<1>4. Cardinality(K) = 1 <=> \E x : K = {x}
    BY <1>1, FS_Singleton
<1>5. (\A i, j \in K : i = j) <=> K = {} \/ \E x : K = {x}
    <2>1. ASSUME \A i, j \in K : i = j, NEW x \in K PROVE K = {x}
        BY <2>1
    <2>2. QED
        BY <2>1
<1>6. QED
    BY <1>2, <1>3, <1>4, <1>5

\* The schemas that schema_validate accepts are those the docs call valid.
LEMMA ValidIsProper ==
    ASSUME NEW s \in AnySchema
    PROVE  Validates(s) <=> Proper(s)
<1> DEFINE C == s.columns
           n == Len(C)
           names == {C[i].name : i \in DOMAIN C}
           refs == {C[i].fk : i \in DOMAIN C} \ {NoReference}
           keys == {i \in DOMAIN C : C[i].primaryKey}
           f == [i \in 1 .. n |-> C[i].name]
<1>1. n \in Nat /\ DOMAIN C = 1 .. n
    BY ColumnsAre DEF AnySchema
<1>2. Cardinality(names) = n <=> \A i, j \in DOMAIN C : C[i].name = C[j].name => i = j
    <2>1. names = {f[i] : i \in 1 .. n}
        BY <1>1
    <2>2. DOMAIN f = 1 .. n /\ \A i \in 1 .. n : f[i] = C[i].name
        OBVIOUS
    <2> HIDE DEF C, n, names, f
    <2>3. Cardinality({f[i] : i \in 1 .. n}) = n <=> \A i, j \in 1 .. n : f[i] = f[j] => i = j
        BY <1>1, <2>2, AllDiffer
    <2>4. QED
        BY <1>1, <2>1, <2>2, <2>3
<1>3. (\A i \in DOMAIN C : \A j \in 1 .. i - 1 : C[j].name # C[i].name)
      <=> \A i, j \in DOMAIN C : C[i].name = C[j].name => i = j
    <2> HIDE DEF C, n
    <2>1. ASSUME \A i \in DOMAIN C : \A j \in 1 .. i - 1 : C[j].name # C[i].name,
                 NEW i \in DOMAIN C, NEW j \in DOMAIN C, C[i].name = C[j].name
          PROVE  i = j
        <3>1. i \notin 1 .. j - 1 /\ j \notin 1 .. i - 1
            BY <2>1
        <3>2. QED
            BY <1>1, <3>1
    <2>2. ASSUME \A i, j \in DOMAIN C : C[i].name = C[j].name => i = j,
                 NEW i \in DOMAIN C, NEW j \in 1 .. i - 1
          PROVE  C[j].name # C[i].name
        <3>1. j \in DOMAIN C /\ j # i
            BY <1>1
        <3>2. QED
            BY <2>2, <3>1
    <2>3. QED
        BY <2>1, <2>2
<1>4. Cardinality(keys) <= 1 <=> \A i, j \in DOMAIN C : C[i].primaryKey /\ C[j].primaryKey => i = j
    <2>1. keys \in SUBSET (1 .. n) /\ \A i : i \in keys <=> i \in DOMAIN C /\ C[i].primaryKey
        BY <1>1
    <2> HIDE DEF C, n, keys
    <2>2. QED
        BY <1>1, <2>1, AtMostOne
<1>5. {s.name} \cup names \cup UNION {{r.table, r.column} : r \in refs} \subseteq Identifiers
      <=> /\ s.name \in Identifiers
          /\ \A i \in DOMAIN C :
                /\ C[i].name \in Identifiers
                /\ C[i].fk # NoReference => C[i].fk.table \in Identifiers /\ C[i].fk.column \in Identifiers
    <2>1. UNION {{r.table, r.column} : r \in refs} \subseteq Identifiers
          <=> \A r \in refs : r.table \in Identifiers /\ r.column \in Identifiers
        <3> HIDE DEF refs
        <3>1. QED
            OBVIOUS
    <2>2. (\A r \in refs : r.table \in Identifiers /\ r.column \in Identifiers)
          <=> \A i \in DOMAIN C : C[i].fk # NoReference =>
                    C[i].fk.table \in Identifiers /\ C[i].fk.column \in Identifiers
        OBVIOUS
    <2>3. names \subseteq Identifiers <=> \A i \in DOMAIN C : C[i].name \in Identifiers
        OBVIOUS
    <2> HIDE DEF C, names, refs
    <2>4. QED
        BY <2>1, <2>2, <2>3
<1>6. Validates(s) <=> /\ s.name \in Identifiers /\ C # <<>>
                       /\ \A i \in DOMAIN C :
                            /\ C[i].name \in Identifiers
                            /\ C[i].fk # NoReference => C[i].fk.table \in Identifiers /\ C[i].fk.column \in Identifiers
                       /\ \A i \in DOMAIN C : \A j \in 1 .. i - 1 : C[j].name # C[i].name
                       /\ Cardinality(keys) <= 1
    <2> HIDE DEF n, names, refs, f
    <2>1. QED
        BY DEF Validates
<1>7. Proper(s) <=> /\ C # <<>> /\ Cardinality(names) = n
                    /\ {s.name} \cup names \cup UNION {{r.table, r.column} : r \in refs} \subseteq Identifiers
                    /\ \A i, j \in DOMAIN C : C[i].primaryKey /\ C[j].primaryKey => i = j
    BY Zenon DEF Proper
<1> HIDE DEF C, n, names, refs, keys, f
<1>8. QED
    BY <1>2, <1>3, <1>4, <1>5, <1>6, <1>7
-----------------------------------------------------------------------------
(* What an edited document is read as. *)

LEMMA MemberLeft ==
    ASSUME NEW c, NEW members, NEW D, NEW R, NEW m
    PROVE  Member(LeftOf(c, members, D, R), m) =
              IF m \notin DOMAIN members \/ <<c, m>> \in D THEN Absent
              ELSE IF <<c, m>> \in R THEN Number ELSE members[m]
<1>1. PICK L : L = LeftOf(c, members, D, R)
    OBVIOUS
<1>2. L.kind = "object" /\ DOMAIN L.v = {n \in DOMAIN members : <<c, n>> \notin D}
      /\ \A n \in DOMAIN members : <<c, n>> \notin D =>
            L.v[n] = IF <<c, n>> \in R THEN Number ELSE members[n]
    BY <1>1, LeftIs
<1>3. Member(L, m) = IF m \notin DOMAIN members \/ <<c, m>> \in D THEN Absent
                     ELSE IF <<c, m>> \in R THEN Number ELSE members[m]
    BY <1>2 DEF Member
<1>4. QED
    BY <1>1, <1>3

\* The members a column's object has.
LEMMA ColumnHas ==
    ASSUME NEW c \in SchemaColumn
    PROVE  /\ ColumnToJson(c).kind = "object"
           /\ DOMAIN ColumnToJson(c).v = {"name", "type", "nullable", "primary_key"}
                 \cup (IF c.fk = NoReference THEN {} ELSE {"foreign_key"})
           /\ \A m \in DOMAIN ColumnToJson(c).v : ColumnToJson(c).v[m] = Member(ColumnToJson(c), m)
<1>1. CASE c.fk = NoReference
    BY <1>1 DEF ColumnToJson, Object, Member
<1>2. CASE c.fk # NoReference
    BY <1>2 DEF ColumnToJson, Object, Member
<1>3. QED
    BY <1>1, <1>2

\* The member of an edited column.
LEMMA MemberOfEdited ==
    ASSUME NEW c \in SchemaColumn, NEW i, NEW D, NEW R, NEW m
    PROVE  Member(LeftOf(i, ColumnToJson(c).v, D, R), m) =
              IF m \notin DOMAIN ColumnToJson(c).v \/ <<i, m>> \in D THEN Absent
              ELSE IF <<i, m>> \in R THEN Number ELSE Member(ColumnToJson(c), m)
<1>1. PICK M : M = ColumnToJson(c).v
    OBVIOUS
<1>2. \A n \in DOMAIN M : M[n] = Member(ColumnToJson(c), n)
    BY <1>1, ColumnHas
<1>3. Member(LeftOf(i, M, D, R), m) = IF m \notin DOMAIN M \/ <<i, m>> \in D THEN Absent
                                      ELSE IF <<i, m>> \in R THEN Number ELSE M[m]
    BY MemberLeft
<1>4. QED
    BY <1>1, <1>2, <1>3

\* A column with an edit that no default mends is refused.
LEMMA SpoiltColumn ==
    ASSUME NEW c \in SchemaColumn, NEW i, NEW D, NEW R, NEW m \in DOMAIN ColumnToJson(c).v,
           <<i, m>> \in D \cup R, <<i, m>> \in D => m \notin Optional
    PROVE  ~IsColumn(LeftOf(i, ColumnToJson(c).v, D, R))
<1>1. PICK item : item = LeftOf(i, ColumnToJson(c).v, D, R)
    OBVIOUS
<1>2. m \in {"name", "type", "nullable", "primary_key", "foreign_key"}
    BY ColumnHas
<1>3. Member(item, m) = IF <<i, m>> \in D THEN Absent ELSE Number
    BY <1>1, MemberOfEdited
<1>4. Member(Number, "table") = Absent
    BY DEF Member, Number
<1>5. ~IsText(Absent) /\ ~IsText(Number) /\ Number.kind = "number"
    BY DEF IsText, Absent, Number
<1>6. CASE m \in {"name", "type"}
    <2>1. ~IsText(Member(item, m))
        BY <1>3, <1>5
    <2>2. ~IsColumn(item)
        BY <1>6, <2>1 DEF IsColumn
    <2>3. QED
        BY <1>1, <2>2
<1>7. CASE m \in {"nullable", "primary_key"}
    <2>1. Member(item, m) = Number
        BY <1>3, <1>7 DEF Optional
    <2>2. ~IsColumn(item)
        BY <1>5, <1>7, <2>1 DEF IsColumn
    <2>3. QED
        BY <1>1, <2>2
<1>8. CASE m = "foreign_key"
    <2>1. Member(item, m) = Number
        BY <1>3, <1>8 DEF Optional
    <2>2. ~IsColumn(item)
        BY <1>4, <1>5, <1>8, <2>1 DEF IsColumn
    <2>3. QED
        BY <1>1, <2>2
<1>9. QED
    BY <1>2, <1>6, <1>7, <1>8

\* The column with the defaults of the members left out.
DefaultedColumn(c, i, D) ==
    [c EXCEPT !.nullable = @ \/ <<i, "nullable">> \in D,
              !.primaryKey = @ /\ <<i, "primary_key">> \notin D,
              !.fk = IF <<i, "foreign_key">> \in D THEN NoReference ELSE @]

\* Any other column is read with its defaults.
LEMMA MendedColumn ==
    ASSUME NEW c \in SchemaColumn, NEW i, NEW D, NEW R,
           \A m : <<i, m>> \notin R, \A m : <<i, m>> \in D => m \in Optional
    PROVE  /\ IsColumn(LeftOf(i, ColumnToJson(c).v, D, R)) <=> c.name # EmptyName
           /\ Column(LeftOf(i, ColumnToJson(c).v, D, R)) = DefaultedColumn(c, i, D)
           /\ DefaultedColumn(c, i, D) \in SchemaColumn
           /\ DefaultedColumn(c, i, D).name = c.name
<1>1. PICK item : item = LeftOf(i, ColumnToJson(c).v, D, R)
    OBVIOUS
<1>2. PICK d : d = DefaultedColumn(c, i, D)
    OBVIOUS
<1>3. <<i, "name">> \notin D /\ <<i, "type">> \notin D
    BY DEF Optional
<1>4. /\ Member(item, "name") = Text(c.name)
      /\ Member(item, "type") = Text(c.type)
    BY <1>1, <1>3, MemberOfEdited, ColumnHas, MembersOfColumn
<1>5. Member(item, "nullable") = IF <<i, "nullable">> \in D THEN Absent ELSE Truth(c.nullable)
    BY <1>1, MemberOfEdited, ColumnHas, MembersOfColumn
<1>6. Member(item, "primary_key") = IF <<i, "primary_key">> \in D THEN Absent ELSE Truth(c.primaryKey)
    BY <1>1, MemberOfEdited, ColumnHas, MembersOfColumn
<1>7. Member(item, "foreign_key") = IF d.fk = NoReference THEN Absent ELSE Reference(d.fk)
    <2>1. d.fk = IF <<i, "foreign_key">> \in D THEN NoReference ELSE c.fk
        BY <1>2 DEF DefaultedColumn, SchemaColumn
    <2>2. Member(ColumnToJson(c), "foreign_key") = IF c.fk = NoReference THEN Absent ELSE Reference(c.fk)
        BY MembersOfColumn
    <2>3. "foreign_key" \in DOMAIN ColumnToJson(c).v <=> c.fk # NoReference
        BY ColumnHas
    <2>4. Member(item, "foreign_key") =
              IF "foreign_key" \notin DOMAIN ColumnToJson(c).v \/ <<i, "foreign_key">> \in D THEN Absent
              ELSE Member(ColumnToJson(c), "foreign_key")
        BY <1>1, MemberOfEdited
    <2>5. QED
        BY <2>1, <2>2, <2>3, <2>4
<1>8. /\ d = [name |-> c.name, type |-> c.type, nullable |-> c.nullable \/ <<i, "nullable">> \in D,
              primaryKey |-> c.primaryKey /\ <<i, "primary_key">> \notin D,
              fk |-> IF <<i, "foreign_key">> \in D THEN NoReference ELSE c.fk]
      /\ c.nullable \in BOOLEAN /\ c.primaryKey \in BOOLEAN /\ c.type \in Types
      /\ c.fk \in {NoReference} \cup [table : STRING, column : STRING] /\ c.name \in STRING
    BY <1>2 DEF DefaultedColumn, SchemaColumn
<1>9. d \in SchemaColumn /\ d.name = c.name
    BY <1>8 DEF SchemaColumn
<1>10. /\ Flag(Member(item, "nullable"), TRUE) = d.nullable
       /\ Flag(Member(item, "primary_key"), FALSE) = d.primaryKey
    <2>1. /\ d.nullable = (c.nullable \/ <<i, "nullable">> \in D)
          /\ d.primaryKey = (c.primaryKey /\ <<i, "primary_key">> \notin D)
        BY <1>8, Zenon
    <2>2. \A b \in BOOLEAN : Flag(Truth(b), TRUE) = b /\ Flag(Truth(b), FALSE) = b
        BY DEF Flag, Truth
    <2>3. Flag(Absent, TRUE) = TRUE /\ Flag(Absent, FALSE) = FALSE
        BY DEF Flag, Absent
    <2>4. Flag(Member(item, "nullable"), TRUE) = d.nullable
        <3>1. CASE <<i, "nullable">> \in D
            <4>1. d.nullable = TRUE
                BY <2>1, <3>1, Zenon
            <4>2. QED
                BY <1>5, <2>3, <3>1, <4>1
        <3>2. CASE <<i, "nullable">> \notin D
            <4>1. d.nullable = c.nullable
                BY <1>8, <2>1, <3>2, Zenon
            <4>2. QED
                BY <1>5, <1>8, <2>2, <3>2, <4>1
        <3>3. QED
            BY <3>1, <3>2
    <2>5. Flag(Member(item, "primary_key"), FALSE) = d.primaryKey
        <3>1. CASE <<i, "primary_key">> \in D
            <4>1. d.primaryKey = FALSE
                BY <2>1, <3>1, Zenon
            <4>2. QED
                BY <1>6, <2>3, <3>1, <4>1
        <3>2. CASE <<i, "primary_key">> \notin D
            <4>1. d.primaryKey = c.primaryKey
                BY <1>8, <2>1, <3>2, Zenon
            <4>2. QED
                BY <1>6, <1>8, <2>2, <3>2, <4>1
        <3>3. QED
            BY <3>1, <3>2
    <2>6. QED
        BY <2>4, <2>5
<1>11. /\ Member(item, "foreign_key").kind = "absent" <=> d.fk = NoReference
       /\ d.fk # NoReference => /\ Member(Member(item, "foreign_key"), "table") = Text(d.fk.table)
                                /\ Member(Member(item, "foreign_key"), "column") = Text(d.fk.column)
    BY <1>7, MembersOfReference DEF Absent
<1>12. IsColumn(item) <=> c.name # EmptyName
    <2>1. IsText(Text(c.name)) /\ Text(c.name).v = c.name /\ IsText(Text(c.type)) /\ Text(c.type).v = c.type
        BY DEF IsText, Text
    <2>2. \A flag \in {"nullable", "primary_key"} : Member(item, flag).kind \in {"absent", "boolean"}
        BY <1>5, <1>6 DEF Absent, Truth
    <2>3. Member(item, "foreign_key").kind # "absent" =>
              /\ IsText(Member(Member(item, "foreign_key"), "table"))
              /\ IsText(Member(Member(item, "foreign_key"), "column"))
        BY <1>11 DEF IsText, Text
    <2>4. QED
        BY <1>4, <1>8, <2>1, <2>2, <2>3 DEF IsColumn
<1>13. Column(item) = d
    <2> DEFINE fk == Member(item, "foreign_key")
               reference == IF fk.kind = "absent" THEN NoReference
                            ELSE [table |-> Member(fk, "table").v, column |-> Member(fk, "column").v]
    <2>1. reference = d.fk
        <3>1. CASE d.fk = NoReference
            BY <1>11, <3>1
        <3>2. CASE d.fk # NoReference
            <4>1. d.fk = [table |-> d.fk.table, column |-> d.fk.column]
                BY <1>9, <3>2 DEF SchemaColumn
            <4>2. QED
                BY <1>11, <3>2, <4>1 DEF Text
        <3>3. QED
            BY <3>1, <3>2
    <2>2. Column(item) = [name |-> Member(item, "name").v, type |-> Member(item, "type").v,
                          nullable |-> Flag(Member(item, "nullable"), TRUE),
                          primaryKey |-> Flag(Member(item, "primary_key"), FALSE),
                          fk |-> reference]
        BY DEF Column
    <2>3. /\ d = [name |-> d.name, type |-> d.type, nullable |-> d.nullable,
                  primaryKey |-> d.primaryKey, fk |-> d.fk]
          /\ d.name = c.name /\ d.type = c.type
        BY <1>8
    <2>4. Member(item, "name").v = c.name /\ Member(item, "type").v = c.type
        BY <1>4 DEF Text
    <2> HIDE DEF reference
    <2>5. QED
        BY <1>10, <2>1, <2>2, <2>3, <2>4
<1>14. QED
    BY <1>1, <1>2, <1>9, <1>12, <1>13

\* What makes a document unreadable.
LEMMA Unreadable ==
    ASSUME NEW d,
           \/ ~IsText(Member(d, "name"))
           \/ Member(d, "columns").kind # "array"
           \/ \E i \in DOMAIN Member(d, "columns").v : ~IsColumn(Member(d, "columns").v[i])
    PROVE  ParseSchema(d) = NoSchema
<1>1. CASE ~IsText(Member(d, "name"))
    BY <1>1 DEF ParseSchema
<1>2. CASE Member(d, "columns").kind # "array"
    BY <1>2 DEF ParseSchema
<1>3. CASE \E i \in DOMAIN Member(d, "columns").v : ~IsColumn(Member(d, "columns").v[i])
    BY <1>3 DEF ParseSchema
<1>4. QED
    BY <1>1, <1>2, <1>3

LEMMA SpoiltDocument ==
    ASSUME NEW s \in AnySchema, NEW D, NEW R, EditsOf(s, D, R),
           R # {} \/ \E e \in D : e[2] \notin Optional
    PROVE  ParseSchema(DocOf(s, D, R)) = NoSchema
<1>1. PICK e \in D \cup R : e \in R \/ e[2] \notin Optional
    OBVIOUS
<1>2. e = <<e[1], e[2]>> /\ HasMember(s, e) /\ D \cap R = {}
    BY DEF EditsOf
<1>3. PICK i, m : e = <<i, m>>
    BY <1>2
<1>4. PICK d : d = DocOf(s, D, R)
    OBVIOUS
<1>5. /\ ~IsText(Absent) /\ ~IsText(Number)
      /\ Absent.kind # "array" /\ Number.kind # "array"
    BY DEF IsText, Absent, Number
<1>6. CASE <<0, "name">> \in D \cup R
    <2>1. ~IsText(Member(d, "name"))
        BY <1>4, <1>5, <1>6, TableMembers
    <2>2. QED
        BY <1>4, <2>1, Unreadable
<1>7. CASE <<0, "columns">> \in D \cup R
    <2>1. Member(d, "columns").kind # "array"
        BY <1>4, <1>5, <1>7, TableMembers
    <2>2. QED
        BY <1>4, <2>1, Unreadable
<1>8. CASE /\ <<0, "name">> \notin D \cup R /\ <<0, "columns">> \notin D \cup R
    <2>1. i \in DOMAIN s.columns /\ m \in DOMAIN ColumnToJson(s.columns[i]).v
        BY <1>2, <1>3, <1>8 DEF HasMember
    <2>2. s.columns[i] \in SchemaColumn
        BY <2>1, ColumnsAre
    <2>3. <<i, m>> \in D \cup R /\ (<<i, m>> \in D => m \notin Optional)
        BY <1>1, <1>2, <1>3
    <2>4. ~IsColumn(LeftOf(i, ColumnToJson(s.columns[i]).v, D, R))
        BY <2>1, <2>2, <2>3, SpoiltColumn
    <2>5. Member(d, "columns") = Array(ColumnsOf(s, D, R))
        BY <1>4, <1>8, TableMembers
    <2>6. /\ Member(d, "columns").v = ColumnsOf(s, D, R)
          /\ i \in DOMAIN ColumnsOf(s, D, R)
          /\ ColumnsOf(s, D, R)[i] = LeftOf(i, ColumnToJson(s.columns[i]).v, D, R)
        BY <2>1, <2>5 DEF Array, ColumnsOf
    <2>7. \E k \in DOMAIN Member(d, "columns").v : ~IsColumn(Member(d, "columns").v[k])
        BY <2>4, <2>6
    <2>8. QED
        BY <1>4, <2>7, Unreadable
<1>9. QED
    BY <1>6, <1>7, <1>8

LEMMA MendedDocument ==
    ASSUME DocOK, doc = DocOf(schema, dropped, retyped), retyped = {},
           \A e \in dropped : e[2] \in Optional
    PROVE  ParseSchema(doc) = IF Proper(Defaulted(schema)) THEN Defaulted(schema) ELSE NoSchema
<1>1. PICK s, D, R : s = schema /\ D = dropped /\ R = retyped
    OBVIOUS
<1>2. PICK t : t = Defaulted(schema)
    OBVIOUS
<1>3. s \in AnySchema
    BY <1>1, SchemasAssumption DEF DocOK
<1>4. PICK C : C = ColumnsOf(s, D, R)
    OBVIOUS
<1>5. /\ Member(doc, "name") = Text(s.name)
      /\ Member(doc, "columns") = Array(C)
    <2>1. <<0, "name">> \notin D /\ <<0, "columns">> \notin D /\ R = {}
        BY <1>1 DEF Optional
    <2>2. QED
        BY <1>1, <1>4, <2>1, TableMembers
<1>6. \A i : (\A m : <<i, m>> \notin R) /\ \A m : <<i, m>> \in D => m \in Optional
    BY <1>1
<1>7. /\ DOMAIN C = DOMAIN s.columns
      /\ \A i \in DOMAIN s.columns : C[i] = LeftOf(i, ColumnToJson(s.columns[i]).v, D, R)
    BY <1>4 DEF ColumnsOf
<1>8. ASSUME NEW i \in DOMAIN s.columns
      PROVE  /\ IsColumn(C[i]) <=> s.columns[i].name # EmptyName
             /\ Column(C[i]) = DefaultedColumn(s.columns[i], i, D)
             /\ DefaultedColumn(s.columns[i], i, D) \in SchemaColumn
             /\ DefaultedColumn(s.columns[i], i, D).name = s.columns[i].name
    <2>1. s.columns[i] \in SchemaColumn
        BY <1>3, ColumnsAre
    <2>2. PICK item : item = LeftOf(i, ColumnToJson(s.columns[i]).v, D, R)
        OBVIOUS
    <2>3. (\A m : <<i, m>> \notin R) /\ \A m : <<i, m>> \in D => m \in Optional
        BY <1>6
    <2>4. /\ IsColumn(item) <=> s.columns[i].name # EmptyName
          /\ Column(item) = DefaultedColumn(s.columns[i], i, D)
        BY <2>1, <2>2, <2>3, MendedColumn
    <2>5. /\ DefaultedColumn(s.columns[i], i, D) \in SchemaColumn
          /\ DefaultedColumn(s.columns[i], i, D).name = s.columns[i].name
        BY <2>1, <2>3, MendedColumn
    <2>6. QED
        BY <1>7, <2>2, <2>4, <2>5
<1>9. t = [name |-> s.name, columns |-> [i \in DOMAIN s.columns |-> DefaultedColumn(s.columns[i], i, D)]]
    <2>1. t = [s EXCEPT !.columns = [i \in DOMAIN s.columns |-> DefaultedColumn(s.columns[i], i, D)]]
        BY <1>1, <1>2 DEF Defaulted, DefaultedColumn
    <2>2. s = [name |-> s.name, columns |-> s.columns]
        BY <1>3 DEF AnySchema
    <2>3. QED
        BY <2>1, <2>2
<1>10. [i \in DOMAIN C |-> Column(C[i])] = [i \in DOMAIN s.columns |-> DefaultedColumn(s.columns[i], i, D)]
    BY <1>7, <1>8
<1>11. t \in AnySchema
    <2>1. Len(s.columns) \in Nat /\ DOMAIN s.columns = 1 .. Len(s.columns)
        BY <1>3, ColumnsAre DEF AnySchema
    <2>2. t.columns \in [1 .. Len(s.columns) -> SchemaColumn]
        BY <1>8, <1>9, <2>1
    <2>3. t.columns \in Seq(SchemaColumn)
        BY <2>1, <2>2
    <2>4. s.name \in STRING
        BY <1>3 DEF AnySchema
    <2>5. t = [name |-> s.name, columns |-> t.columns]
        BY <1>9
    <2>6. QED
        BY <2>3, <2>4, <2>5 DEF AnySchema
<1>12. Validates(t) => s.name # EmptyName /\ \A i \in DOMAIN C : IsColumn(C[i])
    <2> SUFFICES ASSUME Validates(t)
                 PROVE  s.name # EmptyName /\ \A i \in DOMAIN C : IsColumn(C[i])
        OBVIOUS
    <2>1. t.name = s.name /\ DOMAIN t.columns = DOMAIN s.columns
          /\ \A i \in DOMAIN s.columns : t.columns[i].name = s.columns[i].name
        BY <1>8, <1>9
    <2>2. t.name \in Identifiers /\ \A i \in DOMAIN t.columns : t.columns[i].name \in Identifiers
        BY DEF Validates
    <2>3. QED
        BY <1>7, <1>8, <2>1, <2>2, IdentifiersAssumption
<1>13. Validates(t) <=> Proper(t)
    BY <1>11, ValidIsProper
<1>14. ParseSchema(doc) = IF Validates(t) THEN t ELSE NoSchema
    <2>1. [name |-> Member(doc, "name").v,
           columns |-> [i \in DOMAIN Member(doc, "columns").v |-> Column(Member(doc, "columns").v[i])]] = t
        BY <1>5, <1>9, <1>10 DEF Text, Array
    <2>2. IsText(Member(doc, "name")) /\ Member(doc, "name").v = s.name
          /\ Member(doc, "columns").kind = "array" /\ Member(doc, "columns").v = C
        BY <1>5 DEF Text, Array, IsText
    <2>3. QED
        BY <1>12, <2>1, <2>2 DEF ParseSchema
<1>15. QED
    BY <1>2, <1>13, <1>14

\* Of every set of schemas and any number of edits, a table file is read back
\* as the schema it was written for with the defaults of what was left out, or
\* refused (schema_to_json_string, schema_parse_json, schema_validate).
THEOREM SchemaFilesMeanTheirSchema == DocSpec => []FilesMeanTheirSchema
<1>1. DocOK => FilesMeanTheirSchema
    <2> SUFFICES ASSUME DocOK PROVE FilesMeanTheirSchema
        OBVIOUS
    <2>1. CASE doc = Malformed /\ retyped # {}
        <3>1. Member(Malformed, "name") = Absent /\ ~IsText(Absent)
            BY DEF Member, Malformed, Absent, IsText
        <3>2. ParseSchema(doc) = NoSchema
            BY <2>1, <3>1, Unreadable
        <3>3. QED
            BY <2>1, <3>2 DEF FilesMeanTheirSchema
    <2>2. CASE doc = DocOf(schema, dropped, retyped) /\ EditsOf(schema, dropped, retyped)
        <3>1. CASE retyped = {} /\ \A e \in dropped : e[2] \in Optional
            BY <2>2, <3>1, MendedDocument DEF FilesMeanTheirSchema
        <3>2. CASE retyped # {} \/ \E e \in dropped : e[2] \notin Optional
            <4>1. schema \in AnySchema
                BY SchemasAssumption DEF DocOK
            <4>2. ParseSchema(doc) = NoSchema
                BY <2>2, <3>2, <4>1, SpoiltDocument
            <4>3. QED
                BY <3>2, <4>2 DEF FilesMeanTheirSchema
        <3>3. QED
            BY <3>1, <3>2
    <2>3. QED
        BY <2>1, <2>2 DEF DocOK
<1>2. QED
    BY <1>1, DocStays, PTL
-----------------------------------------------------------------------------
(* The text of a table. *)

\* A nonempty set of natural numbers has a least element.
LEMMA LeastElement ==
    ASSUME NEW S \in SUBSET Nat, S # {}
    PROVE  \E x \in S : \A y \in S : x <= y
<1>1. PICK x \in S : \A y \in S : ~ (<<y, x>> \in OpToRel(<, Nat))
    BY NatLessThanWellFounded, WFMin
<1>2. \A y \in S : ~ (y < x)
    BY <1>1 DEF OpToRel
<1> QED BY <1>2

\* Induction.
LEMMA AllNumbers ==
    ASSUME NEW P, 0 \in P, \A n \in Nat : n \in P => n + 1 \in P
    PROVE  \A n \in Nat : n \in P
<1> DEFINE Missing == {n \in Nat : n \notin P}
<1>1. SUFFICES ASSUME Missing # {} PROVE FALSE OBVIOUS
<1>2. PICK m \in Missing : \A n \in Missing : m <= n
  <2> HIDE DEF Missing
  <2>1. Missing \in SUBSET Nat BY DEF Missing
  <2> QED BY <1>1, <2>1, LeastElement
<1>3. m \in Nat /\ m # 0 OBVIOUS
<1>4. m - 1 \in Nat /\ ~ (m <= m - 1) /\ (m - 1) + 1 = m BY <1>3
<1>5. m - 1 \in P BY <1>2, <1>4
<1> QED BY <1>4, <1>5

-----------------------------------------------------------------------------
\* The recursion of Read.
IsReading(f, p, t) ==
    f = [n \in 0 .. Len(t) |-> IF n = 0 THEN p ELSE Step(f[n - 1], t[n])]

LEMMA ReadingExists ==
    ASSUME NEW S, NEW p, NEW t \in Seq(S)
    PROVE  \E f : IsReading(f, p, t) /\ Read(p, t) = f[Len(t)]
<1> DEFINE To(k, f) == f = [n \in 0 .. k |-> IF n = 0 THEN p ELSE Step(f[n - 1], t[n])]
           P == {k \in Nat : \E f : To(k, f)}
<1>1. 0 \in P
  <2>1. To(0, [n \in 0 .. 0 |-> p]) OBVIOUS
  <2> QED BY <2>1
<1>2. ASSUME NEW k \in Nat, k \in P PROVE k + 1 \in P
  <2>1. PICK f : To(k, f) BY <1>2
  <2> DEFINE g == [n \in 0 .. k + 1 |-> IF n <= k THEN f[n] ELSE Step(f[k], t[k + 1])]
  <2>2. ASSUME NEW n \in 0 .. k + 1
        PROVE  g[n] = IF n = 0 THEN p ELSE Step(g[n - 1], t[n])
    <3>1. CASE n = 0
      <4>1. f[0] = p BY <2>1
      <4> QED BY <3>1, <4>1
    <3>2. CASE n \in 1 .. k
      <4>1. f[n] = Step(f[n - 1], t[n]) BY <2>1, <3>2
      <4>2. g[n] = f[n] /\ g[n - 1] = f[n - 1] /\ n # 0 BY <3>2
      <4> QED BY <4>1, <4>2
    <3>3. CASE n = k + 1
      <4>1. g[n] = Step(f[k], t[n]) /\ g[n - 1] = f[k] /\ n # 0 BY <3>3
      <4> QED BY <4>1
    <3> QED BY <3>1, <3>2, <3>3
  <2>3. To(k + 1, g)
    <3>1. g = [n \in 0 .. k + 1 |-> g[n]] OBVIOUS
    <3> HIDE DEF g
    <3> QED BY <2>2, <3>1
  <2> HIDE DEF To, g
  <2>4. \E h : To(k + 1, h) BY <2>3
  <2> QED BY <2>4
<1>3. Len(t) \in P
  <2> HIDE DEF P
  <2>1. Len(t) \in Nat OBVIOUS
  <2> QED BY <1>1, <1>2, <2>1, AllNumbers
<1>4. PICK f : IsReading(f, p, t) BY <1>3 DEF IsReading
<1> DEFINE chosen == CHOOSE g : IsReading(g, p, t)
<1>5. IsReading(chosen, p, t) BY <1>4
<1>6. Read(p, t) = chosen[Len(t)] BY Zenon DEF Read, IsReading
<1> QED BY <1>5, <1>6

\* Two readings that begin alike.
LEMMA SameReading ==
    ASSUME NEW S, NEW p, NEW s \in Seq(S), NEW t \in Seq(S), NEW f, NEW g,
           IsReading(f, p, s), IsReading(g, p, t),
           Len(s) <= Len(t), \A i \in 1 .. Len(s) : s[i] = t[i]
    PROVE  f[Len(s)] = g[Len(s)]
<1> DEFINE P == {i \in Nat : i <= Len(s) => f[i] = g[i]}
<1>0. Len(s) \in Nat /\ Len(t) \in Nat OBVIOUS
<1>1. 0 \in P BY <1>0 DEF IsReading
<1>2. ASSUME NEW n \in Nat, n \in P PROVE n + 1 \in P
  <2> SUFFICES ASSUME n + 1 <= Len(s) PROVE f[n + 1] = g[n + 1] OBVIOUS
  <2>1. f[n] = g[n] /\ n + 1 \in 1 .. Len(s) /\ n + 1 \in 0 .. Len(t) /\ n + 1 \in 0 .. Len(s)
    BY <1>0, <1>2
  <2>2. f[n + 1] = Step(f[n], s[n + 1]) /\ g[n + 1] = Step(g[n], t[n + 1])
    <3>1. (n + 1) - 1 = n /\ n + 1 # 0 OBVIOUS
    <3> QED BY <2>1, <3>1 DEF IsReading
  <2> QED BY <2>1, <2>2
<1>3. \A n \in Nat : n \in P
  <2> HIDE DEF P
  <2> QED BY <1>1, <1>2, AllNumbers
<1> QED BY <1>0, <1>3

LEMMA ReadNothing == ASSUME NEW p PROVE Read(p, <<>>) = p
<1>1. <<>> \in Seq({}) /\ Len(<<>>) = 0 OBVIOUS
<1>2. PICK f : IsReading(f, p, <<>>) /\ Read(p, <<>>) = f[Len(<<>>)] BY <1>1, ReadingExists
<1> QED BY <1>1, <1>2 DEF IsReading

LEMMA ReadAppend ==
    ASSUME NEW S, NEW p, NEW t \in Seq(S), NEW c \in S
    PROVE  Read(p, Append(t, c)) = Step(Read(p, t), c)
<1> DEFINE u == Append(t, c)
<1>1. /\ u \in Seq(S) /\ Len(t) \in Nat /\ Len(u) = Len(t) + 1 /\ u[Len(t) + 1] = c
      /\ \A i \in 1 .. Len(t) : u[i] = t[i]
  BY AppendProperties
<1> HIDE DEF u
<1>2. PICK f : IsReading(f, p, t) /\ Read(p, t) = f[Len(t)] BY ReadingExists
<1>3. PICK g : IsReading(g, p, u) /\ Read(p, u) = g[Len(u)] BY <1>1, ReadingExists
<1>4. f[Len(t)] = g[Len(t)]
  <2>1. Len(t) <= Len(u) /\ \A i \in 1 .. Len(t) : t[i] = u[i] BY <1>1
  <2>2. u \in Seq(S) /\ IsReading(f, p, t) /\ IsReading(g, p, u) BY <1>1, <1>2, <1>3
  <2> QED BY <2>1, <2>2, SameReading
<1>5. g[Len(t) + 1] = Step(g[Len(t)], c)
  <2>1. Len(t) + 1 \in 0 .. Len(u) /\ Len(t) + 1 # 0 /\ (Len(t) + 1) - 1 = Len(t) BY <1>1
  <2> QED BY <1>1, <1>3, <2>1 DEF IsReading
<1> QED BY <1>1, <1>2, <1>3, <1>4, <1>5 DEF u

\* A text is read in two parts.
LEMMA ReadConcat ==
    ASSUME NEW S, NEW p, NEW s \in Seq(S), NEW t \in Seq(S)
    PROVE  Read(p, s \o t) = Read(Read(p, s), t)
<1> DEFINE P == {n \in Nat : \A u \in Seq(S) : Len(u) = n => Read(p, s \o u) = Read(Read(p, s), u)}
<1>1. 0 \in P
  <2> SUFFICES ASSUME NEW u \in Seq(S), Len(u) = 0 PROVE Read(p, s \o u) = Read(Read(p, s), u) OBVIOUS
  <2>1. u = <<>> /\ s \o u = s OBVIOUS
  <2> QED BY <2>1, ReadNothing
<1>2. ASSUME NEW n \in Nat, n \in P PROVE n + 1 \in P
  <2> SUFFICES ASSUME NEW u \in Seq(S), Len(u) = n + 1 PROVE Read(p, s \o u) = Read(Read(p, s), u)
    OBVIOUS
  <2>1. PICK front \in Seq(S), c \in S : u = Append(front, c)
    <3>1. u # <<>> OBVIOUS
    <3> QED BY <3>1, SequenceEmptyOrAppend
  <2>2. Len(front) = n BY <2>1
  <2>3. s \o u = Append(s \o front, c) /\ s \o front \in Seq(S)
    <3>1. <<c>> \in Seq(S) OBVIOUS
    <3>2. s \o (front \o <<c>>) = (s \o front) \o <<c>> BY <3>1, ConcatAssociative
    <3>3. s \o front \in Seq(S) BY ConcatProperties
    <3> QED BY <2>1, <3>2, <3>3, AppendIsConcat
  <2>4. Read(p, s \o front) = Read(Read(p, s), front) BY <1>2, <2>2
  <2>5. Read(p, s \o u) = Step(Read(p, s \o front), c)
    <3> DEFINE both == s \o front
    <3>1. both \in Seq(S) /\ s \o u = Append(both, c) BY <2>3
    <3> HIDE DEF both
    <3>2. Read(p, Append(both, c)) = Step(Read(p, both), c) BY <3>1, ReadAppend
    <3> QED BY <3>1, <3>2 DEF both
  <2>6. Read(Read(p, s), u) = Step(Read(Read(p, s), front), c) BY <2>1, ReadAppend
  <2> QED BY <2>4, <2>5, <2>6
<1>3. \A n \in Nat : n \in P
  <2> HIDE DEF P
  <2> QED BY <1>1, <1>2, AllNumbers
<1>4. Len(t) \in Nat OBVIOUS
<1> QED BY <1>3, <1>4

LEMMA ReadOne == ASSUME NEW p, NEW c PROVE Read(p, <<c>>) = Step(p, c)
<1>1. <<>> \in Seq({c}) /\ <<c>> = Append(<<>>, c) OBVIOUS
<1>2. Read(p, Append(<<>>, c)) = Step(Read(p, <<>>), c)
  <2> DEFINE none == <<>>
  <2>1. none \in Seq({c}) /\ c \in {c} BY <1>1
  <2> HIDE DEF none
  <2>2. Read(p, Append(none, c)) = Step(Read(p, none), c) BY <2>1, ReadAppend
  <2> QED BY <2>2 DEF none
<1> QED BY <1>1, <1>2, ReadNothing
-----------------------------------------------------------------------------
\* The recursion of FlattenSeq.
IsFlat(f, ss) == f = [i \in 1 .. Len(ss) |-> IF i = 1 THEN ss[i] ELSE f[i - 1] \o ss[i]]

LEMMA FlatExists ==
    ASSUME NEW S, NEW ss \in Seq(Seq(S)), ss # <<>>
    PROVE  \E f : IsFlat(f, ss) /\ FlattenSeq(ss) = f[Len(ss)]
<1> DEFINE To(k, f) == f = [i \in 1 .. k |-> IF i = 1 THEN ss[i] ELSE f[i - 1] \o ss[i]]
           P == {k \in Nat : \E f : To(k, f)}
<1>0. Len(ss) \in Nat /\ Len(ss) # 0 OBVIOUS
<1>1. 0 \in P
  <2>1. To(0, [i \in 1 .. 0 |-> ss]) OBVIOUS
  <2> QED BY <2>1
<1>2. ASSUME NEW k \in Nat, k \in P PROVE k + 1 \in P
  <2>1. PICK f : To(k, f) BY <1>2
  <2> DEFINE g == [i \in 1 .. k + 1 |->
                      IF i <= k THEN f[i] ELSE IF i = 1 THEN ss[i] ELSE f[i - 1] \o ss[i]]
  <2>2. ASSUME NEW i \in 1 .. k + 1
        PROVE  g[i] = IF i = 1 THEN ss[i] ELSE g[i - 1] \o ss[i]
    <3>1. CASE i <= k
      <4>0. i \in 1 .. k BY <3>1
      <4>1. f[i] = IF i = 1 THEN ss[i] ELSE f[i - 1] \o ss[i] BY <2>1, <4>0
      <4>2. g[i] = f[i] /\ (i # 1 => g[i - 1] = f[i - 1]) BY <3>1
      <4> QED BY <4>1, <4>2
    <3>2. CASE i = k + 1
      <4>1. g[i] = IF i = 1 THEN ss[i] ELSE f[i - 1] \o ss[i] BY <3>2
      <4>2. i # 1 => g[i - 1] = f[i - 1] BY <3>2
      <4> QED BY <4>1, <4>2
    <3> QED BY <3>1, <3>2
  <2>3. To(k + 1, g)
    <3>1. g = [i \in 1 .. k + 1 |-> g[i]] OBVIOUS
    <3> HIDE DEF g
    <3> QED BY <2>2, <3>1
  <2> HIDE DEF To, g
  <2>4. \E h : To(k + 1, h) BY <2>3
  <2> QED BY <2>4
<1>3. Len(ss) \in P
  <2> HIDE DEF P
  <2> QED BY <1>0, <1>1, <1>2, AllNumbers
<1>4. PICK f : IsFlat(f, ss) BY <1>3 DEF IsFlat
<1> DEFINE chosen == CHOOSE g : IsFlat(g, ss)
<1>5. IsFlat(chosen, ss) BY <1>4
<1>6. FlattenSeq(ss) = chosen[Len(ss)] BY <1>0, Zenon DEF FlattenSeq, IsFlat
<1> QED BY <1>5, <1>6

LEMMA FlattenNothing == FlattenSeq(<<>>) = <<>>
  BY DEF FlattenSeq

LEMMA FlattenAppend ==
    ASSUME NEW S, NEW ss \in Seq(Seq(S)), NEW x \in Seq(S)
    PROVE  FlattenSeq(Append(ss, x)) = FlattenSeq(ss) \o x
<1> DEFINE tt == Append(ss, x)
<1>1. /\ tt \in Seq(Seq(S)) /\ tt # <<>> /\ Len(ss) \in Nat /\ Len(tt) = Len(ss) + 1
      /\ tt[Len(ss) + 1] = x /\ \A i \in 1 .. Len(ss) : tt[i] = ss[i]
  BY AppendProperties
<1> HIDE DEF tt
<1>2. PICK g : IsFlat(g, tt) /\ FlattenSeq(tt) = g[Len(tt)] BY <1>1, FlatExists
<1>3. CASE ss = <<>>
  <2>1. g[1] = x BY <1>1, <1>2, <1>3 DEF IsFlat
  <2> QED BY <1>1, <1>2, <1>3, <2>1, FlattenNothing DEF tt
<1>4. CASE ss # <<>>
  <2>1. PICK f : IsFlat(f, ss) /\ FlattenSeq(ss) = f[Len(ss)] BY <1>4, FlatExists
  <2> DEFINE P == {n \in Nat : n + 1 <= Len(ss) => f[n + 1] = g[n + 1]}
  <2>2. 0 \in P BY <1>1, <1>2, <1>4, <2>1 DEF IsFlat
  <2>3. ASSUME NEW n \in Nat, n \in P PROVE n + 1 \in P
    <3> SUFFICES ASSUME n + 2 <= Len(ss) PROVE f[n + 2] = g[n + 2] OBVIOUS
    <3>1. n + 2 \in 1 .. Len(ss) /\ n + 2 \in 1 .. Len(tt) /\ n + 2 # 1 /\ (n + 2) - 1 = n + 1 BY <1>1
    <3>2. f[n + 2] = f[n + 1] \o ss[n + 2] /\ g[n + 2] = g[n + 1] \o tt[n + 2]
      BY <1>2, <2>1, <3>1 DEF IsFlat
    <3>3. n + 2 \in 1 .. Len(ss) => tt[n + 2] = ss[n + 2] BY <1>1
    <3>4. f[n + 1] = g[n + 1] BY <2>3, <1>1
    <3>5. (n + 1) + 1 = n + 2 OBVIOUS
    <3> QED BY <3>1, <3>2, <3>3, <3>4, <3>5
  <2>4. \A n \in Nat : n \in P
    <3> HIDE DEF P
    <3> QED BY <2>2, <2>3, AllNumbers
  <2>5. Len(ss) # 0 /\ Len(ss) - 1 \in Nat /\ (Len(ss) - 1) + 1 = Len(ss) BY <1>1, <1>4
  <2>6. f[Len(ss)] = g[Len(ss)]
    <3>1. Len(ss) - 1 \in P BY <2>4, <2>5
    <3>2. (Len(ss) - 1) + 1 <= Len(ss) BY <1>1
    <3> QED BY <2>5, <3>1, <3>2
  <2>7. g[Len(ss) + 1] = g[Len(ss)] \o x
    <3>1. Len(ss) + 1 \in 1 .. Len(tt) /\ Len(ss) + 1 # 1 /\ (Len(ss) + 1) - 1 = Len(ss) BY <1>1, <2>5
    <3> QED BY <1>1, <1>2, <3>1 DEF IsFlat
  <2> QED BY <1>1, <1>2, <2>1, <2>6, <2>7 DEF tt
<1> QED BY <1>3, <1>4

LEMMA FlattenTyped ==
    ASSUME NEW S, NEW ss \in Seq(Seq(S))
    PROVE  FlattenSeq(ss) \in Seq(S)
<1> DEFINE P == {n \in Nat : \A tt \in Seq(Seq(S)) : Len(tt) = n => FlattenSeq(tt) \in Seq(S)}
<1>1. 0 \in P
  <2>1. \A tt \in Seq(Seq(S)) : Len(tt) = 0 => tt = <<>> OBVIOUS
  <2> QED BY <2>1, FlattenNothing
<1>2. ASSUME NEW n \in Nat, n \in P PROVE n + 1 \in P
  <2> SUFFICES ASSUME NEW tt \in Seq(Seq(S)), Len(tt) = n + 1 PROVE FlattenSeq(tt) \in Seq(S) OBVIOUS
  <2>1. tt # <<>> OBVIOUS
  <2>2. PICK front \in Seq(Seq(S)), x \in Seq(S) : tt = Append(front, x)
    BY <2>1, SequenceEmptyOrAppend
  <2>3. Len(front) = n BY <2>2
  <2>4. FlattenSeq(front) \in Seq(S) BY <1>2, <2>3
  <2>5. FlattenSeq(tt) = FlattenSeq(front) \o x BY <2>2, FlattenAppend
  <2> QED BY <2>2, <2>4, <2>5, ConcatProperties
<1>3. \A n \in Nat : n \in P
  <2> HIDE DEF P
  <2> QED BY <1>1, <1>2, AllNumbers
<1> QED BY <1>3
-----------------------------------------------------------------------------
\* The characters that matter are different.
LEMMA SeparatorsDiffer ==
    /\ Quote # Comma /\ Quote # NewLine /\ Quote # Space
    /\ Comma # NewLine /\ Comma # Space /\ NewLine # Space
  BY DEF Quote, Comma, NewLine, Space

LEMMA FrontOfAppend ==
    ASSUME NEW S, NEW t \in Seq(S), NEW c \in S
    PROVE  SubSeq(Append(t, c), 1, Len(Append(t, c)) - 1) = t
<1> DEFINE u == Append(t, c)
           v == SubSeq(u, 1, Len(t))
<1>1. /\ u \in Seq(S) /\ Len(t) \in Nat /\ Len(u) = Len(t) + 1 /\ Len(u) - 1 = Len(t)
      /\ \A i \in 1 .. Len(t) : u[i] = t[i]
  BY AppendProperties
<1> HIDE DEF u
<1>2. v \in Seq(S) /\ Len(v) = Len(t) /\ \A i \in 1 .. Len(t) : v[i] = u[i]
  BY <1>1, SubSeqProperties
<1> HIDE DEF v
<1>3. v = t
  <2>1. \A i \in 1 .. Len(v) : v[i] = t[i] BY <1>1, <1>2
  <2> QED BY <1>2, <2>1, SeqEqual
<1> QED BY <1>1, <1>3 DEF u, v

LEMMA Texts == /\ <<>> \in AnyText /\ {Quote, Comma, NewLine, Space} \subseteq Alphabet
               /\ \A t \in AnyText, c \in Alphabet : Append(t, c) \in AnyText
               /\ \A c \in Alphabet : <<c>> \in AnyText
               /\ \A s, t \in AnyText : s \o t \in AnyText
<1>1. <<>> \in AnyText BY EmptySeq DEF AnyText
<1>2. {Quote, Comma, NewLine, Space} \subseteq Alphabet BY DEF Alphabet
<1>3. ASSUME NEW t \in AnyText, NEW c \in Alphabet PROVE Append(t, c) \in AnyText
  BY AppendProperties DEF AnyText
<1>4. ASSUME NEW c \in Alphabet PROVE <<c>> \in AnyText
  <2>1. <<c>> = Append(<<>>, c) OBVIOUS
  <2> QED BY <1>1, <1>3, <2>1
<1>5. ASSUME NEW s \in AnyText, NEW t \in AnyText PROVE s \o t \in AnyText
  BY ConcatProperties DEF AnyText
<1> QED BY <1>1, <1>2, <1>3, <1>4, <1>5

\* The parser where a field may begin, inside quotes, and after a quote.
At(state, quoted, entry, fs, rs) ==
    [state |-> state, quoted |-> quoted, spaces |-> 0, entry |-> entry, fields |-> fs, records |-> rs]
InQuotes(t, fs, rs) == At("field begun", TRUE, t, fs, rs)
Ended(t, fs, rs) == At("might have ended", TRUE, Append(t, Quote), fs, rs)

NotBegunStates == {"row not begun", "field not begun"}

LEMMA QuoteBegins ==
    ASSUME NEW state \in NotBegunStates, NEW fs, NEW rs
    PROVE  Step(Start(state, fs, rs), Quote) = InQuotes(<<>>, fs, rs)
  BY SeparatorsDiffer DEF Step, NotBegun, Start, InQuotes, At, NotBegunStates

LEMMA CopiesInQuotes ==
    ASSUME NEW t, NEW fs, NEW rs, NEW c, c # Quote
    PROVE  Step(InQuotes(t, fs, rs), c) = InQuotes(Append(t, c), fs, rs)
  BY DEF Step, InField, InQuotes, At, SubmitChar

LEMMA QuoteMayEnd ==
    ASSUME NEW t, NEW fs, NEW rs
    PROVE  /\ Step(InQuotes(t, fs, rs), Quote) = Ended(t, fs, rs)
           /\ Step(Ended(t, fs, rs), Quote) = InQuotes(Append(t, Quote), fs, rs)
<1>1. Step(InQuotes(t, fs, rs), Quote) = Ended(t, fs, rs)
  BY DEF Step, InField, InQuotes, Ended, At, SubmitChar
<1>2. Step(Ended(t, fs, rs), Quote) = InQuotes(Append(t, Quote), fs, rs)
  BY SeparatorsDiffer DEF Step, AfterQuote, InQuotes, Ended, At
<1> QED BY <1>1, <1>2

LEMMA FieldEnds ==
    ASSUME NEW t \in AnyText, NEW fs \in Seq(AnyText), NEW rs \in Seq(Seq(AnyText))
    PROVE  /\ Step(Ended(t, fs, rs), Comma) = Start("field not begun", Append(fs, t), rs)
           /\ Step(Ended(t, fs, rs), NewLine) = Start("row not begun", <<>>, Append(rs, Append(fs, t)))
<1> DEFINE u == Append(t, Quote)
           p == Ended(t, fs, rs)
<1>1. SubSeq(u, 1, Len(u) - 1) = t BY FrontOfAppend, Texts DEF AnyText
<1> HIDE DEF u
<1>2. /\ p.state = "might have ended" /\ p.spaces = 0 /\ p.entry = u /\ p.fields = fs /\ p.records = rs
  BY DEF Ended, At, u
<1> HIDE DEF p
<1>3. SubmitField(p, p.spaces + 1) = Start("field not begun", Append(fs, t), rs)
  <2>1. 0 + 1 = 1 OBVIOUS
  <2>2. p.spaces + 1 = 1 BY <1>2, <2>1, Zenon
  <2> QED BY <1>1, <1>2, <2>2 DEF SubmitField
<1>4. Step(p, Comma) = SubmitField(p, p.spaces + 1)
  BY <1>2, SeparatorsDiffer DEF Step, AfterQuote
<1>5. Step(p, NewLine) = SubmitRow(SubmitField(p, p.spaces + 1))
  BY <1>2, SeparatorsDiffer DEF Step, AfterQuote
<1>6. SubmitRow(Start("field not begun", Append(fs, t), rs))
      = Start("row not begun", <<>>, Append(rs, Append(fs, t)))
  BY DEF SubmitRow, Start
<1> QED BY <1>3, <1>4, <1>5, <1>6 DEF p

LEMMA EmptyField ==
    ASSUME NEW state \in NotBegunStates, NEW fs \in Seq(AnyText), NEW rs \in Seq(Seq(AnyText))
    PROVE  /\ Step(Start(state, fs, rs), Comma) = Start("field not begun", Append(fs, <<>>), rs)
           /\ Step(Start(state, fs, rs), NewLine)
              = IF state = "row not begun" THEN Start(state, fs, rs)
                ELSE Start("row not begun", <<>>, Append(rs, Append(fs, <<>>)))
<1> DEFINE p == Start(state, fs, rs)
<1>1. SubmitField(p, 0) = Start("field not begun", Append(fs, <<>>), rs)
  <2>1. p.entry = <<>> /\ p.fields = fs /\ p.records = rs BY DEF Start
  <2>2. SubSeq(<<>>, 1, Len(<<>>) - 0) = <<>> OBVIOUS
  <2> HIDE DEF p
  <2> QED BY <2>1, <2>2 DEF SubmitField
<1>2. SubmitRow(Start("field not begun", Append(fs, <<>>), rs))
      = Start("row not begun", <<>>, Append(rs, Append(fs, <<>>)))
  BY DEF SubmitRow, Start
<1>3. p.state = state BY DEF Start
<1> HIDE DEF p
<1>4. Step(p, Comma) = SubmitField(p, 0)
  BY <1>3, SeparatorsDiffer DEF Step, NotBegun, NotBegunStates
<1>5. Step(p, NewLine) = IF state = "row not begun" THEN p ELSE SubmitRow(SubmitField(p, 0))
  BY <1>3, SeparatorsDiffer DEF Step, NotBegun, NotBegunStates
<1> QED BY <1>1, <1>2, <1>4, <1>5 DEF p
-----------------------------------------------------------------------------
(* A field between quotes. *)

Doubled(c) == IF c = Quote THEN <<Quote, Quote>> ELSE <<c>>
Copies(t) == [i \in DOMAIN t |-> Doubled(t[i])]

LEMMA DoubledIsText == \A c \in Alphabet : Doubled(c) \in AnyText
<1> SUFFICES ASSUME NEW c \in Alphabet PROVE Doubled(c) \in AnyText OBVIOUS
<1>1. <<Quote>> \in AnyText /\ <<c>> \in AnyText /\ Quote \in Alphabet BY Texts
<1>2. <<Quote, Quote>> = Append(<<Quote>>, Quote) OBVIOUS
<1>3. <<Quote, Quote>> \in AnyText BY <1>1, <1>2, Texts
<1> QED BY <1>1, <1>3 DEF Doubled

LEMMA CopiesAre ==
    ASSUME NEW t \in AnyText
    PROVE  Copies(t) \in Seq(AnyText) /\ Len(Copies(t)) = Len(t)
<1>1. Len(t) \in Nat /\ DOMAIN t = 1 .. Len(t) /\ \A i \in 1 .. Len(t) : t[i] \in Alphabet
  BY DEF AnyText
<1>2. Copies(t) = [i \in 1 .. Len(t) |-> Doubled(t[i])] BY <1>1 DEF Copies
<1>3. \A i \in 1 .. Len(t) : Doubled(t[i]) \in AnyText BY <1>1, DoubledIsText
<1>4. Copies(t) \in [1 .. Len(t) -> AnyText] BY <1>2, <1>3
<1> QED BY <1>1, <1>4, IsASeq, LenProperties

LEMMA CopiesAppend ==
    ASSUME NEW t \in AnyText, NEW c \in Alphabet
    PROVE  Copies(Append(t, c)) = Append(Copies(t), Doubled(c))
<1> DEFINE u == Append(t, c)
           s1 == Copies(u)
           s2 == Append(Copies(t), Doubled(c))
<1>1. /\ u \in AnyText /\ Len(t) \in Nat /\ Len(u) = Len(t) + 1 /\ u[Len(t) + 1] = c
      /\ \A i \in 1 .. Len(t) : u[i] = t[i]
  BY AppendProperties DEF AnyText
<1>2. DOMAIN u = 1 .. Len(u) /\ DOMAIN t = 1 .. Len(t) BY <1>1 DEF AnyText
<1> HIDE DEF u
<1>3. s1 \in Seq(AnyText) /\ Len(s1) = Len(u) /\ \A i \in 1 .. Len(u) : s1[i] = Doubled(u[i])
  BY <1>1, <1>2, CopiesAre DEF Copies
<1>4. /\ Copies(t) \in Seq(AnyText) /\ Len(Copies(t)) = Len(t) /\ Doubled(c) \in AnyText
      /\ \A i \in 1 .. Len(t) : Copies(t)[i] = Doubled(t[i])
  BY <1>2, CopiesAre, DoubledIsText DEF Copies
<1>5. /\ s2 \in Seq(AnyText) /\ Len(s2) = Len(t) + 1 /\ s2[Len(t) + 1] = Doubled(c)
      /\ \A i \in 1 .. Len(t) : s2[i] = Copies(t)[i]
  BY <1>4, AppendProperties
<1> HIDE DEF s1, s2
<1>6. ASSUME NEW i \in 1 .. Len(s1) PROVE s1[i] = s2[i]
  <2>1. CASE i \in 1 .. Len(t) BY <2>1, <1>1, <1>3, <1>4, <1>5
  <2>2. CASE i = Len(t) + 1 BY <2>2, <1>1, <1>3, <1>5
  <2> QED BY <1>1, <1>3, <2>1, <2>2
<1>7. s1 = s2 BY <1>1, <1>3, <1>5, <1>6, SeqEqual
<1> QED BY <1>7 DEF s1, s2, u

LEMMA FieldIs == \A t \in AnyText :
    /\ Field(t) = <<Quote>> \o FlattenSeq(Copies(t)) \o <<Quote>>
    /\ FlattenSeq(Copies(t)) \in AnyText /\ Field(t) \in AnyText /\ Field(t) # <<>>
<1> SUFFICES ASSUME NEW t \in AnyText
    PROVE /\ Field(t) = <<Quote>> \o FlattenSeq(Copies(t)) \o <<Quote>>
          /\ FlattenSeq(Copies(t)) \in AnyText /\ Field(t) \in AnyText /\ Field(t) # <<>>
  OBVIOUS
<1>1. Field(t) = <<Quote>> \o FlattenSeq(Copies(t)) \o <<Quote>> BY Zenon DEF Field, Copies, Doubled
<1> DEFINE flat == FlattenSeq(Copies(t))
<1>2. flat \in AnyText BY CopiesAre, FlattenTyped DEF AnyText
<1> HIDE DEF flat
<1>3. <<Quote>> \in AnyText /\ <<Quote>> \o flat \in AnyText /\ <<Quote>> \o flat \o <<Quote>> \in AnyText
  BY <1>2, Texts
<1>4. <<Quote>> \o flat \o <<Quote>> # <<>>
  <2> DEFINE begin == <<Quote>> \o flat
             end == <<Quote>>
  <2>1. begin \in Seq(Alphabet) /\ end \in Seq(Alphabet) /\ end # <<>> BY <1>3 DEF AnyText
  <2> HIDE DEF begin, end
  <2>2. begin \o end # <<>> BY <2>1, ConcatEqualIffEmpty
  <2> QED BY <2>2 DEF begin, end
<1> QED BY <1>1, <1>2, <1>3, <1>4 DEF flat

\* The text of a quoted field is copied, its quotes undoubled.
LEMMA CopiesRead ==
    ASSUME NEW t \in AnyText, NEW fs, NEW rs
    PROVE  Read(InQuotes(<<>>, fs, rs), FlattenSeq(Copies(t))) = InQuotes(t, fs, rs)
<1> DEFINE p == InQuotes(<<>>, fs, rs)
           P == {n \in Nat : \A u \in AnyText : Len(u) = n =>
                    Read(p, FlattenSeq(Copies(u))) = InQuotes(u, fs, rs)}
<1>1. 0 \in P
  <2> SUFFICES ASSUME NEW u \in AnyText, Len(u) = 0
      PROVE Read(p, FlattenSeq(Copies(u))) = InQuotes(u, fs, rs)
    OBVIOUS
  <2>1. u = <<>> BY DEF AnyText
  <2>2. Copies(u) = <<>>
    <3>1. Copies(u) \in Seq(AnyText) /\ Len(Copies(u)) = 0 BY CopiesAre
    <3> QED BY <3>1, EmptySeq
  <2> QED BY <2>1, <2>2, FlattenNothing, ReadNothing
<1>2. ASSUME NEW n \in Nat, n \in P PROVE n + 1 \in P
  <2> SUFFICES ASSUME NEW u \in AnyText, Len(u) = n + 1
      PROVE Read(p, FlattenSeq(Copies(u))) = InQuotes(u, fs, rs)
    OBVIOUS
  <2>1. PICK front \in AnyText, c \in Alphabet : u = Append(front, c)
    <3>1. u # <<>> BY DEF AnyText
    <3> QED BY <3>1, SequenceEmptyOrAppend DEF AnyText
  <2>2. Len(front) = n BY <2>1, AppendProperties DEF AnyText
  <2>3. Read(p, FlattenSeq(Copies(front))) = InQuotes(front, fs, rs) BY <1>2, <2>2
  <2>4. FlattenSeq(Copies(u)) = FlattenSeq(Copies(front)) \o Doubled(c)
    <3>1. Copies(front) \in Seq(Seq(Alphabet)) /\ Doubled(c) \in Seq(Alphabet)
      BY CopiesAre, DoubledIsText DEF AnyText
    <3>2. FlattenSeq(Append(Copies(front), Doubled(c))) = FlattenSeq(Copies(front)) \o Doubled(c)
      BY <3>1, FlattenAppend
    <3> QED BY <2>1, <3>2, CopiesAppend
  <2>5. FlattenSeq(Copies(front)) \in Seq(Alphabet) /\ Doubled(c) \in Seq(Alphabet)
    BY FieldIs, DoubledIsText DEF AnyText
  <2>6. Read(p, FlattenSeq(Copies(u))) = Read(InQuotes(front, fs, rs), Doubled(c))
    BY <2>3, <2>4, <2>5, ReadConcat
  <2>7. Read(InQuotes(front, fs, rs), Doubled(c)) = InQuotes(u, fs, rs)
    <3>1. CASE c # Quote
      <4>1. Doubled(c) = <<c>> BY <3>1 DEF Doubled
      <4> QED BY <2>1, <3>1, <4>1, ReadOne, CopiesInQuotes
    <3>2. CASE c = Quote
      <4>1. Doubled(c) = <<Quote>> \o <<Quote>> BY <3>2 DEF Doubled
      <4>3. Read(InQuotes(front, fs, rs), <<Quote>> \o <<Quote>>)
            = Read(Read(InQuotes(front, fs, rs), <<Quote>>), <<Quote>>)
        <5> DEFINE one == <<Quote>>
        <5>1. one \in Seq(Alphabet) BY Texts DEF AnyText
        <5> HIDE DEF one
        <5>2. Read(InQuotes(front, fs, rs), one \o one) = Read(Read(InQuotes(front, fs, rs), one), one)
          BY <5>1, ReadConcat
        <5> QED BY <5>2 DEF one
      <4>4. Read(InQuotes(front, fs, rs), <<Quote>>) = Ended(front, fs, rs)
        BY ReadOne, QuoteMayEnd
      <4>5. Read(Ended(front, fs, rs), <<Quote>>) = InQuotes(Append(front, Quote), fs, rs)
        BY ReadOne, QuoteMayEnd
      <4> QED BY <2>1, <3>2, <4>1, <4>3, <4>4, <4>5
    <3> QED BY <3>1, <3>2
  <2> QED BY <2>6, <2>7
<1>3. \A n \in Nat : n \in P
  <2> HIDE DEF P
  <2> QED BY <1>1, <1>2, AllNumbers
<1>4. Len(t) \in Nat BY DEF AnyText
<1> QED BY <1>3, <1>4

LEMMA FieldRead ==
    ASSUME NEW t \in AnyText, NEW state \in NotBegunStates, NEW fs, NEW rs
    PROVE  Read(Start(state, fs, rs), Field(t)) = Ended(t, fs, rs)
<1> DEFINE flat == FlattenSeq(Copies(t))
           p == Start(state, fs, rs)
           begin == <<Quote>>
<1>1. Field(t) = begin \o flat \o begin BY FieldIs
<1>2. flat \in Seq(Alphabet) /\ begin \in Seq(Alphabet) /\ begin \o flat \in Seq(Alphabet)
  BY FieldIs, Texts DEF AnyText
<1>3. Read(p, begin) = InQuotes(<<>>, fs, rs) BY ReadOne, QuoteBegins
<1>4. Read(InQuotes(<<>>, fs, rs), flat) = InQuotes(t, fs, rs) BY CopiesRead
<1>5. Read(InQuotes(t, fs, rs), begin) = Ended(t, fs, rs) BY ReadOne, QuoteMayEnd
<1> HIDE DEF flat, begin, p
<1>6. Read(p, begin \o flat) = Read(Read(p, begin), flat) BY <1>2, ReadConcat
<1>7. Read(p, (begin \o flat) \o begin) = Read(Read(p, begin \o flat), begin)
  <2> DEFINE both == begin \o flat
  <2>1. both \in Seq(Alphabet) BY <1>2
  <2> HIDE DEF both
  <2>2. Read(p, both \o begin) = Read(Read(p, both), begin) BY <1>2, <2>1, ReadConcat
  <2> QED BY <2>2 DEF both
<1> QED BY <1>1, <1>3, <1>4, <1>5, <1>6, <1>7 DEF p
-----------------------------------------------------------------------------
(* A line. *)

\* What storage_write prints of a cell: only the empty one may be without
\* quotes.
Prints(f, v) == f \in AnyText /\ v \in AnyText /\ (f = Field(v) \/ (f = <<>> /\ v = <<>>))
PrintsAll(ff, row) == /\ ff \in Seq(AnyText) /\ row \in Seq(AnyText) /\ Len(ff) = Len(row)
                      /\ \A i \in 1 .. Len(row) : Prints(ff[i], row[i])

After(state, f, v, fs, rs) == IF f = <<>> THEN Start(state, fs, rs) ELSE Ended(v, fs, rs)

LEMMA PrintedEmpty ==
    ASSUME NEW f, NEW v, Prints(f, v)
    PROVE  /\ f = <<>> => v = <<>>
           /\ f # <<>> => v \in AnyText /\ f = Field(v)
<1>1. v \in AnyText /\ (f = Field(v) \/ v = <<>>) BY DEF Prints
<1>2. Field(v) # <<>> BY <1>1, FieldIs
<1>3. f # <<>> => f = Field(v) BY DEF Prints
<1> QED BY <1>1, <1>2, <1>3

LEMMA CellRead ==
    ASSUME NEW f, NEW v, Prints(f, v), NEW state \in NotBegunStates, NEW fs, NEW rs
    PROVE  Read(Start(state, fs, rs), f) = After(state, f, v, fs, rs)
<1>1. CASE f = <<>> BY <1>1, ReadNothing DEF After
<1>2. CASE f # <<>>
  <2>1. v \in AnyText /\ f = Field(v) BY <1>2, PrintedEmpty
  <2>2. After(state, f, v, fs, rs) = Ended(v, fs, rs) BY <1>2 DEF After
  <2> QED BY <2>1, <2>2, FieldRead
<1> QED BY <1>1, <1>2

LEMMA CellThenComma ==
    ASSUME NEW f \in AnyText, NEW v \in AnyText, Prints(f, v), NEW state \in NotBegunStates,
           NEW fs \in Seq(AnyText), NEW rs \in Seq(Seq(AnyText))
    PROVE  Step(After(state, f, v, fs, rs), Comma) = Start("field not begun", Append(fs, v), rs)
<1>1. CASE f = <<>>
  <2>1. v = <<>> BY <1>1, PrintedEmpty
  <2>2. After(state, f, v, fs, rs) = Start(state, fs, rs) BY <1>1 DEF After
  <2>3. Step(Start(state, fs, rs), Comma) = Start("field not begun", Append(fs, <<>>), rs)
    BY EmptyField
  <2> QED BY <2>1, <2>2, <2>3
<1>2. CASE f # <<>>
  <2>1. v \in AnyText BY <1>2, PrintedEmpty
  <2>2. After(state, f, v, fs, rs) = Ended(v, fs, rs) BY <1>2 DEF After
  <2> QED BY <2>1, <2>2, FieldEnds
<1> QED BY <1>1, <1>2

LEMMA CellThenNewLine ==
    ASSUME NEW f \in AnyText, NEW v \in AnyText, Prints(f, v), NEW state \in NotBegunStates,
           NEW fs \in Seq(AnyText), NEW rs \in Seq(Seq(AnyText))
    PROVE  Step(After(state, f, v, fs, rs), NewLine)
           = IF f = <<>> /\ state = "row not begun" THEN Start(state, fs, rs)
             ELSE Start("row not begun", <<>>, Append(rs, Append(fs, v)))
<1>1. CASE f = <<>>
  <2>1. v = <<>> BY <1>1, PrintedEmpty
  <2>2. After(state, f, v, fs, rs) = Start(state, fs, rs) BY <1>1 DEF After
  <2>3. Step(Start(state, fs, rs), NewLine)
        = IF state = "row not begun" THEN Start(state, fs, rs)
          ELSE Start("row not begun", <<>>, Append(rs, Append(fs, <<>>)))
    BY EmptyField
  <2> QED BY <1>1, <2>1, <2>2, <2>3
<1>2. CASE f # <<>>
  <2>1. v \in AnyText BY <1>2, PrintedEmpty
  <2>2. After(state, f, v, fs, rs) = Ended(v, fs, rs) BY <1>2 DEF After
  <2> QED BY <1>2, <2>1, <2>2, FieldEnds
<1> QED BY <1>1, <1>2

Separated(ff) == [i \in DOMAIN ff |-> IF i = 1 THEN ff[i] ELSE <<Comma>> \o ff[i]]

LEMMA SeparatedIs ==
    ASSUME NEW ff \in Seq(AnyText)
    PROVE  /\ Separated(ff) \in Seq(AnyText) /\ Len(Separated(ff)) = Len(ff)
           /\ \A i \in 1 .. Len(ff) : Separated(ff)[i] = IF i = 1 THEN ff[i] ELSE <<Comma>> \o ff[i]
<1>1. Len(ff) \in Nat /\ DOMAIN ff = 1 .. Len(ff) /\ \A i \in 1 .. Len(ff) : ff[i] \in AnyText
  OBVIOUS
<1>2. \A i \in 1 .. Len(ff) : <<Comma>> \o ff[i] \in AnyText
  <2>1. Comma \in Alphabet BY Texts
  <2>2. <<Comma>> \in AnyText BY <2>1, Texts
  <2> QED BY <1>1, <2>2, Texts
<1>3. Separated(ff) = [i \in 1 .. Len(ff) |-> IF i = 1 THEN ff[i] ELSE <<Comma>> \o ff[i]]
  BY <1>1 DEF Separated
<1>4. Separated(ff) \in [1 .. Len(ff) -> AnyText] BY <1>1, <1>2, <1>3
<1> QED BY SMTT(40), <1>1, <1>3, <1>4, IsASeq, LenProperties

LEMMA SeparatedAppend ==
    ASSUME NEW ff \in Seq(AnyText), NEW f \in AnyText, ff # <<>>
    PROVE  Separated(Append(ff, f)) = Append(Separated(ff), <<Comma>> \o f)
<1> DEFINE u == Append(ff, f)
           x == <<Comma>> \o f
           s1 == Separated(u)
           s2 == Append(Separated(ff), x)
<1>1. /\ u \in Seq(AnyText) /\ Len(ff) \in Nat /\ Len(u) = Len(ff) + 1 /\ u[Len(ff) + 1] = f
      /\ \A i \in 1 .. Len(ff) : u[i] = ff[i]
  BY AppendProperties
<1>2. Len(ff) + 1 # 1 BY EmptySeq
<1>3. x \in AnyText
  <2>1. Comma \in Alphabet BY Texts
  <2>2. <<Comma>> \in AnyText BY <2>1, Texts
  <2> QED BY <2>2, Texts
<1> HIDE DEF u
<1>4. /\ s1 \in Seq(AnyText) /\ Len(s1) = Len(u)
      /\ \A i \in 1 .. Len(u) : s1[i] = IF i = 1 THEN u[i] ELSE <<Comma>> \o u[i]
  BY <1>1, SeparatedIs
<1>5. /\ s2 \in Seq(AnyText) /\ Len(s2) = Len(ff) + 1 /\ s2[Len(ff) + 1] = x
      /\ \A i \in 1 .. Len(ff) : s2[i] = Separated(ff)[i]
  <2> HIDE DEF x
  <2> QED BY <1>3, SeparatedIs, AppendProperties
<1>6. \A i \in 1 .. Len(ff) : Separated(ff)[i] = IF i = 1 THEN ff[i] ELSE <<Comma>> \o ff[i]
  BY SeparatedIs
<1>7. s1[Len(ff) + 1] = x BY <1>1, <1>2, <1>4
<1> HIDE DEF s1, s2, x
<1>8. ASSUME NEW i \in 1 .. Len(s1) PROVE s1[i] = s2[i]
  <2>1. CASE i \in 1 .. Len(ff)
    <3>1. u[i] = ff[i] /\ i \in 1 .. Len(u) BY <2>1, <1>1
    <3>2. s1[i] = IF i = 1 THEN ff[i] ELSE <<Comma>> \o ff[i] BY <3>1, <1>4
    <3>3. s2[i] = IF i = 1 THEN ff[i] ELSE <<Comma>> \o ff[i] BY <2>1, <1>5, <1>6
    <3> QED BY <3>2, <3>3
  <2>2. CASE i = Len(ff) + 1 BY <2>2, <1>5, <1>7
  <2> QED BY <1>1, <1>4, <2>1, <2>2
<1>9. s1 = s2 BY <1>1, <1>4, <1>5, <1>8, SeqEqual
<1> QED BY <1>9 DEF s1, s2, u, x

StateAfter(n) == IF n = 0 THEN "row not begun" ELSE "field not begun"

LEMMA StatesAfter == /\ \A n \in Nat : StateAfter(n) \in NotBegunStates
                     /\ StateAfter(0) = "row not begun"
                     /\ \A n \in Nat : n # 0 => StateAfter(n) = "field not begun"
  BY DEF StateAfter, NotBegunStates

\* The state of the parser before the end of a line.
LEMMA LineSoFar ==
    ASSUME NEW rs \in Seq(Seq(AnyText))
    PROVE  \A n \in Nat : \A ff, row \in Seq(AnyText) : \A f, v \in AnyText :
              Len(row) = n /\ PrintsAll(ff, row) /\ Prints(f, v) =>
                 Read(Start("row not begun", <<>>, rs), FlattenSeq(Separated(Append(ff, f))))
                 = After(StateAfter(n), f, v, row, rs)
<1> DEFINE p == Start("row not begun", <<>>, rs)
           Claim(n, ff, row, f, v) ==
              Len(row) = n /\ PrintsAll(ff, row) /\ Prints(f, v) =>
                 Read(p, FlattenSeq(Separated(Append(ff, f))))
                 = After(StateAfter(n), f, v, row, rs)
           P == {n \in Nat : \A ff, row \in Seq(AnyText) : \A f, v \in AnyText : Claim(n, ff, row, f, v)}
<1>1. 0 \in P
  <2> SUFFICES ASSUME NEW ff \in Seq(AnyText), NEW row \in Seq(AnyText), NEW f \in AnyText,
                      NEW v \in AnyText, Len(row) = 0, PrintsAll(ff, row), Prints(f, v)
      PROVE Read(p, FlattenSeq(Separated(Append(ff, f)))) = After(StateAfter(0), f, v, row, rs)
    BY ZenonT(60)
  <2>1. ff = <<>> /\ row = <<>>
    <3>1. Len(ff) = 0 BY DEF PrintsAll
    <3> QED BY <3>1, EmptySeq
  <2>2. FlattenSeq(Separated(Append(ff, f))) = f
    <3>1. Append(ff, f) = <<f>> BY <2>1
    <3>2. <<f>> \in Seq(AnyText) /\ Len(<<f>>) = 1 OBVIOUS
    <3>3. Separated(<<f>>) = <<f>>
      <4>1. Separated(<<f>>) = [i \in 1 .. 1 |-> IF i = 1 THEN <<f>>[i] ELSE <<Comma>> \o <<f>>[i]]
        BY DEF Separated
      <4> QED BY <4>1
    <3>4. FlattenSeq(<<f>>) = f
      <4>1. <<>> \in Seq(Seq(Alphabet)) /\ f \in Seq(Alphabet) BY EmptySeq DEF AnyText
      <4>2. FlattenSeq(Append(<<>>, f)) = <<>> \o f
        <5> DEFINE none == <<>>
        <5> HIDE DEF none
        <5>1. none \in Seq(Seq(Alphabet)) BY <4>1 DEF none
        <5>2. FlattenSeq(Append(none, f)) = FlattenSeq(none) \o f BY <4>1, <5>1, FlattenAppend
        <5> QED BY <5>2, FlattenNothing DEF none
      <4> QED BY <4>1, <4>2, ConcatEmptySeq
    <3> QED BY <3>1, <3>3, <3>4
  <2>3. Read(Start(StateAfter(0), row, rs), f) = After(StateAfter(0), f, v, row, rs)
    <3>1. 0 \in Nat OBVIOUS
    <3>2. StateAfter(0) \in NotBegunStates BY <3>1, StatesAfter, Zenon
    <3> QED BY <3>2, CellRead
  <2>4. p = Start(StateAfter(0), row, rs) BY <2>1, StatesAfter
  <2> QED BY <2>2, <2>3, <2>4
<1>2. ASSUME NEW n \in Nat, n \in P PROVE n + 1 \in P
  <2>0. n + 1 \in Nat OBVIOUS
  <2> HIDE DEF Claim
  <2> SUFFICES ASSUME NEW ff \in Seq(AnyText), NEW row \in Seq(AnyText), NEW f \in AnyText,
                      NEW v \in AnyText
      PROVE Claim(n + 1, ff, row, f, v)
    BY <2>0
  <2> SUFFICES ASSUME Len(row) = n + 1, PrintsAll(ff, row), Prints(f, v)
      PROVE Read(p, FlattenSeq(Separated(Append(ff, f)))) = After(StateAfter(n + 1), f, v, row, rs)
    BY DEF Claim
  <2>1. Len(ff) = n + 1 BY DEF PrintsAll
  <2>2. PICK ff1 \in Seq(AnyText), g \in AnyText : ff = Append(ff1, g)
    <3>1. ff # <<>> BY <2>1
    <3> QED BY <3>1, SequenceEmptyOrAppend
  <2>3. PICK row1 \in Seq(AnyText), w \in AnyText : row = Append(row1, w)
    <3>1. row # <<>> OBVIOUS
    <3> QED BY <3>1, SequenceEmptyOrAppend
  <2>4. /\ Len(ff1) = n /\ Len(row1) = n /\ ff[n + 1] = g /\ row[n + 1] = w
        /\ \A i \in 1 .. n : ff[i] = ff1[i] /\ row[i] = row1[i]
    BY <2>1, <2>2, <2>3, AppendProperties
  <2>5. PrintsAll(ff1, row1) /\ Prints(g, w)
    <3>1. \A i \in 1 .. n + 1 : Prints(ff[i], row[i]) BY DEF PrintsAll
    <3>2. ASSUME NEW i \in 1 .. n PROVE Prints(ff1[i], row1[i])
      <4>1. i \in 1 .. n + 1 OBVIOUS
      <4>2. Prints(ff[i], row[i]) BY <3>1, <4>1
      <4>3. ff[i] = ff1[i] /\ row[i] = row1[i] BY <2>4
      <4> QED BY <4>2, <4>3
    <3>3. Prints(g, w)
      <4>1. n + 1 \in 1 .. n + 1 OBVIOUS
      <4>2. Prints(ff[n + 1], row[n + 1]) BY <3>1, <4>1
      <4>3. ff[n + 1] = g /\ row[n + 1] = w BY <2>4
      <4> QED BY <4>2, <4>3
    <3> QED BY <2>4, <3>2, <3>3 DEF PrintsAll
  <2> DEFINE state == StateAfter(n)
             sofar == FlattenSeq(Separated(ff))
             comma == <<Comma>>
  <2>6. /\ state \in NotBegunStates
        /\ StateAfter(n + 1) \in NotBegunStates /\ StateAfter(n + 1) = "field not begun"
    <3>1. n + 1 # 0 OBVIOUS
    <3> QED BY <2>0, <3>1, StatesAfter, Zenon
  <2>7. Read(p, sofar) = After(state, g, w, row1, rs)
    <3>1. Claim(n, ff1, row1, g, w) BY <1>2
    <3> QED BY <2>2, <2>4, <2>5, <3>1 DEF Claim
  <2>8. sofar \in Seq(Alphabet) /\ comma \in Seq(Alphabet) /\ f \in Seq(Alphabet)
    <3>1. Comma \in Alphabet BY Texts
    <3>2. comma \in AnyText BY <3>1, Texts
    <3>3. Separated(ff) \in Seq(Seq(Alphabet)) BY SeparatedIs DEF AnyText
    <3> QED BY <3>2, <3>3, FlattenTyped DEF AnyText
  <2>9. FlattenSeq(Separated(Append(ff, f))) = sofar \o (comma \o f)
    <3>1. ff # <<>> BY <2>1
    <3>2. Separated(Append(ff, f)) = Append(Separated(ff), comma \o f) BY <3>1, SeparatedAppend
    <3>3. Separated(ff) \in Seq(Seq(Alphabet)) BY SeparatedIs DEF AnyText
    <3> HIDE DEF comma
    <3>4. comma \o f \in Seq(Alphabet) BY <2>8, ConcatProperties
    <3>5. FlattenSeq(Append(Separated(ff), comma \o f)) = FlattenSeq(Separated(ff)) \o (comma \o f)
      BY <3>3, <3>4, FlattenAppend
    <3> QED BY <3>2, <3>5
  <2>10. Step(After(state, g, w, row1, rs), Comma) = Start("field not begun", row, rs)
    <3> HIDE DEF state
    <3>1. Step(After(state, g, w, row1, rs), Comma) = Start("field not begun", Append(row1, w), rs)
      <4>1. Prints(g, w) /\ state \in NotBegunStates BY <2>5, <2>6
      <4> HIDE DEF Claim, P, p, sofar, comma
      <4>2. row1 \in Seq(AnyText) /\ w \in AnyText /\ g \in AnyText /\ rs \in Seq(Seq(AnyText)) OBVIOUS
      <4> QED BY <4>1, <4>2, CellThenComma, ZenonT(60)
    <3> QED BY <2>3, <3>1
  <2>11. Read(After(state, g, w, row1, rs), comma) = Start("field not begun", row, rs)
    BY <2>10, ReadOne
  <2>12. Read(Start("field not begun", row, rs), f) = After(StateAfter(n + 1), f, v, row, rs)
    <3> DEFINE now == StateAfter(n + 1)
    <3>1. now \in NotBegunStates BY <2>6
    <3> HIDE DEF now
    <3>2. Read(Start(now, row, rs), f) = After(now, f, v, row, rs) BY <3>1, CellRead
    <3> QED BY <2>6, <3>2 DEF now
  <2> HIDE DEF state, sofar, comma, p
  <2>13. comma \o f \in Seq(Alphabet) BY <2>8, ConcatProperties
  <2>14. Read(p, sofar \o (comma \o f)) = Read(Read(p, sofar), comma \o f)
    <3> DEFINE last == comma \o f
    <3>1. last \in Seq(Alphabet) BY <2>13
    <3> HIDE DEF last
    <3>2. Read(p, sofar \o last) = Read(Read(p, sofar), last) BY <2>8, <3>1, ReadConcat
    <3> QED BY <3>2 DEF last
  <2>15. \A q : Read(q, comma \o f) = Read(Read(q, comma), f) BY <2>8, ReadConcat
  <2> QED BY <2>7, <2>9, <2>11, <2>12, <2>14, <2>15
<1>3. \A n \in Nat : n \in P
  <2> HIDE DEF P
  <2> QED BY <1>1, <1>2, AllNumbers
<1> QED BY <1>3

\* A line becomes a record, unless nothing is in it.
LEMMA LineRead ==
    ASSUME NEW ff, NEW row, PrintsAll(ff, row), row # <<>>, NEW rs \in Seq(Seq(AnyText))
    PROVE  Read(Start("row not begun", <<>>, rs), Line(ff))
           = Start("row not begun", <<>>, IF ff = <<<<>>>> THEN rs ELSE Append(rs, row))
<1>1. ff \in Seq(AnyText) /\ row \in Seq(AnyText) /\ Len(ff) = Len(row) /\ ff # <<>>
  BY EmptySeq DEF PrintsAll
<1>2. PICK ff1 \in Seq(AnyText), f \in AnyText : ff = Append(ff1, f)
  BY <1>1, SequenceEmptyOrAppend
<1>3. PICK row1 \in Seq(AnyText), v \in AnyText : row = Append(row1, v)
  BY <1>1, SequenceEmptyOrAppend
<1> DEFINE n == Len(row1)
<1>4. /\ n \in Nat /\ Len(row) = n + 1 /\ Len(ff1) = n /\ ff[n + 1] = f /\ row[n + 1] = v
      /\ \A i \in 1 .. n : ff[i] = ff1[i] /\ row[i] = row1[i]
  BY <1>1, <1>2, <1>3, AppendProperties
<1> HIDE DEF n
<1>5. PrintsAll(ff1, row1) /\ Prints(f, v)
  <2>1. \A i \in 1 .. n + 1 : Prints(ff[i], row[i]) BY <1>4 DEF PrintsAll
  <2>2. \A i \in 1 .. n : Prints(ff1[i], row1[i]) BY <2>1, <1>4
  <2>3. Prints(f, v) BY <2>1, <1>4
  <2> QED BY <1>4, <2>2, <2>3 DEF PrintsAll, n
<1> DEFINE p == Start("row not begun", <<>>, rs)
           state == StateAfter(n)
           sofar == FlattenSeq(Separated(ff))
           end == <<NewLine>>
<1>6. Read(p, sofar) = After(state, f, v, row1, rs)
  <2>1. Len(row1) = n BY DEF n
  <2>2. Read(p, FlattenSeq(Separated(Append(ff1, f)))) = After(StateAfter(n), f, v, row1, rs)
    <3>1. \A ff2, row2 \in Seq(AnyText) : \A f2, v2 \in AnyText :
             Len(row2) = n /\ PrintsAll(ff2, row2) /\ Prints(f2, v2) =>
                Read(p, FlattenSeq(Separated(Append(ff2, f2)))) = After(StateAfter(n), f2, v2, row2, rs)
      BY <1>4, LineSoFar, Zenon
    <3> QED BY <1>5, <2>1, <3>1
  <2> QED BY <1>2, <2>2
<1>7. Line(ff) = sofar \o end BY Zenon DEF Line, Separated
<1>8. sofar \in Seq(Alphabet) /\ end \in Seq(Alphabet)
  <2>1. NewLine \in Alphabet BY Texts
  <2>2. end \in AnyText BY <2>1, Texts
  <2>3. Separated(ff) \in Seq(Seq(Alphabet)) BY <1>1, SeparatedIs DEF AnyText
  <2> QED BY <2>2, <2>3, FlattenTyped DEF AnyText
<1>9. Read(After(state, f, v, row1, rs), end)
      = IF f = <<>> /\ state = "row not begun" THEN Start(state, row1, rs)
        ELSE Start("row not begun", <<>>, Append(rs, row))
  <2>1. state \in NotBegunStates BY <1>4, StatesAfter
  <2> HIDE DEF state
  <2>2. Step(After(state, f, v, row1, rs), NewLine)
        = IF f = <<>> /\ state = "row not begun" THEN Start(state, row1, rs)
          ELSE Start("row not begun", <<>>, Append(rs, Append(row1, v)))
    BY ZenonT(60), <1>5, <2>1, CellThenNewLine
  <2> QED BY <1>3, <2>2, ReadOne
<1>10. (f = <<>> /\ state = "row not begun") <=> ff = <<<<>>>>
  <2>1. CASE n = 0
    <3>1. ff1 = <<>> BY <1>4, <2>1, EmptySeq
    <3>2. ff = <<f>> BY <1>2, <3>1
    <3> QED BY <2>1, <3>2, StatesAfter
  <2>2. CASE n # 0
    <3>1. Len(ff) # 1 BY <1>1, <1>4, <2>2
    <3>2. state = "field not begun" BY <1>4, <2>2, StatesAfter, Zenon
    <3>3. ff # <<<<>>>> BY <3>1
    <3>4. "field not begun" # "row not begun" OBVIOUS
    <3> QED BY <3>2, <3>3, <3>4, Zenon
  <2> QED BY <2>1, <2>2
<1>11. f = <<>> /\ state = "row not begun" => row1 = <<>>
  <2>1. n = 0 => row1 = <<>> BY EmptySeq DEF n
  <2> QED BY <1>4, <2>1, StatesAfter
<1> HIDE DEF p, state, sofar, end
<1>12. Read(p, sofar \o end) = Read(Read(p, sofar), end) BY <1>8, ReadConcat
<1> QED BY <1>6, <1>7, <1>9, <1>10, <1>11, <1>12 DEF p
-----------------------------------------------------------------------------
(* The lines of a table. *)

LEMMA LineIsText == ASSUME NEW ff \in Seq(AnyText) PROVE Line(ff) \in AnyText
<1> DEFINE sofar == FlattenSeq(Separated(ff))
           end == <<NewLine>>
<1>1. Line(ff) = sofar \o end BY Zenon DEF Line, Separated
<1>2. NewLine \in Alphabet BY Texts
<1>3. end \in AnyText BY <1>2, Texts
<1>4. Separated(ff) \in Seq(Seq(Alphabet)) BY SeparatedIs DEF AnyText
<1>5. sofar \in AnyText BY <1>4, FlattenTyped DEF AnyText
<1> HIDE DEF sofar, end
<1> QED BY <1>1, <1>3, <1>5, Texts

Mapped(G, s) == [i \in DOMAIN s |-> G[s[i]]]

LEMMA MapIs ==
    ASSUME NEW S, NEW T, NEW G \in [S -> T], NEW s \in Seq(S)
    PROVE  Mapped(G, s) \in Seq(T)
<1>1. Len(s) \in Nat /\ DOMAIN s = 1 .. Len(s) /\ \A i \in 1 .. Len(s) : s[i] \in S OBVIOUS
<1>2. [i \in DOMAIN s |-> G[s[i]]] = [i \in 1 .. Len(s) |-> G[s[i]]] BY <1>1
<1>3. [i \in 1 .. Len(s) |-> G[s[i]]] \in [1 .. Len(s) -> T] BY <1>1
<1> QED BY <1>1, <1>2, <1>3, IsASeq, LenProperties DEF Mapped

LEMMA MapAppend ==
    ASSUME NEW S, NEW T, NEW G \in [S -> T], NEW s \in Seq(S), NEW x \in S
    PROVE  Mapped(G, Append(s, x)) = Append(Mapped(G, s), G[x])
<1> DEFINE u == Append(s, x)
           m == Mapped(G, s)
           s1 == Mapped(G, u)
           s2 == Append(m, G[x])
<1>1. /\ u \in Seq(S) /\ Len(s) \in Nat /\ Len(u) = Len(s) + 1 /\ u[Len(s) + 1] = x
      /\ \A i \in 1 .. Len(s) : u[i] = s[i]
  BY AppendProperties
<1>2. DOMAIN s = 1 .. Len(s) OBVIOUS
<1> HIDE DEF u
<1>3. DOMAIN u = 1 .. Len(u) BY <1>1
<1>4. s1 \in Seq(T) /\ Len(s1) = Len(u)
  <2>1. DOMAIN s1 = DOMAIN u BY DEF Mapped
  <2>2. s1 \in Seq(T) BY <1>1, MapIs
  <2> HIDE DEF s1
  <2> QED BY <1>1, <1>3, <2>1, <2>2
<1>5. m \in Seq(T) /\ Len(m) = Len(s)
  <2>1. DOMAIN m = DOMAIN s BY DEF Mapped
  <2>2. m \in Seq(T) BY MapIs
  <2> HIDE DEF m
  <2> QED BY <1>1, <1>2, <2>1, <2>2
<1> HIDE DEF m, s1
<1>6. \A i \in 1 .. Len(u) : s1[i] = G[u[i]] BY <1>3 DEF Mapped, s1
<1>7. \A i \in 1 .. Len(s) : m[i] = G[s[i]] BY <1>2 DEF Mapped, m
<1>8. /\ s2 \in Seq(T) /\ Len(s2) = Len(s) + 1 /\ s2[Len(s) + 1] = G[x]
      /\ \A i \in 1 .. Len(s) : s2[i] = m[i]
  BY <1>5, AppendProperties
<1> HIDE DEF s2
<1>9. ASSUME NEW i \in 1 .. Len(s1) PROVE s1[i] = s2[i]
  <2>1. CASE i \in 1 .. Len(s) BY <2>1, <1>1, <1>4, <1>6, <1>7, <1>8
  <2>2. CASE i = Len(s) + 1 BY <2>2, <1>1, <1>4, <1>6, <1>8
  <2> QED BY <1>1, <1>4, <2>1, <2>2
<1>10. s1 = s2 BY <1>1, <1>4, <1>8, <1>9, SeqEqual
<1> QED BY <1>10 DEF u, m, s1, s2

\* A cell as libcsv gives it back, without the quotes that tell '' from NULL.
Bare(v) == IF v = Null THEN <<>> ELSE v

CellsOf(row) == [i \in DOMAIN row |-> Cell(row[i])]
LineOf == [row \in Seq(AnyCell) |-> Line(CellsOf(row))]
SolidOf == [row \in Seq(AnyCell) |-> IF row = <<Null>> THEN <<>> ELSE <<row>>]
BareOf == [row \in Seq(AnyCell) |-> [i \in DOMAIN row |-> Bare(row[i])]]
LinesOf(table) == Mapped(LineOf, table)
SolidRows(table) == Mapped(SolidOf, table)
BareRows(table) == Mapped(BareOf, table)

LEMMA CellIs ==
    ASSUME NEW v \in AnyCell
    PROVE  /\ Cell(v) \in AnyText /\ Bare(v) \in AnyText /\ Prints(Cell(v), Bare(v))
           /\ Cell(v) = <<>> <=> v = Null
<1>1. CASE v = Null BY <1>1, Texts DEF Cell, Bare, Prints
<1>2. CASE v # Null /\ v \in AnyText BY <1>2, FieldIs DEF Cell, Bare, Prints
<1> QED BY <1>1, <1>2 DEF AnyCell

LEMMA CellsAre ==
    ASSUME NEW row \in Seq(AnyCell)
    PROVE  /\ PrintsAll(CellsOf(row), BareOf[row])
           /\ CellsOf(row) = <<<<>>>> <=> row = <<Null>>
           /\ Len(BareOf[row]) = Len(row)
<1>1. Len(row) \in Nat /\ DOMAIN row = 1 .. Len(row) /\ \A i \in 1 .. Len(row) : row[i] \in AnyCell
  OBVIOUS
<1>2. CellsOf(row) = [i \in 1 .. Len(row) |-> Cell(row[i])] BY <1>1 DEF CellsOf
<1>3. \A i \in 1 .. Len(row) : Cell(row[i]) \in AnyText BY <1>1, CellIs
<1>4. CellsOf(row) \in [1 .. Len(row) -> AnyText] BY <1>2, <1>3
<1>5. CellsOf(row) \in Seq(AnyText) /\ Len(CellsOf(row)) = Len(row)
  BY <1>1, <1>4, IsASeq, LenProperties
<1>6. \A i \in 1 .. Len(row) : CellsOf(row)[i] = Cell(row[i]) BY <1>2
<1> DEFINE bare == BareOf[row]
<1>7. bare = [i \in 1 .. Len(row) |-> Bare(row[i])] BY <1>1 DEF BareOf
<1> HIDE DEF bare
<1>8. \A i \in 1 .. Len(row) : bare[i] = Bare(row[i]) /\ bare[i] \in AnyText BY <1>1, <1>7, CellIs
<1>9. bare \in [1 .. Len(row) -> AnyText] BY <1>7, <1>8
<1>10. bare \in Seq(AnyText) /\ Len(bare) = Len(row) BY <1>1, <1>9, IsASeq, LenProperties
<1>11. \A i \in 1 .. Len(row) : Prints(CellsOf(row)[i], bare[i]) BY <1>1, <1>6, <1>8, CellIs
<1>12. PrintsAll(CellsOf(row), bare) BY <1>5, <1>11, <1>10 DEF PrintsAll
<1>13. ASSUME CellsOf(row) = <<<<>>>> PROVE row = <<Null>>
  <2>1. Len(row) = 1 BY <1>5, <1>13
  <2>2. Cell(row[1]) = <<>> BY <1>6, <1>13, <2>1
  <2>3. row[1] = Null BY <1>1, <2>1, <2>2, CellIs
  <2> QED BY <2>1, <2>3
<1>14. ASSUME row = <<Null>> PROVE CellsOf(row) = <<<<>>>>
  <2>1. Len(row) = 1 /\ row[1] = Null BY <1>14
  <2>2. Cell(row[1]) = <<>> BY <1>1, <2>1, CellIs
  <2> QED BY <1>2, <2>1, <2>2
<1> QED BY <1>12, <1>13, <1>14, <1>10 DEF bare

LEMMA LineOfTyped == LineOf \in [Seq(AnyCell) -> Seq(Alphabet)]
<1>1. ASSUME NEW row \in Seq(AnyCell) PROVE Line(CellsOf(row)) \in Seq(Alphabet)
  <2>1. CellsOf(row) \in Seq(AnyText) BY CellsAre DEF PrintsAll
  <2> QED BY <2>1, LineIsText DEF AnyText
<1> QED BY <1>1 DEF LineOf

LEMMA BareOfTyped == BareOf \in [Seq(AnyCell) -> Seq(AnyText)]
<1>1. ASSUME NEW row \in Seq(AnyCell) PROVE BareOf[row] \in Seq(AnyText) BY CellsAre DEF PrintsAll
<1>2. BareOf = [row \in Seq(AnyCell) |-> BareOf[row]] BY DEF BareOf
<1> QED BY <1>1, <1>2

LEMMA SolidOfTyped == SolidOf \in [Seq(AnyCell) -> Seq(Seq(AnyCell))]
<1>1. \A row \in Seq(AnyCell) : <<>> \in Seq(Seq(AnyCell)) /\ <<row>> \in Seq(Seq(AnyCell)) OBVIOUS
<1> QED BY <1>1 DEF SolidOf

LEMMA SolidIs ==
    ASSUME NEW table \in Seq(Seq(AnyCell))
    PROVE  Solid(table) = FlattenSeq(SolidRows(table)) /\ Solid(table) \in Seq(Seq(AnyCell))
<1>1. \A r \in DOMAIN table : table[r] \in Seq(AnyCell) OBVIOUS
<1>2. SolidRows(table) = [r \in DOMAIN table |-> IF table[r] = <<Null>> THEN <<>> ELSE <<table[r]>>]
  BY <1>1 DEF SolidRows, SolidOf, Mapped
<1>3. Solid(table) = FlattenSeq(SolidRows(table)) BY <1>2 DEF Solid
<1>4. SolidRows(table) \in Seq(Seq(Seq(AnyCell))) BY SolidOfTyped, MapIs DEF SolidRows
<1> QED BY <1>3, <1>4, FlattenTyped

LEMMA LinesAppend ==
    ASSUME NEW table \in Seq(Seq(AnyCell)), NEW row \in Seq(AnyCell)
    PROVE  /\ FlattenSeq(LinesOf(Append(table, row))) = FlattenSeq(LinesOf(table)) \o Line(CellsOf(row))
           /\ FlattenSeq(LinesOf(table)) \in Seq(Alphabet) /\ Line(CellsOf(row)) \in Seq(Alphabet)
<1>1. LinesOf(Append(table, row)) = Append(LinesOf(table), LineOf[row])
  BY LineOfTyped, MapAppend DEF LinesOf
<1>2. LinesOf(table) \in Seq(Seq(Alphabet)) /\ LineOf[row] \in Seq(Alphabet)
  BY LineOfTyped, MapIs DEF LinesOf
<1>3. LineOf[row] = Line(CellsOf(row)) BY DEF LineOf
<1> QED BY <1>1, <1>2, <1>3, FlattenAppend, FlattenTyped

LEMMA SolidAppend ==
    ASSUME NEW table \in Seq(Seq(AnyCell)), NEW row \in Seq(AnyCell)
    PROVE  Solid(Append(table, row)) = IF row = <<Null>> THEN Solid(table) ELSE Append(Solid(table), row)
<1>1. SolidRows(Append(table, row)) = Append(SolidRows(table), SolidOf[row])
  BY SolidOfTyped, MapAppend DEF SolidRows
<1>2. SolidRows(table) \in Seq(Seq(Seq(AnyCell))) /\ SolidOf[row] \in Seq(Seq(AnyCell))
  BY SolidOfTyped, MapIs DEF SolidRows
<1>3. SolidOf[row] = IF row = <<Null>> THEN <<>> ELSE <<row>> BY DEF SolidOf
<1>4. FlattenSeq(Append(SolidRows(table), SolidOf[row])) = FlattenSeq(SolidRows(table)) \o SolidOf[row]
  BY <1>2, FlattenAppend
<1>5. Append(table, row) \in Seq(Seq(AnyCell)) BY AppendProperties
<1>6. Solid(Append(table, row)) = Solid(table) \o SolidOf[row] BY <1>1, <1>4, <1>5, SolidIs
<1>7. Solid(table) \o <<>> = Solid(table) /\ Solid(table) \o <<row>> = Append(Solid(table), row)
  BY SolidIs, ConcatEmptySeq, AppendIsConcat
<1> QED BY <1>3, <1>6, <1>7

LEMMA RowsConcat == \A a, b, c \in Seq(Seq(AnyText)) : (a \o b) \o c = a \o (b \o c)
  BY SMTT(40), ConcatAssociative

\* The records of a table that is written.
RecordsOf(table) == BareRows(Solid(table))

LEMMA RecordsAppend ==
    ASSUME NEW table \in Seq(Seq(AnyCell)), NEW row \in Seq(AnyCell)
    PROVE  /\ RecordsOf(Append(table, row)) = RecordsOf(table) \o (IF row = <<Null>> THEN <<>> ELSE <<BareOf[row]>>)
           /\ RecordsOf(table) \in Seq(Seq(AnyText)) /\ BareOf[row] \in Seq(AnyText)
<1>1. Solid(table) \in Seq(Seq(AnyCell)) BY SolidIs
<1>2. RecordsOf(table) \in Seq(Seq(AnyText)) BY <1>1, BareOfTyped, MapIs DEF RecordsOf, BareRows
<1>3. BareRows(Append(Solid(table), row)) = Append(RecordsOf(table), BareOf[row])
  BY <1>1, BareOfTyped, MapAppend DEF RecordsOf, BareRows
<1>4. BareOf[row] \in Seq(AnyText) BY BareOfTyped
<1>5. /\ RecordsOf(table) \o <<>> = RecordsOf(table)
      /\ RecordsOf(table) \o <<BareOf[row]>> = Append(RecordsOf(table), BareOf[row])
  BY <1>2, <1>4, ConcatEmptySeq, AppendIsConcat
<1>6. RecordsOf(Append(table, row)) = IF row = <<Null>> THEN RecordsOf(table) ELSE Append(RecordsOf(table), BareOf[row])
  BY <1>3, SolidAppend DEF RecordsOf
<1>7. CASE row = <<Null>> BY <1>2, <1>4, <1>5, <1>6, <1>7, Zenon
<1>8. CASE row # <<Null>> BY <1>2, <1>4, <1>5, <1>6, <1>8, Zenon
<1> QED BY <1>7, <1>8

\* The lines of the rows become the rows that are kept.
LEMMA LinesRead ==
    ASSUME NEW rs \in Seq(Seq(AnyText))
    PROVE  \A table \in Seq(Seq(AnyCell)) : (\A r \in DOMAIN table : table[r] # <<>>) =>
              Read(Start("row not begun", <<>>, rs), FlattenSeq(LinesOf(table)))
              = Start("row not begun", <<>>, rs \o RecordsOf(table))
<1> DEFINE p == Start("row not begun", <<>>, rs)
           Claim(table) == (\A r \in DOMAIN table : table[r] # <<>>) =>
              Read(p, FlattenSeq(LinesOf(table))) = Start("row not begun", <<>>, rs \o RecordsOf(table))
           P == {n \in Nat : \A table \in Seq(Seq(AnyCell)) : Len(table) = n => Claim(table)}
<1>1. 0 \in P
  <2> SUFFICES ASSUME NEW table \in Seq(Seq(AnyCell)), Len(table) = 0 PROVE Claim(table) OBVIOUS
  <2>1. table = <<>> OBVIOUS
  <2>2. LinesOf(table) = <<>> BY <2>1 DEF LinesOf, Mapped
  <2>3. SolidRows(table) = <<>> BY <2>1 DEF SolidRows, Mapped
  <2>4. RecordsOf(table) = <<>>
    <3>1. Solid(table) = <<>> BY <2>3, SolidIs, FlattenNothing
    <3> QED BY <3>1 DEF RecordsOf, BareRows, Mapped
  <2>5. rs \o RecordsOf(table) = rs BY <2>4, ConcatEmptySeq
  <2> QED BY <2>2, <2>5, FlattenNothing, ReadNothing
<1>2. ASSUME NEW n \in Nat, n \in P PROVE n + 1 \in P
  <2>0. n + 1 \in Nat OBVIOUS
  <2> HIDE DEF Claim
  <2> SUFFICES ASSUME NEW table \in Seq(Seq(AnyCell)), Len(table) = n + 1 PROVE Claim(table)
    BY <2>0
  <2> SUFFICES ASSUME \A r \in DOMAIN table : table[r] # <<>>
      PROVE Read(p, FlattenSeq(LinesOf(table))) = Start("row not begun", <<>>, rs \o RecordsOf(table))
    BY DEF Claim
  <2>1. table # <<>> OBVIOUS
  <2>2. PICK front \in Seq(Seq(AnyCell)), row \in Seq(AnyCell) : table = Append(front, row)
    BY <2>1, SequenceEmptyOrAppend
  <2>3. /\ Len(front) = n /\ table[n + 1] = row
        /\ \A r \in 1 .. n : table[r] = front[r]
    BY <2>2, AppendProperties
  <2>4. row # <<>> /\ \A r \in DOMAIN front : front[r] # <<>>
    <3>1. DOMAIN table = 1 .. n + 1 /\ DOMAIN front = 1 .. n BY <2>3
    <3> QED BY <2>3, <3>1
  <2>5. Read(p, FlattenSeq(LinesOf(front))) = Start("row not begun", <<>>, rs \o RecordsOf(front))
    <3>1. Claim(front) BY <1>2, <2>3
    <3> QED BY <2>4, <3>1 DEF Claim
  <2> DEFINE line == Line(CellsOf(row))
             lines == FlattenSeq(LinesOf(front))
             bare == BareOf[row]
             more == IF row = <<Null>> THEN <<>> ELSE <<bare>>
             kept == RecordsOf(front)
  <2>6. FlattenSeq(LinesOf(table)) = lines \o line /\ lines \in Seq(Alphabet) /\ line \in Seq(Alphabet)
    BY <2>2, LinesAppend
  <2>7. RecordsOf(table) = kept \o more /\ kept \in Seq(Seq(AnyText)) /\ more \in Seq(Seq(AnyText))
    <3>1. RecordsOf(Append(front, row)) = kept \o more
      BY RecordsAppend, Zenon
    <3>3. kept \in Seq(Seq(AnyText)) /\ bare \in Seq(AnyText)
      BY RecordsAppend, Zenon
    <3> HIDE DEF bare, kept
    <3>2. more \in Seq(Seq(AnyText)) BY <3>3
    <3> HIDE DEF more
    <3> QED BY <2>2, <3>1, <3>2, <3>3
  <2>8. Read(Start("row not begun", <<>>, rs \o kept), line)
        = Start("row not begun", <<>>, (rs \o kept) \o more)
    <3> DEFINE before == rs \o kept
    <3>1. before \in Seq(Seq(AnyText)) BY <2>7, ConcatProperties
    <3>2. /\ PrintsAll(CellsOf(row), bare) /\ bare # <<>>
          /\ CellsOf(row) = <<<<>>>> <=> row = <<Null>>
          /\ bare \in Seq(AnyText)
      <4>1. Len(bare) = Len(row) /\ Len(row) # 0 BY <2>4, CellsAre
      <4>2. bare # <<>> BY <4>1
      <4> QED BY <4>2, CellsAre DEF PrintsAll
    <3> HIDE DEF bare
    <3>3. before \o more = IF row = <<Null>> THEN before ELSE Append(before, bare)
      BY <3>1, <3>2, ConcatEmptySeq, AppendIsConcat
    <3> HIDE DEF before, more
    <3>4. Read(Start("row not begun", <<>>, before), line)
          = Start("row not begun", <<>>, IF CellsOf(row) = <<<<>>>> THEN before ELSE Append(before, bare))
      BY <3>1, <3>2, LineRead
    <3> QED BY <3>2, <3>3, <3>4 DEF before
  <2> HIDE DEF line, lines, more, kept, bare, p
  <2>9. (rs \o kept) \o more = rs \o (kept \o more) BY <2>7, RowsConcat
  <2>10. Read(p, lines \o line) = Read(Read(p, lines), line) BY <2>6, ReadConcat
  <2> QED BY <2>5, <2>6, <2>7, <2>8, <2>9, <2>10 DEF lines, kept
<1>3. \A n \in Nat : n \in P
  <2> HIDE DEF P
  <2> QED BY <1>1, <1>2, AllNumbers
<1>4. \A table \in Seq(Seq(AnyCell)) : Len(table) \in Nat OBVIOUS
<1> QED BY <1>3, <1>4
-----------------------------------------------------------------------------
(* Writing a table and reading it. *)

HeaderFields(cols) == [i \in DOMAIN cols |-> Field(cols[i].name)]

LEMMA HeaderIs ==
    ASSUME NEW cols \in AnyTable
    PROVE  /\ PrintsAll(HeaderFields(cols), Names(cols)) /\ Names(cols) # <<>>
           /\ HeaderFields(cols) # <<<<>>>>
           /\ Header(cols) = Line(HeaderFields(cols)) /\ Header(cols) \in AnyText
<1>1. /\ Len(cols) \in Nat /\ DOMAIN cols = 1 .. Len(cols) /\ Len(cols) # 0
      /\ \A i \in 1 .. Len(cols) : cols[i].name \in AnyText
  <2> DEFINE C == [name : AnyText, type : {"TEXT", "INTEGER"}]
  <2>1. cols \in Seq(C) /\ cols # <<>> BY DEF AnyTable
  <2>2. \A c \in C : c.name \in AnyText OBVIOUS
  <2> HIDE DEF C
  <2>3. Len(cols) \in Nat /\ DOMAIN cols = 1 .. Len(cols) /\ Len(cols) # 0 BY <2>1
  <2>4. \A i \in 1 .. Len(cols) : cols[i] \in C BY <2>1
  <2> QED BY <2>2, <2>3, <2>4
<1> DEFINE ff == HeaderFields(cols)
           names == Names(cols)
<1>2. names = [i \in 1 .. Len(cols) |-> cols[i].name] BY <1>1 DEF Names
<1>3. ff = [i \in 1 .. Len(cols) |-> Field(cols[i].name)] BY <1>1 DEF HeaderFields
<1>4. Header(cols) = Line(ff) BY DEF Header, HeaderFields
<1> HIDE DEF ff, names
<1>5. names \in [1 .. Len(cols) -> AnyText] BY <1>1, <1>2
<1>6. names \in Seq(AnyText) /\ Len(names) = Len(cols) BY <1>1, <1>5, IsASeq, LenProperties
<1>7. \A i \in 1 .. Len(cols) : Field(cols[i].name) \in AnyText /\ Field(cols[i].name) # <<>>
  BY <1>1, FieldIs
<1>8. ff \in [1 .. Len(cols) -> AnyText] BY <1>3, <1>7
<1>9. ff \in Seq(AnyText) /\ Len(ff) = Len(cols) BY <1>1, <1>8, IsASeq, LenProperties
<1>10. \A i \in 1 .. Len(cols) : Prints(ff[i], names[i])
  BY <1>1, <1>2, <1>3, <1>7 DEF Prints
<1>11. PrintsAll(ff, names) BY <1>6, <1>9, <1>10 DEF PrintsAll
<1>12. ff[1] # <<>> BY <1>1, <1>3, <1>7
<1>13. ff # <<<<>>>> BY <1>12
<1>14. Line(ff) \in AnyText BY <1>9, LineIsText
<1>15. names # <<>> BY <1>1, <1>6
<1> QED BY <1>4, <1>11, <1>13, <1>14, <1>15 DEF ff, names

LEMMA WriteIs ==
    ASSUME NEW cols \in AnyTable, NEW table \in Seq(Seq(AnyCell))
    PROVE  /\ Write(cols, table) = Header(cols) \o FlattenSeq(LinesOf(table))
           /\ FlattenSeq(LinesOf(table)) \in AnyText /\ Write(cols, table) \in AnyText
<1>1. \A r \in DOMAIN table : table[r] \in Seq(AnyCell) OBVIOUS
<1>2. LinesOf(table) = [r \in DOMAIN table |-> Line([i \in DOMAIN table[r] |-> Cell(table[r][i])])]
  BY <1>1 DEF LinesOf, Mapped, LineOf, CellsOf
<1>3. LinesOf(table) \in Seq(Seq(Alphabet)) BY LineOfTyped, MapIs DEF LinesOf
<1>4. FlattenSeq(LinesOf(table)) \in AnyText BY <1>3, FlattenTyped DEF AnyText
<1>5. Write(cols, table) = Header(cols) \o FlattenSeq(LinesOf(table)) BY <1>2 DEF Write
<1> QED BY <1>4, <1>5, HeaderIs, Texts

LEMMA WrittenRecords ==
    ASSUME NEW cols \in AnyTable, NEW table \in Seq(Seq(AnyCell)),
           \A r \in DOMAIN table : table[r] # <<>>
    PROVE  Records(Write(cols, table)) = <<Names(cols)>> \o RecordsOf(table)
<1> DEFINE head == Header(cols)
           lines == FlattenSeq(LinesOf(table))
           rs == <<Names(cols)>>
<1>1. head \in Seq(Alphabet) /\ lines \in Seq(Alphabet) /\ Write(cols, table) = head \o lines
  BY HeaderIs, WriteIs DEF AnyText
<1>2. rs \in Seq(Seq(AnyText))
  <2>1. Names(cols) \in Seq(AnyText) BY HeaderIs DEF PrintsAll
  <2> QED BY <2>1
<1>3. Read(Fresh, head) = Start("row not begun", <<>>, rs)
  <2> DEFINE none == <<>>
  <2>1. none \in Seq(Seq(AnyText)) /\ Append(none, Names(cols)) = rs OBVIOUS
  <2>2. Fresh = Start("row not begun", <<>>, none) BY DEF Fresh
  <2> HIDE DEF none
  <2>3. Read(Start("row not begun", <<>>, none), Line(HeaderFields(cols)))
        = Start("row not begun", <<>>,
                IF HeaderFields(cols) = <<<<>>>> THEN none ELSE Append(none, Names(cols)))
    BY <2>1, HeaderIs, LineRead
  <2> QED BY <2>1, <2>2, <2>3, HeaderIs
<1>4. Read(Start("row not begun", <<>>, rs), lines) = Start("row not begun", <<>>, rs \o RecordsOf(table))
  <2> HIDE DEF rs
  <2> QED BY <1>2, LinesRead
<1> HIDE DEF head, lines, rs
<1>5. Read(Fresh, head \o lines) = Read(Read(Fresh, head), lines) BY <1>1, ReadConcat
<1>6. Read(Fresh, Write(cols, table)) = Start("row not begun", <<>>, rs \o RecordsOf(table))
  BY <1>1, <1>3, <1>4, <1>5
<1>7. Records(Write(cols, table)) = Fini(Start("row not begun", <<>>, rs \o RecordsOf(table))).records
  BY <1>6 DEF Records
<1>8. Fini(Start("row not begun", <<>>, rs \o RecordsOf(table))) = Start("row not begun", <<>>, rs \o RecordsOf(table))
  BY DEF Fini, Start
<1>9. Start("row not begun", <<>>, rs \o RecordsOf(table)).records = rs \o RecordsOf(table) BY DEF Start
<1> QED BY <1>7, <1>8, <1>9 DEF rs
-----------------------------------------------------------------------------
(* The values of cells. *)

LEMMA MinIs ==
    ASSUME NEW S \in SUBSET Nat, S # {}
    PROVE  Min(S) \in S /\ \A y \in S : Min(S) <= y
<1>1. \E x \in S : \A y \in S : x <= y BY LeastElement
<1> QED BY <1>1 DEF Min

LEMMA DigitsAre == /\ Digits \subseteq Alphabet /\ "0" \in Digits
                   /\ \A c \in Digits : c \notin {Space, NewLine}
  BY DEF Digits, Alphabet, Space, NewLine

LEMMA MinOfAll ==
    ASSUME NEW S \in SUBSET Nat, 1 \in S, 0 \notin S
    PROVE  Min(S) = 1
<1> DEFINE m == Min(S)
<1>0. S # {} OBVIOUS
<1>1. m \in S /\ \A y \in S : m <= y BY <1>0, MinIs
<1> HIDE DEF m
<1>2. m \in Nat /\ m # 0 /\ m <= 1 BY <1>1
<1> QED BY <1>2 DEF m

LEMMA NoMargin ==
    ASSUME NEW v \in Seq(Digits), v # <<>>
    PROVE  WithoutMargin(v) = v
<1> DEFINE solid == {i \in DOMAIN v : v[i] \notin {Space, NewLine}}
<1>1. DOMAIN v = 1 .. Len(v) /\ Len(v) \in Nat /\ Len(v) # 0 /\ \A i \in DOMAIN v : v[i] \in Digits
  OBVIOUS
<1>2. solid = 1 .. Len(v) BY <1>1, DigitsAre
<1>3. WithoutMargin(v) = IF solid = {} THEN <<>> ELSE SubSeq(v, Min(solid), Len(v))
  BY DEF WithoutMargin
<1> HIDE DEF solid
<1>4. solid # {} /\ Min(solid) = 1
  <2>1. solid \in SUBSET Nat /\ 1 \in solid /\ 0 \notin solid BY <1>1, <1>2
  <2> QED BY <2>1, MinOfAll
<1> QED BY <1>3, <1>4, SubSeqFull

LEMMA ValueParsed ==
    ASSUME NEW column \in [name : AnyText, type : {"TEXT", "INTEGER"}], NEW v, IsValue(column, v)
    PROVE  /\ v \in AnyCell /\ IsCell(column, Bare(v))
           /\ Parsed(column, Bare(v)) = IF v = <<>> THEN Null ELSE v
<1>1. CASE v = Null BY <1>1 DEF IsCell, Parsed, Bare, AnyCell, Null
<1> SUFFICES ASSUME v # Null
             PROVE  /\ v \in AnyText /\ IsCell(column, v)
                    /\ Parsed(column, v) = IF v = <<>> THEN Null ELSE v
  BY <1>1 DEF Bare, AnyCell
<1>2. CASE column.type = "TEXT" /\ v \in AnyText BY <1>2 DEF IsCell, Parsed
<1>3. CASE v \in Seq(Digits) /\ v # <<>> /\ (v = <<"0">> \/ v[1] # "0")
  <2>1. WithoutMargin(v) = v BY <1>3, NoMargin
  <2>2. DOMAIN v = 1 .. Len(v) /\ Len(v) \in Nat /\ Len(v) # 0 /\ \A i \in DOMAIN v : v[i] \in Digits
    BY <1>3
  <2>3. v \in AnyText
    <3>1. v \in Seq(Alphabet) BY <2>2, DigitsAre, <1>3
    <3> QED BY <3>1 DEF AnyText
  <2>4. IsCell(column, v) BY <1>3, <2>1, <2>2 DEF IsCell
  <2> DEFINE significant == {i \in DOMAIN v : v[i] # "0"}
  <2>5. Parsed(column, v) = IF column.type = "TEXT" THEN v
                            ELSE IF significant = {} THEN <<"0">>
                            ELSE SubSeq(v, Min(significant), Len(v))
    BY <1>3, <2>1 DEF Parsed
  <2>6. CASE v = <<"0">>
    <3>1. significant = {} BY <2>6
    <3> QED BY <2>3, <2>4, <2>5, <2>6, <3>1
  <2>7. CASE v[1] # "0"
    <3>1. significant \in SUBSET Nat /\ 1 \in significant /\ 0 \notin significant BY <2>2, <2>7
    <3> HIDE DEF significant
    <3>2. Min(significant) = 1 BY <3>1, MinOfAll
    <3>3. SubSeq(v, 1, Len(v)) = v BY <1>3, SubSeqFull
    <3> QED BY <1>3, <2>3, <2>4, <2>5, <3>1, <3>2, <3>3
  <2> QED BY <1>3, <2>6, <2>7
<1>4. v = <<"0">> => v \in Seq(Digits) /\ v # <<>> BY DigitsAre
<1> QED BY <1>2, <1>3, <1>4 DEF IsValue

LEMMA ParsedIsValue ==
    ASSUME NEW column \in [name : AnyText, type : {"TEXT", "INTEGER"}], NEW t \in AnyText,
           IsCell(column, t)
    PROVE  IsValue(column, Parsed(column, t)) /\ Parsed(column, t) \in AnyCell
<1>1. CASE column.type = "TEXT" /\ t # <<>> BY <1>1 DEF IsValue, Parsed, AnyCell
<1>2. CASE t = <<>> BY <1>2 DEF IsValue, Parsed, AnyCell
<1>3. CASE column.type # "TEXT" /\ t # <<>>
  <2> DEFINE number == WithoutMargin(t)
             solid == {i \in DOMAIN t : t[i] \notin {Space, NewLine}}
             significant == {i \in DOMAIN number : number[i] # "0"}
  <2>1. number # <<>> /\ \A i \in DOMAIN number : number[i] \in Digits BY <1>3 DEF IsCell
  <2>2. Parsed(column, t) = IF significant = {} THEN <<"0">>
                            ELSE SubSeq(number, Min(significant), Len(number))
    BY <1>3 DEF Parsed
  <2>3. number = IF solid = {} THEN <<>> ELSE SubSeq(t, Min(solid), Len(t)) BY DEF WithoutMargin
  <2>4. DOMAIN t = 1 .. Len(t) /\ Len(t) \in Nat BY DEF AnyText
  <2>5. solid \in SUBSET Nat /\ 0 \notin solid /\ solid \subseteq 1 .. Len(t) BY <2>4
  <2> HIDE DEF solid, number
  <2>6. number \in Seq(Digits)
    <3>1. solid # {} /\ number = SubSeq(t, Min(solid), Len(t)) BY <2>1, <2>3
    <3>2. Min(solid) \in 1 .. Len(t) BY <2>5, <3>1, MinIs
    <3>3. number \in Seq(Alphabet) BY <2>4, <3>1, <3>2, SubSeqProperties DEF AnyText
    <3>4. number \in [1 .. Len(number) -> Digits] /\ Len(number) \in Nat BY <2>1, <3>3
    <3> QED BY <3>4, IsASeq
  <2>7. DOMAIN number = 1 .. Len(number) /\ Len(number) \in Nat BY <2>6
  <2>8. significant \in SUBSET Nat /\ significant \subseteq 1 .. Len(number)
        /\ \A i \in significant : number[i] # "0"
    BY <2>7
  <2> HIDE DEF significant
  <2>9. CASE significant = {}
    <3>1. Parsed(column, t) = <<"0">> BY <2>2, <2>9
    <3>2. <<"0">> \in AnyText BY DigitsAre, Texts
    <3> QED BY <3>1, <3>2 DEF IsValue, AnyCell
  <2>10. CASE significant # {}
    <3> DEFINE m == Min(significant)
               v == SubSeq(number, m, Len(number))
    <3>1. m \in significant BY <2>8, <2>10, MinIs
    <3>2. m \in 1 .. Len(number) /\ number[m] # "0" BY <2>8, <3>1
    <3> HIDE DEF m
    <3>3. /\ v \in Seq(Digits) /\ Len(v) = Len(number) - m + 1
          /\ \A i \in 1 .. Len(number) - m + 1 : v[i] = number[m + i - 1]
      BY <2>6, <2>7, <3>2, SubSeqProperties
    <3>4. v[1] # "0"
      <4>1. 1 \in 1 .. Len(number) - m + 1 /\ m + 1 - 1 = m BY <2>7, <3>2
      <4> QED BY <3>2, <3>3, <4>1
    <3>5. Parsed(column, t) = v BY <2>2, <2>10 DEF m
    <3> HIDE DEF v
    <3>6. v \in AnyText
      <4>1. v \in Seq(Alphabet) BY <3>3, DigitsAre
      <4> QED BY <4>1 DEF AnyText
    <3>7. v # <<>> BY <2>7, <3>2, <3>3
    <3> QED BY <3>3, <3>4, <3>5, <3>6, <3>7 DEF IsValue, AnyCell
  <2> QED BY <2>9, <2>10
<1> QED BY <1>1, <1>2, <1>3
-----------------------------------------------------------------------------
\* What the parser holds while it reads a text.
States == {"row not begun", "field not begun", "field begun", "might have ended"}
Reader == [state : States, quoted : BOOLEAN, spaces : Nat, entry : AnyText,
           fields : Seq(AnyText), records : Seq(Seq(AnyText))]

LEMMA StartTyped ==
    ASSUME NEW state \in States, NEW fs \in Seq(AnyText), NEW rs \in Seq(Seq(AnyText))
    PROVE  Start(state, fs, rs) \in Reader
  BY Texts DEF Start, Reader

LEMMA SubmitTyped ==
    ASSUME NEW p \in Reader, NEW n \in Nat
    PROVE  SubmitField(p, n) \in Reader /\ SubmitRow(p) \in Reader
<1>1. p.entry \in Seq(Alphabet) /\ p.fields \in Seq(AnyText) /\ p.records \in Seq(Seq(AnyText))
  BY DEF Reader, AnyText
<1> DEFINE field == SubSeq(p.entry, 1, Len(p.entry) - n)
           fs == Append(p.fields, field)
           rs == Append(p.records, p.fields)
<1>2. field \in AnyText BY <1>1 DEF AnyText
<1>3. fs \in Seq(AnyText) /\ rs \in Seq(Seq(AnyText)) /\ <<>> \in Seq(AnyText)
  BY <1>1, <1>2, AppendProperties
<1>4. SubmitField(p, n) = Start("field not begun", fs, p.records)
      /\ SubmitRow(p) = Start("row not begun", <<>>, rs)
  BY DEF SubmitField, SubmitRow
<1> HIDE DEF fs, rs
<1>5. "field not begun" \in States /\ "row not begun" \in States BY DEF States
<1> QED BY <1>1, <1>3, <1>4, <1>5, StartTyped

LEMMA CharTyped ==
    ASSUME NEW p \in Reader, NEW c \in Alphabet, NEW state \in States, NEW spaces \in Nat
    PROVE  SubmitChar(p, c, state, spaces) \in Reader
<1>1. p.entry \in AnyText BY DEF Reader
<1>2. Append(p.entry, c) \in AnyText BY <1>1, Texts
<1> QED BY <1>2 DEF SubmitChar, Reader

LEMMA StepTyped ==
    ASSUME NEW p \in Reader, NEW c \in Alphabet
    PROVE  Step(p, c) \in Reader
<1>1. p.spaces \in Nat /\ p.spaces + 1 \in Nat /\ 0 \in Nat BY DEF Reader
<1>2. "field begun" \in States /\ "might have ended" \in States BY DEF States
<1>3. \A n \in Nat : SubmitField(p, n) \in Reader /\ SubmitRow(SubmitField(p, n)) \in Reader
  <2>1. ASSUME NEW n \in Nat PROVE SubmitField(p, n) \in Reader BY SubmitTyped
  <2>2. ASSUME NEW q \in Reader PROVE SubmitRow(q) \in Reader BY <1>1, SubmitTyped
  <2> QED BY <2>1, <2>2
<1>4. \A state \in {"field begun", "might have ended"} : \A n \in Nat :
         SubmitChar(p, c, state, n) \in Reader
  BY <1>2, CharTyped
<1>5. [p EXCEPT !.state = "field begun", !.quoted = TRUE] \in Reader
      /\ [p EXCEPT !.state = "field begun"] \in Reader
  BY <1>2 DEF Reader
<1>6. NotBegun(p, c) \in Reader BY <1>1, <1>3, <1>4, <1>5 DEF NotBegun
<1>7. InField(p, c) \in Reader BY <1>1, <1>3, <1>4, <1>5 DEF InField
<1>8. AfterQuote(p, c) \in Reader
  <2>1. c = Quote => p.spaces = 0 \/ p.spaces # 0 OBVIOUS
  <2> QED BY <1>1, <1>3, <1>4, <1>5, <2>1 DEF AfterQuote
<1> QED BY <1>6, <1>7, <1>8 DEF Step

LEMMA ReadTyped == \A t \in AnyText : Read(Fresh, t) \in Reader
<1> DEFINE P == {n \in Nat : \A t \in AnyText : Len(t) = n => Read(Fresh, t) \in Reader}
<1>1. 0 \in P
  <2>1. <<>> \in Seq(AnyText) /\ <<>> \in Seq(Seq(AnyText)) OBVIOUS
  <2>2. Fresh \in Reader
    <3>1. "row not begun" \in States BY DEF States
    <3> QED BY <2>1, <3>1, StartTyped DEF Fresh
  <2>3. \A t \in AnyText : Len(t) = 0 => t = <<>> BY DEF AnyText
  <2> QED BY <2>2, <2>3, ReadNothing
<1>2. ASSUME NEW n \in Nat, n \in P PROVE n + 1 \in P
  <2> SUFFICES ASSUME NEW t \in AnyText, Len(t) = n + 1 PROVE Read(Fresh, t) \in Reader OBVIOUS
  <2>1. t \in Seq(Alphabet) /\ t # <<>> BY DEF AnyText
  <2>2. PICK front \in Seq(Alphabet), c \in Alphabet : t = Append(front, c)
    BY <2>1, SequenceEmptyOrAppend
  <2>3. Len(front) = n BY <2>2
  <2>4. Read(Fresh, front) \in Reader BY <1>2, <2>3 DEF AnyText
  <2>5. Read(Fresh, t) = Step(Read(Fresh, front), c) BY <2>2, ReadAppend
  <2> QED BY <2>4, <2>5, StepTyped
<1>3. \A n \in Nat : n \in P
  <2> HIDE DEF P
  <2> QED BY <1>1, <1>2, AllNumbers
<1>4. \A t \in AnyText : Len(t) \in Nat BY DEF AnyText
<1> QED BY <1>3, <1>4

LEMMA RecordsTyped == \A t \in AnyText : Records(t) \in Seq(Seq(AnyText))
<1> SUFFICES ASSUME NEW t \in AnyText PROVE Records(t) \in Seq(Seq(AnyText)) OBVIOUS
<1> DEFINE p == Read(Fresh, t)
<1>1. p \in Reader BY ReadTyped
<1> HIDE DEF p
<1>2. p.spaces \in Nat /\ p.spaces + 1 \in Nat /\ (IF p.quoted THEN 0 ELSE p.spaces) \in Nat
  BY <1>1 DEF Reader
<1>3. \A n \in Nat : SubmitRow(SubmitField(p, n)) \in Reader
  <2>1. ASSUME NEW n \in Nat PROVE SubmitField(p, n) \in Reader BY <1>1, SubmitTyped
  <2>2. ASSUME NEW q \in Reader PROVE SubmitRow(q) \in Reader BY <1>2, SubmitTyped
  <2> QED BY <2>1, <2>2
<1>4. Fini(p) \in Reader BY <1>1, <1>2, <1>3 DEF Fini
<1>5. Fini(p).records \in Seq(Seq(AnyText)) BY <1>4 DEF Reader
<1> QED BY <1>5 DEF Records, p
-----------------------------------------------------------------------------
\* The rows a table may have.
Good(cols) == {row \in Seq(AnyCell) : IsRow(cols, row)}

LEMMA TableColumns ==
    ASSUME NEW cols \in AnyTable
    PROVE  /\ Len(cols) \in Nat /\ Len(cols) # 0 /\ DOMAIN cols = 1 .. Len(cols)
           /\ \A i \in DOMAIN cols : cols[i] \in [name : AnyText, type : {"TEXT", "INTEGER"}]
<1> DEFINE C == [name : AnyText, type : {"TEXT", "INTEGER"}]
<1>1. cols \in Seq(C) /\ cols # <<>> BY DEF AnyTable
<1> HIDE DEF C
<1>2. Len(cols) \in Nat /\ DOMAIN cols = 1 .. Len(cols) /\ Len(cols) # 0 BY <1>1
<1>3. \A i \in DOMAIN cols : cols[i] \in C BY <1>1
<1> QED BY <1>2, <1>3 DEF C

\* What is loaded are rows of the table.
LEMMA LoadedIsTable ==
    ASSUME NEW cols \in AnyTable, NEW t \in AnyText, Load(cols, t) # LoadError
    PROVE  Load(cols, t) \in Seq(Good(cols))
<1> DEFINE records == Records(t)
           body == Tail(records)
           Row(r) == [i \in DOMAIN cols |-> Parsed(cols[i], body[r][i])]
<1>1. records \in Seq(Seq(AnyText)) BY RecordsTyped
<1> HIDE DEF records
<1>2. /\ records # <<>>
      /\ \A r \in DOMAIN body : Len(body[r]) = Len(cols) /\ \A i \in DOMAIN cols : IsCell(cols[i], body[r][i])
      /\ Load(cols, t) = [r \in DOMAIN body |-> Row(r)]
  BY DEF Load, records
<1>3. body \in Seq(Seq(AnyText)) BY <1>1, <1>2
<1> HIDE DEF body
<1>4. DOMAIN body = 1 .. Len(body) /\ Len(body) \in Nat /\ \A r \in DOMAIN body : body[r] \in Seq(AnyText)
  BY <1>3
<1>5. ASSUME NEW r \in DOMAIN body PROVE Row(r) \in Good(cols)
  <2>1. \A i \in DOMAIN cols : body[r][i] \in AnyText
    <3>1. Len(body[r]) = Len(cols) /\ body[r] \in Seq(AnyText) BY <1>2, <1>4, <1>5
    <3>2. DOMAIN cols = 1 .. Len(cols) BY TableColumns
    <3> QED BY <3>1, <3>2
  <2>2. \A i \in DOMAIN cols : IsCell(cols[i], body[r][i]) BY <1>2, <1>5
  <2>3. \A i \in DOMAIN cols : IsValue(cols[i], Row(r)[i]) /\ Row(r)[i] \in AnyCell
    BY <2>1, <2>2, TableColumns, ParsedIsValue
  <2>4. DOMAIN Row(r) = DOMAIN cols OBVIOUS
  <2>5. Row(r) \in [1 .. Len(cols) -> AnyCell] /\ Len(cols) \in Nat BY <2>3, TableColumns
  <2>6. Row(r) \in Seq(AnyCell) BY <2>5, IsASeq
  <2> HIDE DEF Row
  <2> QED BY <2>3, <2>4, <2>6 DEF Good, IsRow
<1> HIDE DEF Row
<1>6. Load(cols, t) \in [1 .. Len(body) -> Good(cols)] BY <1>2, <1>4, <1>5
<1> QED BY <1>4, <1>6, IsASeq

\* The rows that are kept are rows of the table.
LEMMA SolidTyped ==
    ASSUME NEW cols \in AnyTable, NEW table \in Seq(Good(cols))
    PROVE  Solid(table) \in Seq(Good(cols))
<1> DEFINE G == Good(cols)
           keep == [row \in G |-> IF row = <<Null>> THEN <<>> ELSE <<row>>]
<1>1. keep \in [G -> Seq(G)]
  <2> HIDE DEF G
  <2> QED OBVIOUS
<1>2. Solid(table) = FlattenSeq(Mapped(keep, table))
  <2>1. \A r \in DOMAIN table : table[r] \in G OBVIOUS
  <2> HIDE DEF G
  <2> QED BY <2>1 DEF Solid, Mapped
<1> HIDE DEF G, keep
<1>3. Mapped(keep, table) \in Seq(Seq(G))
  <2>1. table \in Seq(G) BY DEF G
  <2> QED BY <1>1, <2>1, MapIs
<1>4. FlattenSeq(Mapped(keep, table)) \in Seq(G) BY <1>3, FlattenTyped
<1> QED BY <1>2, <1>4 DEF G

LEMMA GoodIs ==
    ASSUME NEW cols \in AnyTable, NEW table \in Seq(Good(cols))
    PROVE  /\ table \in Seq(Seq(AnyCell))
           /\ \A r \in DOMAIN table : table[r] # <<>> /\ IsRow(cols, table[r])
<1>1. \A r \in DOMAIN table : table[r] \in Good(cols) OBVIOUS
<1>2. \A r \in DOMAIN table : table[r] \in Seq(AnyCell) /\ IsRow(cols, table[r]) BY <1>1 DEF Good
<1>3. table \in [1 .. Len(table) -> Seq(AnyCell)] /\ Len(table) \in Nat
  <2>1. DOMAIN table = 1 .. Len(table) /\ Len(table) \in Nat /\ table = [r \in DOMAIN table |-> table[r]]
    OBVIOUS
  <2> QED BY <1>2, <2>1
<1>4. table \in Seq(Seq(AnyCell)) BY <1>3, IsASeq
<1>5. \A r \in DOMAIN table : table[r] # <<>>
  <2>1. 1 \in DOMAIN cols BY TableColumns
  <2>2. \A r \in DOMAIN table : 1 \in DOMAIN table[r] BY <1>2, <2>1 DEF IsRow
  <2> QED BY <2>2
<1> QED BY <1>2, <1>4, <1>5

LEMMA HeadTailOfConcat ==
    ASSUME NEW S, NEW x \in S, NEW s \in Seq(S)
    PROVE  <<x>> \o s # <<>> /\ Head(<<x>> \o s) = x /\ Tail(<<x>> \o s) = s
<1> DEFINE one == <<x>>
           t == one \o s
           u == Tail(t)
<1>1. one \in Seq(S) /\ Len(one) = 1 /\ one[1] = x /\ Len(s) \in Nat OBVIOUS
<1> HIDE DEF one
<1>2. /\ t \in Seq(S) /\ Len(t) = 1 + Len(s) /\ t[1] = x
      /\ \A i \in 1 .. Len(s) : t[1 + i] = s[i]
  <2>1. t \in Seq(S) /\ Len(t) = Len(one) + Len(s) BY <1>1, ConcatProperties
  <2>2. \A i \in 1 .. Len(one) + Len(s) : t[i] = IF i <= Len(one) THEN one[i] ELSE s[i - Len(one)]
    BY <1>1, ConcatProperties
  <2> HIDE DEF t
  <2>3. \A i \in 1 .. 1 + Len(s) : t[i] = IF i <= 1 THEN x ELSE s[i - 1]
    <3> SUFFICES ASSUME NEW i \in 1 .. 1 + Len(s) PROVE t[i] = IF i <= 1 THEN x ELSE s[i - 1] OBVIOUS
    <3>1. i <= 1 => i = 1 BY <1>1
    <3> QED BY <1>1, <2>2, <3>1
  <2>4. t[1] = x BY <1>1, <2>3
  <2>5. ASSUME NEW i \in 1 .. Len(s) PROVE t[1 + i] = s[i]
    <3>1. 1 + i \in 1 .. 1 + Len(s) /\ ~ (1 + i <= 1) /\ (1 + i) - 1 = i BY <1>1
    <3> QED BY <2>3, <3>1
  <2> QED BY <1>1, <2>1, <2>4, <2>5
<1> HIDE DEF t
<1>3. t # <<>> /\ Head(t) = t[1] BY <1>1, <1>2
<1>4. u \in Seq(S) /\ Len(u) = Len(s) /\ \A i \in 1 .. Len(u) : u[i] = t[i + 1]
  BY <1>1, <1>2, <1>3, HeadTailProperties
<1> HIDE DEF u
<1>5. u = s
  <2>1. \A i \in 1 .. Len(u) : u[i] = s[i] BY <1>1, <1>2, <1>4
  <2> QED BY <1>4, <2>1, SeqEqual
<1> QED BY <1>2, <1>3, <1>5 DEF u, t, one

\* A table that was written is read.
LEMMA LoadWritten ==
    ASSUME NEW cols \in AnyTable, NEW table \in Seq(Good(cols))
    PROVE  Load(cols, Write(cols, table)) = Kept(table)
<1> DEFINE solid == Solid(table)
           body == BareRows(solid)
           names == Names(cols)
           records == Records(Write(cols, table))
<1>1. solid \in Seq(Good(cols)) BY SolidTyped
<1>2. records = <<names>> \o body BY GoodIs, WrittenRecords DEF RecordsOf
<1>3. /\ solid \in Seq(Seq(AnyCell))
      /\ \A r \in DOMAIN solid : IsRow(cols, solid[r]) /\ solid[r] \in Seq(AnyCell)
  <2> HIDE DEF solid
  <2> QED BY <1>1, GoodIs DEF IsRow
<1>4. names \in Seq(AnyText) BY HeaderIs DEF PrintsAll
<1>5. Load(cols, Write(cols, table)) =
        IF /\ records # <<>> /\ Head(records) = names
           /\ \A r \in DOMAIN Tail(records) :
                 /\ Len(Tail(records)[r]) = Len(cols)
                 /\ \A i \in DOMAIN cols : IsCell(cols[i], Tail(records)[r][i])
        THEN [r \in DOMAIN Tail(records) |-> [i \in DOMAIN cols |-> Parsed(cols[i], Tail(records)[r][i])]]
        ELSE LoadError
  BY DEF Load
<1>6. Kept(table) = [r \in DOMAIN solid |-> AsRead(solid[r])] BY DEF Kept
<1> HIDE DEF solid
<1>7. body \in Seq(Seq(AnyText)) BY <1>3, BareOfTyped, MapIs DEF BareRows
<1>8. DOMAIN body = DOMAIN solid /\ \A r \in DOMAIN solid : body[r] = BareOf[solid[r]]
  BY DEF BareRows, Mapped
<1> HIDE DEF body, names, records
<1>9. records # <<>> /\ Head(records) = names /\ Tail(records) = body
  BY <1>2, <1>4, <1>7, HeadTailOfConcat
<1>10. ASSUME NEW r \in DOMAIN solid
      PROVE  /\ Len(body[r]) = Len(cols) /\ \A i \in DOMAIN cols : IsCell(cols[i], body[r][i])
             /\ [i \in DOMAIN cols |-> Parsed(cols[i], body[r][i])] = AsRead(solid[r])
  <2>1. solid[r] \in Seq(AnyCell) /\ DOMAIN solid[r] = DOMAIN cols
        /\ \A i \in DOMAIN cols : IsValue(cols[i], solid[r][i])
    BY <1>3, <1>10 DEF IsRow
  <2>2. \A i \in DOMAIN cols : body[r][i] = Bare(solid[r][i])
    <3>1. body[r] = BareOf[solid[r]] BY <1>10, <1>8
    <3>2. BareOf[solid[r]] = [i \in DOMAIN solid[r] |-> Bare(solid[r][i])] BY <2>1 DEF BareOf
    <3> QED BY <2>1, <3>1, <3>2, Zenon
  <2>3. \A i \in DOMAIN cols :
          /\ IsCell(cols[i], body[r][i])
          /\ Parsed(cols[i], body[r][i]) = IF solid[r][i] = <<>> THEN Null ELSE solid[r][i]
    BY <2>1, <2>2, TableColumns, ValueParsed
  <2>4. Len(body[r]) = Len(cols)
    <3>1. Len(body[r]) = Len(solid[r]) BY <1>8, <2>1, CellsAre
    <3>2. Len(solid[r]) = Len(cols) BY <2>1, TableColumns, LenProperties
    <3> QED BY <3>1, <3>2
  <2>5. AsRead(solid[r]) = [i \in DOMAIN cols |-> IF solid[r][i] = <<>> THEN Null ELSE solid[r][i]]
    BY <2>1 DEF AsRead
  <2> QED BY <2>3, <2>4, <2>5
<1>11. Load(cols, Write(cols, table))
      = [r \in DOMAIN solid |-> [i \in DOMAIN cols |-> Parsed(cols[i], body[r][i])]]
  BY <1>5, <1>9, <1>10, <1>8
<1> QED BY <1>10, <1>11, <1>6
-----------------------------------------------------------------------------
CsvOK == /\ columns \in AnyTable /\ text \in AnyText /\ rows \in Seq(Good(columns))
         /\ rows # <<>> => text = Write(columns, rows) /\ left = 0

LEMMA CsvStarts == CsvInit => CsvOK
<1> SUFFICES ASSUME CsvInit PROVE CsvOK OBVIOUS
<1>1. CASE \E t \in Saved : /\ columns = t.columns /\ rows = t.rows
                            /\ text = Write(columns, rows) /\ left = 0
  <2>1. PICK t \in Saved : /\ columns = t.columns /\ rows = t.rows
                           /\ text = Write(columns, rows) /\ left = 0
    BY <1>1
  <2>2. /\ columns \in AnyTable /\ rows \in Seq(Seq(AnyCell))
        /\ \A r \in DOMAIN rows : IsRow(columns, rows[r])
    BY <2>1, TablesAssumption
  <2>3. rows \in Seq(Good(columns))
    <3>1. \A r \in DOMAIN rows : rows[r] \in Good(columns) BY <2>2 DEF Good, IsRow
    <3>2. /\ DOMAIN rows = 1 .. Len(rows) /\ Len(rows) \in Nat
          /\ rows = [r \in DOMAIN rows |-> rows[r]]
      BY <2>2
    <3>3. rows \in [1 .. Len(rows) -> Good(columns)] BY <3>1, <3>2
    <3> QED BY <3>2, <3>3, IsASeq
  <2> QED BY <2>1, <2>2, <2>3, WriteIs DEF CsvOK
<1>2. CASE /\ columns \in {t.columns : t \in Saved} /\ rows = <<>>
           /\ \/ text = Header(columns)
              \/ text = <<>>
  <2>1. columns \in AnyTable BY <1>2, TablesAssumption
  <2>2. text \in AnyText BY <1>2, <2>1, HeaderIs, Texts
  <2>3. rows \in Seq(Good(columns)) BY <1>2
  <2> QED BY <1>2, <2>1, <2>2, <2>3 DEF CsvOK
<1> QED BY <1>1, <1>2 DEF CsvInit

LEMMA CsvGoesOn == CsvOK /\ [Type]_csvVars => CsvOK'
<1> SUFFICES ASSUME CsvOK, [Type]_csvVars PROVE CsvOK' OBVIOUS
<1>1. CASE UNCHANGED csvVars BY <1>1 DEF csvVars, CsvOK
<1>2. CASE Type
  <2>1. PICK c \in Characters : text' = Append(text, c) BY <1>2 DEF Type
  <2>2. text' \in AnyText
    <3>1. text \in AnyText /\ c \in Alphabet BY DEF CsvOK, Alphabet
    <3> QED BY <2>1, <3>1, Texts
  <2>3. rows = <<>>
    <3>1. left # 0 BY <1>2 DEF Type
    <3> QED BY <3>1 DEF CsvOK
  <2>4. columns' = columns /\ rows' = rows BY <1>2 DEF Type
  <2> QED BY <2>2, <2>3, <2>4 DEF CsvOK
<1> QED BY <1>1, <1>2

LEMMA CsvIsRead == CsvOK => RowsSurviveFiles
<1> SUFFICES ASSUME CsvOK PROVE RowsSurviveFiles OBVIOUS
<1>1. ReadsWhatItWrote BY LoadWritten DEF ReadsWhatItWrote, CsvOK
<1>2. RewritesKeepRows
  <2> DEFINE loaded == Load(columns, text)
  <2>1. loaded # LoadError => loaded \in Seq(Good(columns)) BY LoadedIsTable DEF CsvOK
  <2>2. columns \in AnyTable BY DEF CsvOK
  <2> HIDE DEF loaded
  <2>3. loaded # LoadError => Load(columns, Write(columns, loaded)) = Kept(loaded)
    BY <2>1, <2>2, LoadWritten
  <2> QED BY <2>3 DEF RewritesKeepRows, loaded
<1> QED BY <1>1, <1>2 DEF RowsSurviveFiles

\* Every table is read back from the text that is written for it, and what can
\* be read of any text survives the next rewrite: for every alphabet, every
\* table of values and texts of every length (storage_write, libcsv and
\* storage_load).
THEOREM RowsAreReadBack == CsvSpec => []RowsSurviveFiles
<1>1. CsvInit => CsvOK BY CsvStarts
<1>2. CsvOK /\ [Type]_csvVars => CsvOK' BY CsvGoesOn
<1>3. CsvOK => RowsSurviveFiles BY CsvIsRead
<1> QED BY <1>1, <1>2, <1>3, PTL DEF CsvSpec
=============================================================================
