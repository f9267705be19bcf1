---------------------------- MODULE HistoryProofs ----------------------------
(***************************************************************************)
(* Theorems about UsageHistory, and about AtomicFile, which carries the    *)
(* history to disk: the calendar, the billing cycles, the schedule and the *)
(* console's periods, for any walk through them; that the days count what  *)
(* the streams reported, however those were cut; and that the steps of a   *)
(* save, for any writers and documents of any length, implement the atomic *)
(* register.                                                               *)
(***************************************************************************)
EXTENDS UsageHistory, AtomicFile, FoldFacts, SequenceTheorems

-----------------------------------------------------------------------------
(* Saving                                                                  *)

\* A thread's place in the save and its locals belong together.
SaverOK ==
  \A w \in Writers :
    LET s == saver[w]
    IN  /\ s.pc = "idle" => s = Idle
        /\ s.pc # "idle" => s.doc \in Docs /\ s.fd \in Inodes
        /\ s.pc = "write" => s.at < Blocks[s.doc]
        /\ s.pc \in {"sync", "rename"} => s.at = Blocks[s.doc]

\* The two names never stand for one inode.
NamesApart == tmp # NoInode => tmp # path

\* While no saves have overlapped there is at most one, the temporary name
\* stands for its file, and it has written the beginning of its document.
OneSaver ==
  \A w \in Writers : saver[w].pc # "idle" =>
    /\ \A v \in Writers : saver[v].pc # "idle" => v = w
    /\ saver[w].fd = tmp
    /\ text[tmp] = [i \in 1..saver[w].at |-> saver[w].doc]
    /\ saver[w].pc = "rename" => tmp \in synced

\* The target is a whole document that would survive a power cut.
TargetSafe == path # NoInode => Whole(text[path]) /\ path \in synced

FileInv ==
  /\ FileTypeOK
  /\ SaverOK
  /\ NamesApart
  /\ ~clash => OneSaver /\ TargetSafe

-----------------------------------------------------------------------------
\* A document's full text is whole.
LEMMA FullIsWhole ==
  ASSUME NEW d \in Docs
  PROVE  Whole(Full(d)) /\ Full(d)[1] = d /\ Full(d) \in Seq(Docs \cup {Hole})
<1>1. Blocks[d] \in Nat /\ Blocks[d] >= 1
  BY FileAssumption
<1>2. Full(d)[1] = d
  BY <1>1 DEF Full
<1>3. Full(d) \in Seq(Docs \cup {Hole})
  BY <1>1 DEF Full
<1>4. Full(d) # <<>>
  <2>1. Len(Full(d)) = Blocks[d]
    BY <1>1 DEF Full
  <2>2. Len(<<>>) = 0
    OBVIOUS
  <2> QED
    BY <2>1, <2>2, <1>1
<1> QED
  BY <1>2, <1>3, <1>4 DEF Whole

\* The next block after the first k makes the first k + 1.
LEMMA NextBlock ==
  ASSUME NEW d \in Docs, NEW k \in Nat
  PROVE  Overwrite([i \in 1..k |-> d], k + 1, d) = [i \in 1..(k + 1) |-> d]
<1>1. Len([i \in 1..k |-> d]) = k
  OBVIOUS
<1>2. \A i \in 1..k : [j \in 1..k |-> d][i] = d
  OBVIOUS
<1> QED
  BY <1>1, <1>2 DEF Overwrite

\* An overwritten text is a text.
LEMMA OverwriteType ==
  ASSUME NEW s \in Seq(Docs \cup {Hole}), NEW d \in Docs, NEW k \in Nat \ {0}
  PROVE  Overwrite(s, k, d) \in Seq(Docs \cup {Hole})
<1> DEFINE n == IF k > Len(s) THEN k ELSE Len(s)
<1>1. n \in Nat /\ Len(s) \in Nat
  OBVIOUS
<1>2. \A i \in 1..n : (IF i = k THEN d ELSE IF i <= Len(s) THEN s[i] ELSE Hole)
                        \in Docs \cup {Hole}
  BY <1>1
<1> QED
  BY <1>1, <1>2 DEF Overwrite

-----------------------------------------------------------------------------
\* FileInv holds at the start.
LEMMA InitInv == FileInit => FileInv
<1> SUFFICES ASSUME FileInit PROVE FileInv
  OBVIOUS
<1> USE FileAssumption
<1>1. /\ tmp = NoInode /\ synced = Inodes /\ clash = FALSE
      /\ saver = [w \in Writers |-> Idle]
  BY DEF FileInit
<1>2. \A w \in Writers : saver[w] = Idle /\ saver[w].pc = "idle"
  BY <1>1 DEF Idle
<1>3. /\ path \in Inodes \cup {NoInode}
      /\ text \in [Inodes -> Seq(Docs \cup {Hole})]
      /\ TargetSafe
  <2>1. CASE path = NoInode /\ text = [i \in Inodes |-> <<>>]
    BY <2>1 DEF TargetSafe
  <2>2. CASE \E d \in InitialDocs :
               /\ path = CHOOSE i \in Inodes : TRUE
               /\ path \in Inodes
               /\ text = [i \in Inodes |-> IF i = path THEN Full(d) ELSE <<>>]
    <3>1. PICK d \in InitialDocs :
               /\ path \in Inodes
               /\ text = [i \in Inodes |-> IF i = path THEN Full(d) ELSE <<>>]
      BY <2>2
    <3>2. Whole(Full(d)) /\ Full(d) \in Seq(Docs \cup {Hole})
      BY FullIsWhole
    <3> QED
      BY <3>1, <3>2, <1>1 DEF TargetSafe
  <2> QED
    BY <2>1, <2>2 DEF FileInit
<1>4. FileTypeOK
  BY <1>1, <1>3 DEF FileTypeOK, Idle
<1>5. SaverOK
  BY <1>2 DEF SaverOK
<1> QED
  BY <1>1, <1>2, <1>3, <1>4, <1>5 DEF FileInv, NamesApart, OneSaver

\* FileInv is kept by Create, which may be the overlap that ends the promise.
LEMMA CreateInv ==
  ASSUME FileInv, NEW w \in Writers, NEW d \in Docs, Create(w, d)
  PROVE  FileInv'
<1> USE FileAssumption
<1> DEFINE i == IF tmp # NoInode THEN tmp ELSE CHOOSE j \in Free : TRUE
<1> DEFINE new == [pc |-> "write", doc |-> d, fd |-> i, at |-> 0]
<1>1. i \in Inodes /\ i # path
  BY DEF FileInv, FileTypeOK, NamesApart, Create, Free
<1>2. /\ tmp' = i /\ path' = path /\ synced' = synced \ {i}
      /\ text' = [text EXCEPT ![i] = <<>>]
      /\ saver' = [saver EXCEPT ![w] = new]
      /\ clash' = (clash \/ \E v \in Writers \ {w} : Active(v))
  BY DEF Create
<1> HIDE DEF i
<1>3. \A v \in Writers : saver'[v] = IF v = w THEN new ELSE saver[v]
  BY <1>2 DEF FileInv, FileTypeOK
<1>4. text'[i] = <<>> /\ \A j \in Inodes \ {i} : text'[j] = text[j]
  BY <1>1, <1>2 DEF FileInv, FileTypeOK
<1>5. FileTypeOK'
  <2>0. <<>> \in Seq(Docs \cup {Hole})
    OBVIOUS
  <2>1. text' \in [Inodes -> Seq(Docs \cup {Hole})]
    BY <1>1, <1>2, <2>0 DEF FileInv, FileTypeOK
  <2>2. saver' \in [Writers -> [pc : {"idle", "write", "sync", "rename"},
                                doc : Docs \cup {NoDoc},
                                fd : Inodes \cup {NoInode}, at : Nat]]
    BY <1>1, <1>2 DEF FileInv, FileTypeOK
  <2> QED
    BY <1>1, <1>2, <2>1, <2>2 DEF FileInv, FileTypeOK
<1>6. SaverOK'
  BY <1>1, <1>3 DEF FileInv, SaverOK
<1>7. NamesApart'
  BY <1>1, <1>2 DEF NamesApart
<1>8. ASSUME ~clash' PROVE OneSaver' /\ TargetSafe'
  <2>1. ~clash /\ \A v \in Writers \ {w} : saver[v].pc = "idle"
    BY <1>2, <1>8 DEF Active
  <2>2. [k \in 1..0 |-> d] = <<>>
    OBVIOUS
  <2>3. OneSaver'
    BY <1>2, <1>3, <1>4, <2>1, <2>2 DEF OneSaver
  <2>4. TargetSafe'
    BY <1>1, <1>2, <1>4, <2>1 DEF FileInv, FileTypeOK, TargetSafe
  <2> QED
    BY <2>3, <2>4
<1> QED
  BY <1>5, <1>6, <1>7, <1>8 DEF FileInv

\* FileInv is kept by Write.
LEMMA WriteInv ==
  ASSUME FileInv, NEW w \in Writers, Write(w)
  PROVE  FileInv'
<1> USE FileAssumption
<1> DEFINE s == saver[w]
           k == s.at + 1
           next == IF k = Blocks[s.doc] THEN "sync" ELSE "write"
<1>1. /\ s.pc = "write" /\ s.doc \in Docs /\ s.fd \in Inodes /\ s.at \in Nat
      /\ s.at < Blocks[s.doc] /\ Blocks[s.doc] \in Nat
  BY DEF FileInv, FileTypeOK, SaverOK, Write
<1>2. /\ text' = [text EXCEPT ![s.fd] = Overwrite(text[s.fd], k, s.doc)]
      /\ synced' = synced \ {s.fd}
      /\ saver' = [saver EXCEPT ![w] = [pc |-> next, doc |-> s.doc, fd |-> s.fd, at |-> k]]
      /\ UNCHANGED <<tmp, path, clash>>
  BY DEF Write
<1>3. /\ saver'[w].at = k /\ saver'[w].pc = next
      /\ saver'[w].doc = s.doc /\ saver'[w].fd = s.fd
      /\ \A v \in Writers \ {w} : saver'[v] = saver[v]
  BY <1>2 DEF FileInv, FileTypeOK
<1>4. /\ text'[s.fd] = Overwrite(text[s.fd], k, s.doc)
      /\ \A j \in Inodes \ {s.fd} : text'[j] = text[j]
  BY <1>1, <1>2 DEF FileInv, FileTypeOK
<1>5. FileTypeOK'
  <2>1. Overwrite(text[s.fd], k, s.doc) \in Seq(Docs \cup {Hole})
    <3>1. text[s.fd] \in Seq(Docs \cup {Hole}) /\ k \in Nat \ {0}
      BY <1>1 DEF FileInv, FileTypeOK
    <3> HIDE DEF k
    <3> QED
      BY <1>1, <3>1, OverwriteType
  <2>2. text' \in [Inodes -> Seq(Docs \cup {Hole})]
    BY <1>2, <2>1 DEF FileInv, FileTypeOK
  <2>3. saver' \in [Writers -> [pc : {"idle", "write", "sync", "rename"},
                                doc : Docs \cup {NoDoc},
                                fd : Inodes \cup {NoInode}, at : Nat]]
    <3>1. k \in Nat /\ next \in {"sync", "write"}
      BY <1>1
    <3> HIDE DEF k, next
    <3> QED
      BY <1>1, <1>2, <3>1 DEF FileInv, FileTypeOK
  <2> QED
    BY <1>1, <1>2, <2>2, <2>3 DEF FileInv, FileTypeOK
<1>6. SaverOK'
  BY <1>1, <1>3 DEF FileInv, SaverOK
<1>7. NamesApart'
  BY <1>2 DEF FileInv, NamesApart
<1>8. ASSUME ~clash' PROVE OneSaver' /\ TargetSafe'
  <2>1. /\ s.fd = tmp /\ text[tmp] = [j \in 1..s.at |-> s.doc]
        /\ \A v \in Writers \ {w} : saver[v].pc = "idle"
    BY <1>1, <1>2, <1>8 DEF FileInv, OneSaver
  <2>2. text'[tmp] = [j \in 1..k |-> s.doc]
    BY <1>1, <1>4, <2>1, NextBlock
  <2>3. OneSaver'
    <3>1. next # "rename"
      OBVIOUS
    <3>2. text'[tmp'] = [j \in 1..saver'[w].at |-> saver'[w].doc]
      BY <1>2, <1>3, <2>2
    <3>3. /\ saver'[w].fd = tmp' /\ saver'[w].pc # "rename"
          /\ \A v \in Writers \ {w} : saver'[v].pc = "idle"
      BY <1>2, <1>3, <2>1, <3>1
    <3> HIDE DEF next, k, s
    <3> QED
      BY <3>2, <3>3 DEF OneSaver
  <2>4. tmp # path
    BY <1>1, <2>1 DEF FileInv, NamesApart
  <2>5. TargetSafe'
    BY <1>2, <1>4, <1>8, <2>1, <2>4 DEF FileInv, FileTypeOK, TargetSafe
  <2> QED
    BY <2>3, <2>5
<1> QED
  BY <1>5, <1>6, <1>7, <1>8 DEF FileInv

\* FileInv is kept by Sync.
LEMMA SyncInv ==
  ASSUME FileInv, NEW w \in Writers, Sync(w)
  PROVE  FileInv'
<1> USE FileAssumption
<1>1. saver[w].pc = "sync" /\ saver[w].fd \in Inodes
  BY DEF FileInv, FileTypeOK, SaverOK, Sync
<1>2. /\ synced' = synced \cup {saver[w].fd}
      /\ saver' = [saver EXCEPT ![w].pc = "rename"]
      /\ UNCHANGED <<tmp, path, text, clash>>
  BY DEF Sync
<1>3. /\ saver'[w].at = saver[w].at /\ saver'[w].pc = "rename"
      /\ saver'[w].doc = saver[w].doc /\ saver'[w].fd = saver[w].fd
      /\ \A v \in Writers \ {w} : saver'[v] = saver[v]
  BY <1>2 DEF FileInv, FileTypeOK
<1>4. FileTypeOK'
  BY <1>1, <1>2 DEF FileInv, FileTypeOK
<1>5. SaverOK'
  BY <1>1, <1>3 DEF FileInv, SaverOK
<1>6. NamesApart'
  BY <1>2 DEF FileInv, NamesApart
<1>7. ASSUME ~clash' PROVE OneSaver' /\ TargetSafe'
  <2>1. OneSaver /\ TargetSafe
    BY <1>2, <1>7 DEF FileInv
  <2>2. /\ saver[w].fd = tmp /\ tmp' = tmp /\ text' = text
        /\ text[tmp] = [i \in 1..saver[w].at |-> saver[w].doc]
        /\ \A v \in Writers : saver[v].pc # "idle" => v = w
    BY <1>1, <1>2, <2>1 DEF OneSaver
  <2>3. tmp' \in synced'
    BY <1>2, <2>2
  <2>4. text'[tmp'] = [i \in 1..saver'[w].at |-> saver'[w].doc]
    BY <1>3, <2>2
  <2>5. \A v \in Writers : saver'[v].pc # "idle" => v = w
    BY <1>3, <2>2
  <2>6. saver'[w].fd = tmp'
    BY <1>3, <2>2
  <2>7. OneSaver'
    BY <2>3, <2>4, <2>5, <2>6 DEF OneSaver
  <2>8. TargetSafe'
    BY <1>2, <2>1 DEF TargetSafe
  <2> QED
    BY <2>7, <2>8
<1> QED
  BY <1>4, <1>5, <1>6, <1>7 DEF FileInv

\* FileInv is kept by Rename.
LEMMA RenameInv ==
  ASSUME FileInv, NEW w \in Writers, Rename(w)
  PROVE  FileInv'
<1> USE FileAssumption
<1> DEFINE lost == {path} \ {saver[v].fd : v \in Writers}
<1>1. /\ saver[w].pc = "rename" /\ tmp' = NoInode /\ clash' = clash
      /\ saver' = [saver EXCEPT ![w] = Idle]
      /\ IF tmp # NoInode
         THEN /\ path' = tmp
              /\ text' = [i \in Inodes |-> IF i \in lost THEN <<>> ELSE text[i]]
              /\ synced' = synced \cup (lost \cap Inodes)
         ELSE UNCHANGED <<path, text, synced>>
  BY DEF Rename
<1>2. saver'[w] = Idle /\ \A v \in Writers \ {w} : saver'[v] = saver[v]
  BY <1>1 DEF FileInv, FileTypeOK
<1>3. FileTypeOK'
  <2>1. path' \in Inodes \cup {NoInode} /\ synced' \subseteq Inodes
    BY <1>1 DEF FileInv, FileTypeOK
  <2>0. <<>> \in Seq(Docs \cup {Hole})
    OBVIOUS
  <2>2. text' \in [Inodes -> Seq(Docs \cup {Hole})]
    <3>1. \A i \in Inodes : text[i] \in Seq(Docs \cup {Hole})
      BY DEF FileInv, FileTypeOK
    <3>2. CASE tmp = NoInode
      BY <1>1, <3>2 DEF FileInv, FileTypeOK
    <3>3. CASE tmp # NoInode
      <4>1. \A i \in Inodes : (IF i \in lost THEN <<>> ELSE text[i]) \in Seq(Docs \cup {Hole})
        BY <2>0, <3>1
      <4>2. text' = [i \in Inodes |-> IF i \in lost THEN <<>> ELSE text[i]]
        BY <1>1, <3>3
      <4> HIDE DEF lost
      <4> QED
        BY <4>1, <4>2
    <3> QED
      BY <3>2, <3>3
  <2>3. saver' \in [Writers -> [pc : {"idle", "write", "sync", "rename"},
                                doc : Docs \cup {NoDoc},
                                fd : Inodes \cup {NoInode}, at : Nat]]
    BY <1>1 DEF FileInv, FileTypeOK, Idle
  <2> QED
    BY <1>1, <2>1, <2>2, <2>3 DEF FileInv, FileTypeOK
<1>4. SaverOK'
  BY <1>2 DEF FileInv, SaverOK, Idle
<1>5. NamesApart'
  BY <1>1 DEF NamesApart
<1>6. ASSUME ~clash' PROVE OneSaver' /\ TargetSafe'
  <2>1. /\ saver[w].fd = tmp /\ tmp \in synced /\ tmp \in Inodes
        /\ text[tmp] = [j \in 1..saver[w].at |-> saver[w].doc]
        /\ saver[w].at = Blocks[saver[w].doc] /\ saver[w].doc \in Docs
        /\ \A v \in Writers \ {w} : saver[v].pc = "idle"
    <3>1. /\ saver[w].fd \in Inodes /\ saver[w].doc \in Docs
          /\ saver[w].at = Blocks[saver[w].doc]
      BY <1>1 DEF FileInv, SaverOK
    <3>2. /\ saver[w].fd = tmp /\ tmp \in synced
          /\ text[tmp] = [j \in 1..saver[w].at |-> saver[w].doc]
          /\ \A v \in Writers \ {w} : saver[v].pc = "idle"
      BY <1>1, <1>6 DEF FileInv, OneSaver
    <3> QED
      BY <3>1, <3>2
  <2>2. text[tmp] = Full(saver[w].doc) /\ Whole(text[tmp])
    BY <2>1, FullIsWhole DEF Full
  <2>3. path' = tmp /\ text'[tmp] = text[tmp] /\ tmp \in synced'
    BY <1>1, <2>1 DEF FileInv, NamesApart
  <2>4. OneSaver'
    BY <1>2, <2>1 DEF OneSaver, Idle
  <2>5. TargetSafe'
    BY <2>2, <2>3 DEF TargetSafe
  <2> QED
    BY <2>4, <2>5
<1> QED
  BY <1>3, <1>4, <1>5, <1>6 DEF FileInv

\* The steps that end saves and leave the names alone.
LEMMA EndInv ==
  ASSUME FileInv, FileTypeOK', UNCHANGED <<tmp, path, clash>>,
         \A w \in Writers : saver'[w] \in {saver[w], Idle},
         ~clash => /\ \A i \in synced : text'[i] = text[i]
                   /\ \A w \in Writers : saver'[w] # Idle => text' = text
                   /\ synced \subseteq synced'
  PROVE  FileInv'
<1> USE FileAssumption
<1>1. SaverOK'
  BY DEF FileInv, SaverOK, Idle
<1>2. NamesApart'
  BY DEF FileInv, NamesApart
<1>3. ASSUME ~clash' PROVE OneSaver' /\ TargetSafe'
  <2>1. OneSaver'
    BY <1>3 DEF FileInv, OneSaver, Idle
  <2>2. TargetSafe'
    BY <1>3 DEF FileInv, TargetSafe
  <2> QED
    BY <2>1, <2>2
<1> QED
  BY <1>1, <1>2, <1>3 DEF FileInv

\* FileInv is kept by a failed save, a kill and a power cut.
LEMMA QuietStepInv ==
  ASSUME FileInv, (\E w \in Writers : FailSave(w)) \/ Kill \/ PowerCut
  PROVE  FileInv'
<1> USE FileAssumption
<1>1. CASE \E w \in Writers : FailSave(w)
  <2>1. PICK w \in Writers : FailSave(w)
    BY <1>1
  <2>2. FileTypeOK'
    BY <2>1 DEF FailSave, FileInv, FileTypeOK, Idle
  <2>3. \A v \in Writers : saver'[v] \in {saver[v], Idle}
    BY <2>1 DEF FailSave, FileInv, FileTypeOK
  <2> QED
    BY <2>1, <2>2, <2>3, EndInv DEF FailSave
<1>2. CASE Kill
  <2>1. FileTypeOK'
    BY <1>2 DEF Kill, FileInv, FileTypeOK, Idle
  <2> QED
    BY <1>2, <2>1, EndInv DEF Kill
<1>3. CASE PowerCut
  <2>1. PICK kept \in SUBSET (Inodes \ synced) :
          text' = [i \in Inodes |-> IF i \in synced \cup kept THEN text[i] ELSE <<>>]
    BY <1>3 DEF PowerCut
  <2>2. <<>> \in Seq(Docs \cup {Hole})
    OBVIOUS
  <2>3. text' \in [Inodes -> Seq(Docs \cup {Hole})]
    BY <2>1, <2>2 DEF FileInv, FileTypeOK
  <2>4. FileTypeOK'
    BY <1>3, <2>3 DEF PowerCut, FileInv, FileTypeOK, Idle
  <2>5. \A i \in synced : text'[i] = text[i]
    BY <2>1 DEF FileInv, FileTypeOK
  <2>6. \A w \in Writers : saver'[w] = Idle
    BY <1>3 DEF PowerCut
  <2>7. synced \subseteq synced' /\ UNCHANGED <<tmp, path, clash>>
    BY <1>3 DEF PowerCut, FileInv, FileTypeOK
  <2> QED
    BY <2>4, <2>5, <2>6, <2>7, EndInv
<1> QED
  BY <1>1, <1>2, <1>3

\* FileInv is kept by LoadFile.
LEMMA LoadFileInv ==
  ASSUME FileInv, LoadFile
  PROVE  FileInv'
<1>1. FileTypeOK' /\ SaverOK' /\ NamesApart'
  BY DEF FileInv, FileTypeOK, SaverOK, NamesApart, LoadFile
<1>2. ~clash' => OneSaver' /\ TargetSafe'
  BY DEF FileInv, OneSaver, TargetSafe, LoadFile
<1> QED
  BY <1>1, <1>2 DEF FileInv

\* FileInv is kept by every step.
LEMMA NextInv == FileInv /\ [FileNext]_fileVars => FileInv'
<1> SUFFICES ASSUME FileInv, [FileNext]_fileVars PROVE FileInv'
  OBVIOUS
<1>1. ASSUME NEW w \in Writers, NEW d \in Docs, Create(w, d) PROVE FileInv'
  BY <1>1, CreateInv
<1>2. ASSUME NEW w \in Writers, Write(w) PROVE FileInv'
  BY <1>2, WriteInv
<1>3. ASSUME NEW w \in Writers, Sync(w) PROVE FileInv'
  BY <1>3, SyncInv
<1>4. ASSUME NEW w \in Writers, Rename(w) PROVE FileInv'
  BY <1>4, RenameInv
<1>5. CASE (\E w \in Writers : FailSave(w)) \/ Kill \/ PowerCut
  BY <1>5, QuietStepInv
<1>6. CASE LoadFile
  BY <1>6, LoadFileInv
<1>7. CASE UNCHANGED fileVars
  BY <1>7 DEF fileVars, FileInv, FileTypeOK, SaverOK, NamesApart, OneSaver, TargetSafe
<1> QED
  BY <1>1, <1>2, <1>3, <1>4, <1>5, <1>6, <1>7 DEF FileNext

\* The types of the file's names, texts and savers, whatever the interleaving
\* of saves, failures and crashes.
THEOREM FileTypeCorrect == FileSpec => []FileTypeOK
<1>1. FileInv => FileTypeOK
  BY DEF FileInv
<1> QED
  BY <1>1, InitInv, NextInv, PTL DEF FileSpec

-----------------------------------------------------------------------------
\* A thread offers a document exactly while it saves.
LEMMA OfferedSaving ==
  ASSUME FileInv
  PROVE  /\ Offered \in [Writers -> Docs \cup {NoDoc}]
         /\ \A w \in Writers : Offered[w] = saver[w].doc
         /\ \A w \in Writers : Offered[w] # NoDoc <=> Active(w)
BY FileAssumption DEF FileInv, FileTypeOK, SaverOK, Offered, Active, Idle

\* Without an overlap the file is whole or absent.
LEMMA StoredSafe ==
  ASSUME FileInv, ~clash
  PROVE  Stored = IF path = NoInode THEN NoDoc ELSE text[path][1]
BY DEF FileInv, TargetSafe, Stored

\* Initial states map to initial states.
LEMMA InitRefines == FileInit => Register!RegisterInit
<1> SUFFICES ASSUME FileInit PROVE Register!RegisterInit
  OBVIOUS
<1>1. FileInv
  BY InitInv
<1>2. ~clash /\ saver = [w \in Writers |-> Idle]
  BY DEF FileInit
<1>3. Stored \in Docs \cup {NoDoc}
  BY <1>1, <1>2, StoredSafe DEF FileInv, TargetSafe, Whole
<1>4. Offered = [w \in Writers |-> NoDoc]
  BY <1>2 DEF Offered, Idle
<1> QED
  BY <1>2, <1>3, <1>4 DEF Register!RegisterInit

\* Create is an offer.
LEMMA CreateRefines ==
  ASSUME FileInv, FileInv', NEW w \in Writers, NEW d \in Docs, Create(w, d)
  PROVE  Register!RegisterNext
<1> USE FileAssumption
<1> DEFINE i == IF tmp # NoInode THEN tmp ELSE CHOOSE j \in Free : TRUE
<1>1. i \in Inodes /\ i # path
  BY DEF FileInv, FileTypeOK, NamesApart, Create, Free
<1>2. /\ path' = path /\ text' = [text EXCEPT ![i] = <<>>]
      /\ saver' = [saver EXCEPT ![w] = [pc |-> "write", doc |-> d, fd |-> i, at |-> 0]]
      /\ clash' = (clash \/ \E v \in Writers \ {w} : Active(v))
      /\ ~Active(w)
  BY DEF Create
<1> HIDE DEF i
<1>3. Stored' = Stored
  BY <1>1, <1>2 DEF FileInv, FileTypeOK, Stored
<1>4. Offered' = [Offered EXCEPT ![w] = d] /\ Offered'[w] = d
  BY <1>2 DEF FileInv, FileTypeOK, Offered
<1>5. Offered[w] = NoDoc /\ \A v \in Writers : Offered[v] # NoDoc <=> Active(v)
  BY <1>2, OfferedSaving
<1>6. Register!Offer(w, Offered'[w])
  BY <1>2, <1>3, <1>4, <1>5 DEF Register!Offer, Register!Saving
<1> QED
  BY <1>4, <1>6 DEF Register!RegisterNext

\* A step after an overlap is a step of the register that promises nothing.
LEMMA ScrambleRefines ==
  ASSUME FileInv, clash, clash' = clash,
         \E ended \in SUBSET Writers :
           Offered' = [w \in Writers |-> IF w \in ended THEN NoDoc ELSE Offered[w]]
  PROVE  Register!RegisterNext
<1>1. Stored' \in Docs \cup {NoDoc, Torn}
  BY DEF Stored, Whole
<1>2. Register!Scramble
  BY <1>1 DEF Register!Scramble, Register!Values
<1> QED
  BY <1>2 DEF Register!RegisterNext

\* Write is a step of the register or a stutter.
LEMMA WriteRefines ==
  ASSUME FileInv, FileInv', NEW w \in Writers, Write(w)
  PROVE  [Register!RegisterNext]_(Register!regVars)
<1>1. /\ text' = [text EXCEPT ![saver[w].fd] =
                    Overwrite(text[saver[w].fd], saver[w].at + 1, saver[w].doc)]
      /\ UNCHANGED <<tmp, path, clash>> /\ saver[w].pc = "write"
  BY DEF Write
<1>2. Offered' = Offered
  <2>1. \A v \in Writers : saver'[v].doc = saver[v].doc
    BY DEF Write, FileInv, FileTypeOK
  <2> QED
    BY <2>1 DEF Offered
<1>3. CASE clash
  <2>1. \E ended \in SUBSET Writers :
          Offered' = [v \in Writers |-> IF v \in ended THEN NoDoc ELSE Offered[v]]
    <3> WITNESS {} \in SUBSET Writers
    <3> QED
      BY <1>2 DEF Offered
  <2> QED
    BY <1>1, <1>3, <2>1, ScrambleRefines
<1>4. CASE ~clash
  <2>1. saver[w].fd # path
    <3>1. saver[w].pc # "idle"
      BY <1>1
    <3>2. saver[w].fd \in Inodes /\ saver[w].fd = tmp
      BY <1>4, <3>1 DEF FileInv, OneSaver, SaverOK
    <3> QED
      BY <3>2, FileAssumption DEF FileInv, NamesApart
  <2>2. Stored' = Stored
    BY <1>1, <2>1, FileAssumption DEF FileInv, FileTypeOK, Stored
  <2> QED
    BY <1>1, <1>2, <2>2 DEF Register!regVars
<1> QED
  BY <1>3, <1>4

\* Rename is a step of the register or a stutter.
LEMMA RenameRefines ==
  ASSUME FileInv, FileInv', NEW w \in Writers, Rename(w)
  PROVE  Register!RegisterNext
<1> USE FileAssumption
<1> DEFINE lost == {path} \ {saver[v].fd : v \in Writers}
<1>1. /\ saver[w].pc = "rename" /\ clash' = clash
      /\ saver' = [saver EXCEPT ![w] = Idle]
      /\ tmp # NoInode =>
           /\ path' = tmp
           /\ text' = [i \in Inodes |-> IF i \in lost THEN <<>> ELSE text[i]]
  BY DEF Rename
<1>2. Offered' = [Offered EXCEPT ![w] = NoDoc]
  BY <1>1 DEF FileInv, FileTypeOK, Offered, Idle
<1>3. CASE clash
  <2>1. \E ended \in SUBSET Writers :
          Offered' = [v \in Writers |-> IF v \in ended THEN NoDoc ELSE Offered[v]]
    <3> WITNESS {w} \in SUBSET Writers
    <3> QED
      BY <1>2 DEF Offered
  <2> QED
    BY <1>1, <1>3, <2>1, ScrambleRefines
<1>4. CASE ~clash
  <2>1. /\ tmp \in Inodes /\ tmp # path
        /\ text[tmp] = Full(saver[w].doc) /\ saver[w].doc \in Docs
    <3>1. /\ saver[w].fd \in Inodes /\ saver[w].doc \in Docs
          /\ saver[w].at = Blocks[saver[w].doc]
      BY <1>1 DEF FileInv, SaverOK
    <3>2. /\ saver[w].fd = tmp
          /\ text[tmp] = [i \in 1..saver[w].at |-> saver[w].doc]
      BY <1>1, <1>4 DEF FileInv, OneSaver
    <3>3. tmp \in Inodes /\ tmp # path
      BY <3>1, <3>2 DEF FileInv, NamesApart
    <3>4. text[tmp] = Full(saver[w].doc)
      BY <3>1, <3>2 DEF Full
    <3> QED
      BY <3>1, <3>3, <3>4
  <2>2. path' = tmp /\ text'[tmp] = text[tmp]
    BY <1>1, <2>1
  <2>3. Stored' = saver[w].doc
    BY <2>1, <2>2, FullIsWhole DEF Stored
  <2>4. Offered[w] = saver[w].doc /\ Offered[w] # NoDoc
    BY <2>1 DEF Offered
  <2>5. Register!Commit(w)
    BY <1>1, <1>2, <2>3, <2>4 DEF Register!Commit, Register!Saving
  <2> QED
    BY <2>5 DEF Register!RegisterNext
<1> QED
  BY <1>3, <1>4

\* A failed save, a kill and a power cut are steps of the register.
LEMMA EndRefines ==
  ASSUME FileInv, FileInv',
         (\E w \in Writers : FailSave(w)) \/ Kill \/ PowerCut
  PROVE  Register!RegisterNext
<1> USE FileAssumption
<1>1. CASE \E w \in Writers : FailSave(w)
  <2>1. PICK w \in Writers : FailSave(w)
    BY <1>1
  <2>2. Stored' = Stored /\ clash' = clash
    BY <2>1 DEF FailSave, Stored
  <2>3. Offered' = [Offered EXCEPT ![w] = NoDoc]
    BY <2>1 DEF FailSave, FileInv, FileTypeOK, Offered, Idle
  <2>4. Offered[w] # NoDoc
    BY <2>1, OfferedSaving DEF FailSave
  <2>5. Register!Withdraw(w)
    BY <2>2, <2>3, <2>4 DEF Register!Withdraw, Register!Saving
  <2> QED
    BY <2>5 DEF Register!RegisterNext
<1>2. CASE Kill
  <2>1. Stored' = Stored /\ clash' = clash /\ Offered' = [w \in Writers |-> NoDoc]
    BY <1>2 DEF Kill, Stored, Offered, Idle
  <2> QED
    BY <2>1 DEF Register!Forget, Register!RegisterNext
<1>3. CASE PowerCut
  <2>1. clash' = clash /\ path' = path /\ Offered' = [w \in Writers |-> NoDoc]
    BY <1>3 DEF PowerCut, Offered, Idle
  <2>2. CASE clash
    <3>1. \E ended \in SUBSET Writers :
            Offered' = [w \in Writers |-> IF w \in ended THEN NoDoc ELSE Offered[w]]
      <4> WITNESS Writers \in SUBSET Writers
      <4> QED
        BY <2>1
    <3> QED
      BY <2>1, <2>2, <3>1, ScrambleRefines
  <2>3. CASE ~clash
    <3>1. path # NoInode => text'[path] = text[path]
      BY <1>3, <2>3 DEF PowerCut, FileInv, FileTypeOK, TargetSafe
    <3>2. Stored' = Stored
      BY <2>1, <3>1 DEF Stored
    <3> QED
      BY <2>1, <3>2 DEF Register!Forget, Register!RegisterNext
  <2> QED
    BY <2>2, <2>3
<1> QED
  BY <1>1, <1>2, <1>3

\* LoadFile is a step of the register or a stutter.
LEMMA LoadFileRefines ==
  ASSUME FileInv, FileInv', LoadFile
  PROVE  [Register!RegisterNext]_(Register!regVars)
<1>1. clash' = clash /\ Offered' = Offered /\ text' = text
  BY DEF LoadFile, Offered
<1>2. CASE clash
  <2>1. \E ended \in SUBSET Writers :
          Offered' = [v \in Writers |-> IF v \in ended THEN NoDoc ELSE Offered[v]]
    <3> WITNESS {} \in SUBSET Writers
    <3> QED
      BY <1>1 DEF Offered
  <2> QED
    BY <1>1, <1>2, <2>1, ScrambleRefines
<1>3. CASE ~clash
  <2>1. path' = path
    BY <1>3 DEF LoadFile, FileInv, TargetSafe
  <2>2. Stored' = Stored
    BY <1>1, <2>1 DEF Stored
  <2> QED
    BY <1>1, <2>2 DEF Register!regVars
<1> QED
  BY <1>2, <1>3

\* Every step is a step of the register or a stutter.
LEMMA NextRefines ==
  FileInv /\ FileInv' /\ [FileNext]_fileVars => [Register!RegisterNext]_(Register!regVars)
<1> SUFFICES ASSUME FileInv, FileInv', [FileNext]_fileVars
             PROVE  [Register!RegisterNext]_(Register!regVars)
  OBVIOUS
<1>1. ASSUME NEW w \in Writers, NEW d \in Docs, Create(w, d)
      PROVE  Register!RegisterNext
  BY <1>1, CreateRefines
<1>2. ASSUME NEW w \in Writers, Write(w)
      PROVE  [Register!RegisterNext]_(Register!regVars)
  BY <1>2, WriteRefines
<1>3. ASSUME NEW w \in Writers, Sync(w) PROVE UNCHANGED Register!regVars
  <2>1. \A v \in Writers : saver'[v].doc = saver[v].doc
    BY <1>3 DEF Sync, FileInv, FileTypeOK
  <2>2. Offered' = Offered
    BY <2>1 DEF Offered
  <2> QED
    BY <1>3, <2>2 DEF Sync, Stored, Register!regVars
<1>4. ASSUME NEW w \in Writers, Rename(w) PROVE Register!RegisterNext
  BY <1>4, RenameRefines
<1>5. CASE (\E w \in Writers : FailSave(w)) \/ Kill \/ PowerCut
  BY <1>5, EndRefines
<1>6. CASE LoadFile
  BY <1>6, LoadFileRefines
<1>7. CASE UNCHANGED fileVars
  BY <1>7 DEF fileVars, Stored, Offered, Register!regVars
<1> QED
  BY <1>1, <1>2, <1>3, <1>4, <1>5, <1>6, <1>7 DEF FileNext

\* The save of persist.rs, configwrite.rs and configbackup.rs implements the
\* atomic register: until two saves overlap, a reader gets a whole document
\* that was saved, after any failed saves, kills and power cuts.
THEOREM SavesAreAtomic == FileSpec => ImplementsRegister
<1>1. FileInit => FileInv /\ Register!RegisterInit
  BY InitInv, InitRefines
<1>2. FileInv /\ [FileNext]_fileVars => FileInv'
  BY NextInv
<1>3. FileInv /\ FileInv' /\ [FileNext]_fileVars => [Register!RegisterNext]_(Register!regVars)
  BY NextRefines
<1> QED
  BY <1>1, <1>2, <1>3, PTL DEF FileSpec, ImplementsRegister, Register!RegisterSpec

-----------------------------------------------------------------------------
(* The calendar                                                            *)

(* The quotient and the remainder of a division that rounds down.          *)
LEMMA Quotient ==
    ASSUME NEW k \in Nat \ {0}, NEW x \in Int
    PROVE  /\ x \div k \in Int /\ k * (x \div k) <= x /\ x < k * (x \div k) + k
           /\ \A q \in Int : k * q <= x /\ x < k * q + k => x \div k = q
OBVIOUS

(* The year that begins on 1 March, the month and the day in it.           *)
MarchYear(date)  == IF date[2] <= 2 THEN date[1] - 1 ELSE date[1]
MarchMonth(date) == (date[2] + 9) % 12
DaysBefore(mp)   == (153 * mp + 2) \div 5
MarchDay(date)   == DaysBefore(MarchMonth(date)) + date[3] - 1

(* The days before each month of a year that begins on 1 March.            *)
LEMMA MonthTable ==
    /\ DaysBefore(0) = 0 /\ DaysBefore(1) = 31 /\ DaysBefore(2) = 61 /\ DaysBefore(3) = 92
    /\ DaysBefore(4) = 122 /\ DaysBefore(5) = 153 /\ DaysBefore(6) = 184
    /\ DaysBefore(7) = 214 /\ DaysBefore(8) = 245 /\ DaysBefore(9) = 275
    /\ DaysBefore(10) = 306 /\ DaysBefore(11) = 337
BY DEF DaysBefore

(* A year is as long as the leap days counted before it and before the     *)
(* next say.                                                               *)
LEMMA LeapYear ==
    ASSUME NEW y \in Int
    PROVE  /\ Leaps(y) \in Int
           /\ DaysInMonth(y, 2) \in {28, 29}
           /\ 365 + Leaps(y) - Leaps(y - 1) = 337 + DaysInMonth(y, 2)
<1>1. DaysInMonth(y, 2) = IF (y % 4 = 0 /\ y % 100 # 0) \/ y % 400 = 0 THEN 29 ELSE 28
  BY DEF DaysInMonth
<1>2. /\ y \div 4 - (y-1) \div 4 = IF y % 4 = 0 THEN 1 ELSE 0
      /\ y \div 100 - (y-1) \div 100 = IF y % 100 = 0 THEN 1 ELSE 0
      /\ y \div 400 - (y-1) \div 400 = IF y % 400 = 0 THEN 1 ELSE 0
  OBVIOUS
<1>3. /\ y % 400 = 0 => y % 100 = 0
      /\ y % 100 = 0 => y % 4 = 0
  OBVIOUS
<1>4. /\ y \div 4 \in Int /\ (y-1) \div 4 \in Int
      /\ y \div 100 \in Int /\ (y-1) \div 100 \in Int
      /\ y \div 400 \in Int /\ (y-1) \div 400 \in Int
  OBVIOUS
<1> QED
  BY <1>1, <1>2, <1>3, <1>4 DEF Leaps

(* DaysFromCivil counts 365 days a year, the leap days and the days of the *)
(* year.                                                                   *)
LEMMA DaysCounted ==
    ASSUME NEW date, IsDate(date)
    PROVE  /\ MarchYear(date) \in Int /\ MarchMonth(date) \in 0..11 /\ MarchDay(date) \in Int
           /\ DaysFromCivil(date) =
                 365 * MarchYear(date) + Leaps(MarchYear(date)) + MarchDay(date) - 719468
<1> DEFINE y == MarchYear(date)
           era == y \div 400
           yoe == y - era * 400
<1>1. y \in Int /\ MarchMonth(date) \in 0..11 /\ date[3] \in Int
  BY SMT DEF IsDate, MarchYear, MarchMonth, DaysInMonth, SMT
<1>2. MarchDay(date) \in Int
  BY <1>1, SMT DEF MarchDay, DaysBefore
<1>3. DaysFromCivil(date) =
         era * 146097 + (yoe * 365 + yoe \div 4 - yoe \div 100 + MarchDay(date)) - 719468
  BY SMT DEF DaysFromCivil, MarchYear, MarchMonth, MarchDay, DaysBefore, SMT
<1> HIDE DEF y
<1>4. era \in Int /\ yoe \in Int
  BY <1>1, SMT
<1>5. yoe \div 4 = y \div 4 - 100 * era
  BY <1>1, SMT
<1>6. yoe \div 100 = y \div 100 - 4 * era
  BY <1>1, SMT
<1>7. y \div 4 \in Int /\ y \div 100 \in Int
  BY <1>1, SMT
<1> HIDE DEF era
<1> QED
  BY <1>1, <1>2, <1>3, <1>4, <1>5, <1>6, <1>7, SMT DEF Leaps, y, era

(* Within an era of 400 years, a day by its century, four years, year and  *)
(* day: only the last year of four has a day more, and not of a century.   *)
Parts == {p \in [c : 0..3, f : 0..24, y : 0..3, d : 0..365] :
             p.d = 365 => p.y = 3 /\ (p.f < 24 \/ p.c = 3)}
DayOfEra(p)  == 36524 * p.c + 1461 * p.f + 365 * p.y + p.d
YearOfEra(p) == 100 * p.c + 4 * p.f + p.y

(* Every day of an era has such parts: its centuries, blocks of four       *)
(* years, years and days, the last of which may be one day longer.         *)
LEMMA PartsOfEra ==
    ASSUME NEW doe \in Int, 0 <= doe, doe <= 146096
    PROVE  \E p \in Parts : doe = DayOfEra(p)
<1> DEFINE c == IF doe = 146096 THEN 3 ELSE doe \div 36524
           r == doe - 36524 * c
<1>1. c \in 0..3 /\ 36524 * c <= doe
      /\ doe <= 36524 * c + 36524 /\ (doe = 36524 * c + 36524 => c = 3)
  <2>1. CASE doe = 146096
    <3>1. c = 3
      BY <2>1
    <3> HIDE DEF c
    <3> QED
      BY <2>1, <3>1, SMT
  <2>2. CASE doe # 146096
    <3>1. c = doe \div 36524
      BY <2>2
    <3> HIDE DEF c
    <3>2. c \in 0..3 /\ 36524 * c <= doe /\ doe < 36524 * c + 36524
      BY <2>2, <3>1, SMT
    <3> QED
      BY <3>2, SMT
  <2> QED
    BY <2>1, <2>2
<1> HIDE DEF c
<1>2. /\ c \in 0..3 /\ r \in Int
      /\ doe = 36524 * c + r /\ 0 <= r /\ r <= 36524 /\ (r = 36524 => c = 3)
  BY <1>1, SMT
<1> HIDE DEF r
<1> DEFINE f == r \div 1461
           s == r - 1461 * f
<1>3. f \in 0..24 /\ s \in 0..1460 /\ r = 1461 * f + s
  <2>1. r \in Int /\ 0 <= r /\ r <= 36524
    BY <1>2, SMT
  <2>2. f \in Int /\ 1461 * f <= r /\ r < 1461 * f + 1461
    BY <2>1, SMT
  <2> HIDE DEF f
  <2>3. s \in Int /\ 0 <= s /\ s <= 1460 /\ r = 1461 * f + s
    BY <2>1, <2>2, SMT
  <2>4. 0 <= f /\ f <= 24
    BY <2>1, <2>2, SMT
  <2> HIDE DEF s
  <2> QED
    BY <2>2, <2>3, <2>4, SMT
<1> HIDE DEF s, f
<1> DEFINE y == IF s = 1460 THEN 3 ELSE s \div 365
           d == s - 365 * y
<1>4. y \in 0..3 /\ d \in 0..365 /\ s = 365 * y + d /\ (d = 365 => s = 1460 /\ y = 3)
  <2>1. CASE s = 1460
    <3>1. y = 3
      BY <2>1
    <3> HIDE DEF y
    <3> QED
      BY <2>1, <3>1, SMT
  <2>2. CASE s # 1460
    <3>1. y = s \div 365
      BY <2>2
    <3> HIDE DEF y
    <3>2. y \in 0..3 /\ 365 * y <= s /\ s < 365 * y + 365
      BY <1>3, <2>2, <3>1, SMT
    <3> QED
      BY <1>3, <2>2, <3>2, SMT
  <2> QED
    BY <2>1, <2>2
<1> HIDE DEF y, d
<1> DEFINE p == [c |-> c, f |-> f, y |-> y, d |-> d]
<1>5. p \in Parts /\ doe = DayOfEra(p)
  BY <1>2, <1>3, <1>4, SMT DEF DayOfEra, Parts
<1> HIDE DEF p
<1> QED
  BY <1>5, SMT

(* The year within the era, as CivilFromDays computes it, is that of the   *)
(* parts.                                                                  *)
LEMMA YearComputed ==
    ASSUME NEW p \in Parts, NEW doe, doe = DayOfEra(p)
    PROVE  /\ doe \in Int
           /\ (doe - doe \div 1460 + doe \div 36524 - doe \div 146096) \div 365 = YearOfEra(p)
<1> DEFINE c == p.c
           f == p.f
           y == p.y
           d == p.d
<1>1. c \in 0..3 /\ f \in 0..24 /\ y \in 0..3 /\ d \in 0..365
  BY SMT DEF Parts
<1>2. /\ doe = 36524 * c + 1461 * f + 365 * y + d
      /\ d = 365 => y = 3 /\ (f < 24 \/ c = 3)
      /\ YearOfEra(p) = 100 * c + 4 * f + y
  BY SMT DEF DayOfEra, YearOfEra, Parts
<1> HIDE DEF c, f, y, d
<1> USE <1>1, <1>2
<1> DEFINE e == (24 * c + f + 365 * y + d) \div 1460
           last == c = 3 /\ f = 24 /\ y = 3 /\ d = 365
<1>3. 1461 * f + 365 * y + d <= 36524 /\ (1461 * f + 365 * y + d = 36524 => last)
  BY SMT
<1>4. doe \div 36524 = IF last THEN 4 ELSE c
  BY <1>3, SMT
<1>5. doe \div 146096 = IF last THEN 1 ELSE 0
  BY <1>3, SMT
<1>6. e \in 0..1 /\ (d = 0 => e = 0) /\ (d = 365 => e = 1)
  BY SMT
<1>7. doe \div 1460 = 25 * c + f + e
  <2>1. doe = 1460 * (25 * c + f) + (24 * c + f + 365 * y + d)
    BY SMT
  <2> QED
    BY <2>1, SMT
<1>8. doe \div 36524 - doe \div 146096 = c
  BY <1>4, <1>5, SMT
<1> HIDE DEF e, last
<1>9. doe - doe \div 1460 + doe \div 36524 - doe \div 146096 =
         365 * (100 * c + 4 * f + y) + (d - e)
  BY <1>6, <1>7, <1>8, SMT
<1>10. d - e \in 0..364
  BY <1>6, SMT
<1> DEFINE q == 100 * c + 4 * f + y
           x == doe - doe \div 1460 + doe \div 36524 - doe \div 146096
<1>11. q \in Int /\ x = 365 * q + (d - e)
  BY <1>9, SMT
<1> HIDE DEF q, x
<1>12. x \div 365 = q
  BY <1>10, <1>11, SMT
<1> QED
  BY <1>12, SMT DEF q, x

(* The year and the day those divisions give are the year that holds the   *)
(* day: the last day of one of 366 days is in a leap year.                 *)
LEMMA YearIs ==
    ASSUME NEW p \in Parts, NEW era \in Int
    PROVE  /\ YearOfEra(p) \in 0..399 /\ p.d \in 0..365
           /\ DayOfEra(p) - (365 * YearOfEra(p) + YearOfEra(p) \div 4 - YearOfEra(p) \div 100) = p.d
           /\ p.d \in Int /\ 0 <= p.d /\ p.d <= 365
           /\ LET y == YearOfEra(p) + 400 * era
              IN  /\ 365 * y + Leaps(y) + p.d = DayOfEra(p) + 146097 * era
                  /\ p.d = 365 => DaysInMonth(y + 1, 2) = 29
<1> DEFINE c == p.c
           f == p.f
           y == p.y
           d == p.d
           yoe == YearOfEra(p)
<1>1. c \in 0..3 /\ f \in 0..24 /\ y \in 0..3 /\ d \in 0..365
  BY SMT DEF Parts
<1>2. /\ DayOfEra(p) = 36524 * c + 1461 * f + 365 * y + d
      /\ d = 365 => y = 3 /\ (f < 24 \/ c = 3)
      /\ yoe = 100 * c + 4 * f + y
  BY SMT DEF DayOfEra, YearOfEra, Parts
<1> HIDE DEF c, f, y, d, yoe
<1>3. yoe \in 0..399
  BY <1>1, <1>2, SMT
<1>4. yoe \div 4 = 25 * c + f /\ yoe \div 100 = c
  BY <1>1, <1>2, SMT
<1>5. DayOfEra(p) - (365 * yoe + yoe \div 4 - yoe \div 100) = d
  BY <1>1, <1>2, <1>4, SMT
<1>6. /\ (yoe + 400 * era) \div 4 = yoe \div 4 + 100 * era
      /\ (yoe + 400 * era) \div 100 = yoe \div 100 + 4 * era
      /\ (yoe + 400 * era) \div 400 = era
  BY <1>3, SMT
<1>7. 365 * (yoe + 400 * era) + Leaps(yoe + 400 * era) + d = DayOfEra(p) + 146097 * era
  <2> DEFINE x == yoe + 400 * era
  <2>1. Leaps(x) = (25 * c + f + 100 * era) - (c + 4 * era) + era
    BY <1>4, <1>6, SMT DEF Leaps
  <2> HIDE DEF x
  <2>2. 365 * x + Leaps(x) + d = DayOfEra(p) + 146097 * era
    BY <1>1, <1>2, <2>1, SMT DEF x
  <2> QED
    BY <2>2, SMT DEF x
<1>8. ASSUME d = 365
      PROVE  DaysInMonth(yoe + 400 * era + 1, 2) = 29
  <2> DEFINE x == yoe + 400 * era + 1
  <2>1. (yoe + 1) % 4 = 0 /\ ((yoe + 1) % 100 # 0 \/ (yoe + 1) % 400 = 0)
    BY <1>1, <1>2, <1>8, SMT
  <2>2. x % 4 = (yoe + 1) % 4 /\ x % 100 = (yoe + 1) % 100 /\ x % 400 = (yoe + 1) % 400
    BY <1>3, SMT
  <2> HIDE DEF x
  <2>3. DaysInMonth(x, 2) = IF (x % 4 = 0 /\ x % 100 # 0) \/ x % 400 = 0 THEN 29 ELSE 28
    BY SMT DEF DaysInMonth
  <2> QED
    BY <2>1, <2>2, <2>3, SMT DEF x
<1>9. d \in 0..365 /\ d \in Int /\ 0 <= d /\ d <= 365
  BY <1>1
<1> QED
  BY <1>3, <1>5, <1>7, <1>8, <1>9, SMT DEF yoe, d

(* The month a day of the year lies in, and its length.                    *)
MonthOf(mp)   == IF mp < 10 THEN mp + 3 ELSE mp - 9
MonthAt(doy)  == (5 * doy + 2) \div 153
YearAt(doe)   == (doe - doe \div 1460 + doe \div 36524 - doe \div 146096) \div 365
DayIn(doe, y) == doe - (365 * y + y \div 4 - y \div 100)
DateAt(y, doy) ==
    LET m == MonthOf(MonthAt(doy))
    IN  <<IF m <= 2 THEN y + 1 ELSE y, m, doy - DaysBefore(MonthAt(doy)) + 1>>

(* The month of a day of the year, and the day in it, by the divisions by  *)
(* 153 and 5.                                                              *)
LEMMA MonthIs ==
    ASSUME NEW doy \in Int, 0 <= doy, doy <= 365
    PROVE  LET mp == MonthAt(doy) IN
           /\ mp \in 0..11 /\ DaysBefore(mp) \in 0..365 /\ DaysBefore(mp) <= doy
           /\ DaysBefore(mp + 1) \in Int /\ doy < DaysBefore(mp + 1)
BY SMT DEF DaysBefore, MonthAt

(* Where each month of a year that begins on 1 March stands, and how long  *)
(* it is: February comes last, whatever its length.                        *)
LEMMA MonthLengths ==
    ASSUME NEW mp \in 0..11, NEW y \in Int
    PROVE  /\ MonthOf(mp) \in 1..12 /\ (MonthOf(mp) + 9) % 12 = mp
           /\ MonthOf(mp) <= 2 <=> mp >= 10
           /\ mp < 11 => DaysInMonth(y, MonthOf(mp)) = DaysBefore(mp + 1) - DaysBefore(mp)
           /\ mp = 11 => MonthOf(mp) = 2 /\ DaysBefore(mp) = 337
<1>1. \/ mp = 0 \/ mp = 1 \/ mp = 2 \/ mp = 3 \/ mp = 4 \/ mp = 5
      \/ mp = 6 \/ mp = 7 \/ mp = 8 \/ mp = 9 \/ mp = 10 \/ mp = 11
  BY SMT
<1> QED
  BY <1>1, MonthTable, SMT DEF MonthOf, DaysInMonth

(* CivilFromDays, stage by stage.                                          *)
LEMMA Stages ==
    ASSUME NEW n \in Int
    PROVE  LET era == (n + 719468) \div 146097
               doe == n + 719468 - era * 146097
               yoe == YearAt(doe)
           IN  CivilFromDays(n) = DateAt(yoe + era * 400, DayIn(doe, yoe))
<1> DEFINE era == (n + 719468) \div 146097
           doe == n + 719468 - era * 146097
           yoe == YearAt(doe)
           doy == DayIn(doe, yoe)
           mp == MonthAt(doy)
           d == doy - DaysBefore(mp) + 1
           m == MonthOf(mp)
<1>1. era \in Int /\ doe \in Int
  BY SMT
<1>2. yoe \in Int
  BY <1>1, SMT DEF YearAt
<1>3. doy \in Int
  BY <1>1, <1>2, SMT DEF DayIn
<1>4. mp \in Int
  BY <1>3, SMT DEF MonthAt
<1>5. m \in Int /\ d \in Int
  BY <1>3, <1>4, SMT DEF MonthOf, DaysBefore
<1>6. CivilFromDays(n) = <<yoe + era * 400 + (IF m <= 2 THEN 1 ELSE 0), m, d>>
  BY <1>1, <1>2, <1>3, <1>4, <1>5, SMT DEF CivilFromDays, MonthOf, DaysBefore, YearAt, DayIn, MonthAt
<1>7. DateAt(yoe + era * 400, doy) =
        <<IF m <= 2 THEN yoe + era * 400 + 1 ELSE yoe + era * 400, m, d>>
  BY SMT DEF DateAt
<1> HIDE DEF m, yoe, era, d
<1>8. yoe + era * 400 + (IF m <= 2 THEN 1 ELSE 0) =
         IF m <= 2 THEN yoe + era * 400 + 1 ELSE yoe + era * 400
  BY <1>1, <1>2, <1>5, SMT
<1> HIDE DEF doy
<1> QED
  BY <1>6, <1>7, <1>8, SMT DEF doy, yoe, era

(* A year and its days, back from a year and a day of it that begins on 1  *)
(* March.                                                                  *)
LEMMA DateInYear ==
    ASSUME NEW y \in Int, NEW doy \in Int, 0 <= doy, doy <= 365, doy = 365 => DaysInMonth(y + 1, 2) = 29
    PROVE  LET date == DateAt(y, doy)
           IN  IsDate(date) /\ MarchYear(date) = y /\ MarchDay(date) = doy
<1> DEFINE mp == MonthAt(doy)
           m == MonthOf(mp)
           x == IF m <= 2 THEN y + 1 ELSE y
           date == DateAt(y, doy)
<1>1. /\ mp \in 0..11 /\ DaysBefore(mp) \in 0..365 /\ DaysBefore(mp) <= doy
      /\ DaysBefore(mp + 1) \in Int /\ doy < DaysBefore(mp + 1)
  BY MonthIs, SMT
<1> HIDE DEF mp
<1>2. x \in Int /\ (m <= 2 => x = y + 1) /\ (~(m <= 2) => x = y)
  BY SMT
<1>3. /\ m \in 1..12 /\ (m + 9) % 12 = mp /\ (m <= 2 <=> mp >= 10)
      /\ mp < 11 => DaysInMonth(x, m) = DaysBefore(mp + 1) - DaysBefore(mp)
      /\ mp = 11 => m = 2 /\ DaysBefore(mp) = 337
  BY <1>1, <1>2, MonthLengths, SMT
<1> HIDE DEF m, x
<1> DEFINE d == doy - DaysBefore(mp) + 1
<1>4. d \in Int /\ d >= 1
  BY <1>1, SMT
<1>5. d \in 1..DaysInMonth(x, m)
  <2>1. CASE mp < 11
    <3>1. d <= DaysInMonth(x, m) /\ DaysInMonth(x, m) \in Int
      BY <1>1, <1>3, <2>1, SMT
    <3> HIDE DEF d
    <3> QED
      BY <1>4, <3>1, SMT
  <2>2. CASE mp = 11
    <3>1. m = 2 /\ x = y + 1 /\ d <= 29 /\ (d = 29 => doy = 365)
      BY <1>1, <1>2, <1>3, <2>2, SMT
    <3>2. DaysInMonth(y + 1, 2) \in {28, 29}
      BY LeapYear, SMT
    <3> HIDE DEF d
    <3> QED
      BY <1>4, <3>1, <3>2, SMT
  <2> QED
    BY <1>1, <2>1, <2>2, SMT
<1>6. date = <<x, m, d>> /\ date[1] = x /\ date[2] = m /\ date[3] = d
  BY SMT DEF DateAt, mp, m, x
<1> HIDE DEF date
<1>7. MarchYear(date) = y /\ MarchMonth(date) = mp
  BY <1>1, <1>2, <1>3, <1>6, SMT DEF MarchYear, MarchMonth
<1>8. MarchDay(date) = doy
  <2>1. MarchDay(date) = DaysBefore(mp) + d - 1
    BY <1>6, <1>7, SMT DEF MarchDay
  <2> QED
    BY <1>1, <2>1, SMT
<1> HIDE DEF d
<1> QED
  BY <1>2, <1>3, <1>5, <1>6, <1>7, <1>8, SMT DEF IsDate, date

(* Every day has a date, and its date is counted back to it.               *)
LEMMA DateOfDay ==
    ASSUME NEW n \in Int
    PROVE  IsDate(CivilFromDays(n)) /\ DaysFromCivil(CivilFromDays(n)) = n
<1> DEFINE era == (n + 719468) \div 146097
           doe == n + 719468 - era * 146097
<1>1. era \in Int /\ doe \in Int /\ 0 <= doe /\ doe <= 146096
  BY SMT
<1>2. n = era * 146097 + doe - 719468
  BY <1>1, SMT
<1> HIDE DEF era, doe
<1>3. PICK p \in Parts : doe = DayOfEra(p)
  BY <1>1, PartsOfEra, SMT
<1> DEFINE yoe == YearOfEra(p)
           doy == p.d
           y   == yoe + 400 * era
<1>4. YearAt(doe) = yoe
  BY <1>3, YearComputed, SMT DEF YearAt
<1>5. /\ yoe \in 0..399 /\ doy \in Int /\ 0 <= doy /\ doy <= 365
      /\ DayIn(doe, yoe) = doy
      /\ 365 * y + Leaps(y) + doy = doe + 146097 * era
      /\ doy = 365 => DaysInMonth(y + 1, 2) = 29
  BY <1>1, <1>3, YearIs, SMT DEF DayIn
<1> HIDE DEF yoe, doy
<1>6. y \in Int /\ yoe \in Int /\ y = yoe + era * 400
  BY <1>1, <1>5, SMT
<1>7. CivilFromDays(n) = DateAt(y, doy)
  <2> HIDE DEF y
  <2> QED
    BY <1>1, <1>4, <1>5, <1>6, Stages, SMT DEF era, doe
<1> DEFINE date == DateAt(y, doy)
<1> HIDE DEF y
<1>8. IsDate(date) /\ MarchYear(date) = y /\ MarchDay(date) = doy
  BY <1>5, <1>6, DateInYear, SMT
<1> HIDE DEF date
<1>9. DaysFromCivil(date) = 365 * y + Leaps(y) + doy - 719468
  BY <1>8, DaysCounted, SMT
<1>10. Leaps(y) \in Int
  BY <1>6, LeapYear, SMT
<1> QED
  BY <1>1, <1>2, <1>5, <1>6, <1>7, <1>8, <1>9, <1>10, SMT DEF date

-----------------------------------------------------------------------------
(* The days before a year that begins on 1 March, and in it.               *)
YearStart(y)  == 365 * y + Leaps(y)
YearLength(y) == 337 + DaysInMonth(y + 1, 2)

(* Years lie end to end, in order.                                         *)
LEMMA YearsFollow ==
    ASSUME NEW y \in Int
    PROVE  /\ YearStart(y) \in Int /\ YearLength(y) \in {365, 366}
           /\ YearStart(y + 1) = YearStart(y) + YearLength(y)
           /\ \A x \in Int : y < x => YearStart(y) + YearLength(y) <= YearStart(x)
<1> DEFINE z == y + 1
<1>1. z \in Int /\ z - 1 = y
  BY SMT
<1> HIDE DEF z
<1>2. Leaps(y) \in Int /\ Leaps(z) \in Int
  BY <1>1, LeapYear, SMT
<1>3. YearLength(y) = 337 + DaysInMonth(z, 2) /\ DaysInMonth(z, 2) \in {28, 29}
  BY <1>1, LeapYear, SMT DEF YearLength, z
<1>4. YearStart(y) \in Int /\ YearStart(z) \in Int
  BY <1>1, <1>2, SMT DEF YearStart
<1>5. YearStart(z) = YearStart(y) + YearLength(y)
  <2>1. 365 + Leaps(z) - Leaps(z - 1) = 337 + DaysInMonth(z, 2)
    BY <1>1, LeapYear, SMT
  <2>2. 365 + Leaps(z) - Leaps(y) = YearLength(y)
    BY <1>1, <1>3, <2>1
  <2> QED
    BY <1>1, <1>2, <1>3, <2>2, SMT DEF YearStart
<1>6. ASSUME NEW x \in Int, y < x PROVE YearStart(z) <= YearStart(x)
  <2>1. z <= x
    BY <1>1, <1>6, SMT
  <2>2. /\ z \div 4 <= x \div 4 /\ z \div 400 <= x \div 400
        /\ x \div 100 - z \div 100 <= x - z
        /\ z \div 4 \in Int /\ z \div 100 \in Int /\ z \div 400 \in Int
        /\ x \div 4 \in Int /\ x \div 100 \in Int /\ x \div 400 \in Int
    BY <1>1, <1>6, <2>1, SMT
  <2> QED
    BY <1>1, <1>6, <2>1, <2>2, SMT DEF YearStart, Leaps
<1>7. YearLength(y) \in {365, 366}
  BY <1>3, SMT
<1> QED
  BY <1>4, <1>5, <1>6, <1>7 DEF z

(* A date by its year and day from 1 March on.                             *)
LEMMA PlaceOfDate ==
    ASSUME NEW date, IsDate(date)
    PROVE  /\ MarchYear(date) \in Int /\ MarchMonth(date) \in 0..11
           /\ MarchDay(date) \in Int /\ 0 <= MarchDay(date)
           /\ MarchDay(date) < YearLength(MarchYear(date))
           /\ DaysFromCivil(date) = YearStart(MarchYear(date)) + MarchDay(date) - 719468
<1> DEFINE Y == MarchYear(date)
           mp == MarchMonth(date)
           y == date[1]
           m == date[2]
           d == date[3]
<1>1. Y \in Int /\ mp \in 0..11 /\ MarchDay(date) \in Int
  BY DaysCounted, SMT
<1>2. y \in Int /\ m \in 1..12 /\ d \in 1..DaysInMonth(y, m)
  BY SMT DEF IsDate
<1>3. DaysFromCivil(date) = YearStart(Y) + MarchDay(date) - 719468
  BY <1>1, DaysCounted, SMT DEF YearStart
<1>4. mp = (m + 9) % 12 /\ MarchDay(date) = DaysBefore(mp) + d - 1
  BY SMT DEF MarchMonth, MarchDay
<1>5. y = IF m <= 2 THEN Y + 1 ELSE Y
  BY <1>2, SMT DEF MarchYear
<1>6. YearLength(Y) = 337 + DaysInMonth(Y + 1, 2) /\ YearLength(Y) \in {365, 366}
  BY <1>1, YearsFollow, SMT DEF YearLength
<1>7. MonthOf(mp) = m
  BY <1>2, <1>4, SMT DEF MonthOf
<1> HIDE DEF Y, mp, y, m, d
<1>8. /\ d \in Int /\ 1 <= d
      /\ DaysBefore(mp) \in 0..337 /\ DaysInMonth(y, m) \in Int /\ d <= DaysInMonth(y, m)
  <2>1. DaysBefore(mp) \in 0..337
    BY <1>1, SMT DEF DaysBefore
  <2>2. DaysInMonth(y, m) \in Int
    BY SMT DEF DaysInMonth
  <2> QED
    BY <1>2, <2>1, <2>2, SMT
<1>9. MarchDay(date) < YearLength(Y)
  <2>1. CASE mp < 11
    <3>1. DaysInMonth(y, m) = DaysBefore(mp + 1) - DaysBefore(mp)
      BY <1>1, <1>2, <1>7, <2>1, MonthLengths, SMT
    <3>2. DaysBefore(mp + 1) <= 337 /\ DaysBefore(mp + 1) \in Int
      BY <1>1, <2>1, SMT DEF DaysBefore
    <3> QED
      BY <1>4, <1>6, <1>8, <3>1, <3>2, SMT
  <2>2. CASE mp = 11
    <3>1. m = 2 /\ y = Y + 1 /\ DaysBefore(mp) = 337
      BY <1>1, <1>2, <1>5, <1>7, <2>2, MonthLengths, SMT
    <3> QED
      BY <1>4, <1>6, <1>8, <3>1, SMT
  <2> QED
    BY <1>1, <2>1, <2>2, SMT
<1> QED
  BY <1>1, <1>3, <1>4, <1>8, <1>9, SMT DEF Y, mp

(* A day of the year and the month it lies in.                             *)
LEMMA MonthOfDay ==
    ASSUME NEW date, IsDate(date)
    PROVE  MonthAt(MarchDay(date)) = MarchMonth(date)
<1> DEFINE mp == MarchMonth(date)
           y == date[1]
           m == date[2]
           d == date[3]
           doy == MarchDay(date)
<1>1. y \in Int /\ m \in 1..12 /\ d \in 1..DaysInMonth(y, m) /\ DaysInMonth(y, m) \in 28..31
  BY SMT DEF IsDate, DaysInMonth
<1>2. mp = (m + 9) % 12 /\ doy = DaysBefore(mp) + d - 1
  BY SMT DEF MarchMonth, MarchDay
<1>3. mp \in 0..11 /\ MonthOf(mp) = m
  BY <1>1, <1>2, SMT DEF MonthOf
<1> HIDE DEF mp, y, m, d, doy
<1>4. d \in Int /\ 1 <= d /\ d <= 31 /\ (mp < 11 => d <= DaysBefore(mp + 1) - DaysBefore(mp))
      /\ (mp = 11 => d <= 29)
  <2>1. mp < 11 => DaysInMonth(y, m) = DaysBefore(mp + 1) - DaysBefore(mp)
    BY <1>1, <1>3, MonthLengths, SMT
  <2>2. mp = 11 => DaysInMonth(y, m) \in {28, 29}
    BY <1>1, <1>3, MonthLengths, LeapYear, SMT
  <2> QED
    BY <1>1, <1>3, <2>1, <2>2, SMT
<1> DEFINE b == DaysBefore(mp)
           e == DaysBefore(mp + 1)
<1>5. /\ b \in Int /\ 5 * b <= 153 * mp + 2 /\ 153 * mp + 2 < 5 * b + 5
      /\ e \in Int /\ 5 * e <= 153 * mp + 155
      /\ mp = 11 => b = 337
  BY <1>3, SMT DEF DaysBefore
<1> HIDE DEF b, e
<1>6. doy = b + d - 1 /\ (mp < 11 => d <= e - b)
  BY <1>2, <1>4, <1>5 DEF b, e
<1>7. MonthAt(doy) = mp
  <2>1. doy \in Int /\ 153 * mp <= 5 * doy + 2 /\ 5 * doy + 2 < 153 * mp + 153
    BY <1>3, <1>4, <1>5, <1>6, SMT
  <2> QED
    BY <1>3, <2>1, SMT DEF MonthAt
<1> QED
  BY <1>7 DEF mp, doy

(* No two dates are one day, and every date is found again from its day.   *)
LEMMA DateIsFound ==
    /\ \A a, b : IsDate(a) /\ IsDate(b) /\ DaysFromCivil(a) = DaysFromCivil(b) => a = b
    /\ \A a : IsDate(a) => DaysFromCivil(a) \in Int /\ CivilFromDays(DaysFromCivil(a)) = a
<1> DEFINE Place(a) ==
              /\ MarchYear(a) \in Int /\ MarchDay(a) \in Int
              /\ YearStart(MarchYear(a)) \in Int
              /\ 0 <= MarchDay(a) /\ MarchDay(a) < YearLength(MarchYear(a))
              /\ DaysFromCivil(a) + 719468 = YearStart(MarchYear(a)) + MarchDay(a)
              /\ DaysFromCivil(a) \in Int
<1>0. ASSUME NEW a, IsDate(a) PROVE Place(a)
  <2>1. /\ MarchYear(a) \in Int /\ MarchDay(a) \in Int
        /\ 0 <= MarchDay(a) /\ MarchDay(a) < YearLength(MarchYear(a))
    BY <1>0, PlaceOfDate, SMT
  <2>2. DaysFromCivil(a) = YearStart(MarchYear(a)) + MarchDay(a) - 719468
    BY <1>0, PlaceOfDate, SMT
  <2>3. YearStart(MarchYear(a)) \in Int
    BY <2>1, YearsFollow, SMT
  <2> QED
    BY <2>1, <2>2, <2>3, SMT
<1>1. ASSUME NEW a, NEW b, IsDate(a), IsDate(b), DaysFromCivil(a) = DaysFromCivil(b) PROVE a = b
  <2> DEFINE Y == MarchYear(a)
             X == MarchYear(b)
             i == MarchDay(a)
             j == MarchDay(b)
  <2>1. /\ Y \in Int /\ i \in Int /\ 0 <= i /\ i < YearLength(Y)
        /\ DaysFromCivil(a) + 719468 = YearStart(Y) + i
    BY <1>0, <1>1, SMT
  <2>2. /\ X \in Int /\ j \in Int /\ 0 <= j /\ j < YearLength(X)
        /\ DaysFromCivil(b) + 719468 = YearStart(X) + j
    BY <1>0, <1>1, SMT
  <2> HIDE DEF Y, X, i, j
  <2>3. /\ YearStart(Y) \in Int /\ YearLength(Y) \in Int
        /\ YearStart(X) \in Int /\ YearLength(X) \in Int
        /\ Y < X => YearStart(Y) + YearLength(Y) <= YearStart(X)
        /\ X < Y => YearStart(X) + YearLength(X) <= YearStart(Y)
    <3>1. \A y, x \in Int :
             /\ YearStart(y) \in Int /\ YearLength(y) \in Int
             /\ y < x => YearStart(y) + YearLength(y) <= YearStart(x)
      BY YearsFollow, SMT
    <3> QED
      BY <2>1, <2>2, <3>1, SMT
  <2>4. YearStart(Y) + i = YearStart(X) + j
    BY <1>1, <2>1, <2>2, SMT
  <2>5. X = Y /\ i = j
    BY <2>1, <2>2, <2>3, <2>4, SMT
  <2>6. MarchMonth(a) = MarchMonth(b)
    BY <1>1, <2>5, MonthOfDay DEF i, j
  <2>7. a[2] = b[2] /\ a[3] = b[3] /\ a[1] = b[1]
    <3>1. /\ a[2] \in 1..12 /\ b[2] \in 1..12 /\ a[3] \in Int
          /\ b[3] \in Int /\ a[1] \in Int /\ b[1] \in Int
      BY <1>1, SMT DEF IsDate, DaysInMonth
    <3>2. a[2] = b[2]
      BY <2>6, <3>1, SMT DEF MarchMonth
    <3>3. a[1] = b[1]
      BY <2>5, <3>1, <3>2, SMT DEF MarchYear, X, Y
    <3>4. DaysBefore(MarchMonth(a)) \in Int
      BY <3>1, SMT DEF MarchMonth, DaysBefore
    <3>5. a[3] = b[3]
      BY <2>5, <2>6, <3>1, <3>4, SMT DEF MarchDay, i, j
    <3> QED
      BY <3>2, <3>3, <3>5
  <2> QED
    BY <1>1, <2>7, SMT DEF IsDate
<1>2. ASSUME NEW a, IsDate(a) PROVE DaysFromCivil(a) \in Int /\ CivilFromDays(DaysFromCivil(a)) = a
  <2>1. DaysFromCivil(a) \in Int
    BY <1>0, <1>2, SMT
  <2> QED
    BY <1>1, <1>2, <2>1, DateOfDay
<1> QED
  BY <1>1, <1>2

(* The era-wise count of the code is the almanac's.                        *)
LEMMA CountedByTheAlmanac ==
    ASSUME NEW date, IsDate(date) PROVE DaysFromCivil(date) = DayNumber(date)
<1> DEFINE y == date[1]
           m == date[2]
           d == date[3]
           Y == MarchYear(date)
           l == Leaps(Y)
<1>1. y \in Int /\ m \in 1..12 /\ d \in Int
  BY SMT DEF IsDate, DaysInMonth
<1>2. DaysFromCivil(date) = 365 * Y + l + (DaysBefore((m + 9) % 12) + d - 1) - 719468
  BY DaysCounted, SMT DEF MarchDay, MarchMonth
<1>3. Y = IF m <= 2 THEN y - 1 ELSE y
  BY SMT DEF MarchYear
<1>4. Y \in Int /\ l \in Int
  BY <1>1, <1>3, LeapYear, SMT
<1>5. Leaps(1969) = 477
  BY SMT DEF Leaps
<1>6. DayNumber(date) = 365 * (y - 1970) + l - 477 + BeforeMonth[m] + d - 1
  <2>1. DayNumber(date) = 365 * (y - 1970) + Leaps(IF m <= 2 THEN y - 1 ELSE y)
                              - Leaps(1969) + BeforeMonth[m] + d - 1
    BY SMT DEF DayNumber
  <2> HIDE DEF y, m, d
  <2> QED
    BY <1>3, <1>5, <2>1, SMT
<1> HIDE DEF y, m, d, Y, l
<1>7. \/ m = 1 \/ m = 2 \/ m = 3 \/ m = 4 \/ m = 5 \/ m = 6
      \/ m = 7 \/ m = 8 \/ m = 9 \/ m = 10 \/ m = 11 \/ m = 12
  BY <1>1, SMT
<1>8. DaysBefore((m + 9) % 12) = BeforeMonth[m] + IF m <= 2 THEN 306 ELSE -59
  BY <1>7, SMT DEF BeforeMonth, DaysBefore
<1>9. BeforeMonth[m] \in Int
  BY <1>7, SMT DEF BeforeMonth
<1> QED
  BY <1>1, <1>2, <1>3, <1>4, <1>6, <1>8, <1>9, SMT

(* A month has its days one after the other, and the next follows.         *)
LEMMA DaysOfMonth ==
    ASSUME NEW y \in Int, NEW m \in 1..12
    PROVE  /\ DaysInMonth(y, m) \in 28..31 /\ MonthStart(<<y, m>>) \in Int
           /\ \A d \in 1..DaysInMonth(y, m) :
                 IsDate(<<y, m, d>>) /\ DaysFromCivil(<<y, m, d>>) = MonthStart(<<y, m>>) + d - 1
<1>1. DaysInMonth(y, m) \in 28..31
  BY SMT DEF DaysInMonth
<1>2. \A d \in 1..DaysInMonth(y, m) : IsDate(<<y, m, d>>)
  BY SMT DEF IsDate
<1>3. 1 \in 1..DaysInMonth(y, m)
  BY <1>1, SMT
<1>4. MonthStart(<<y, m>>) = DaysFromCivil(<<y, m, 1>>)
  BY SMT DEF MonthStart
<1>5. MonthStart(<<y, m>>) \in Int
  BY <1>2, <1>3, <1>4, DateIsFound
<1>6. ASSUME NEW d \in 1..DaysInMonth(y, m)
      PROVE  DaysFromCivil(<<y, m, d>>) = MonthStart(<<y, m>>) + d - 1
  <2> DEFINE a == <<y, m, d>>
             b == <<y, m, 1>>
  <2>1. IsDate(a) /\ IsDate(b) /\ d \in Int
    BY <1>1, <1>2, <1>3, SMT
  <2>2. MarchYear(a) = MarchYear(b) /\ MarchMonth(a) = MarchMonth(b)
    BY SMT DEF MarchYear, MarchMonth
  <2>3. MarchDay(a) = DaysBefore(MarchMonth(b)) + d - 1 /\ MarchDay(b) = DaysBefore(MarchMonth(b))
    <3>1. MarchMonth(b) \in Int /\ DaysBefore(MarchMonth(b)) \in Int
      BY SMT DEF MarchMonth, DaysBefore
    <3> QED
      BY <2>1, <2>2, <3>1, SMT DEF MarchDay
  <2> HIDE DEF a, b
  <2>4. /\ DaysFromCivil(a) = YearStart(MarchYear(b)) + MarchDay(a) - 719468
        /\ DaysFromCivil(b) = YearStart(MarchYear(b)) + MarchDay(b) - 719468
        /\ MarchDay(b) \in Int /\ MarchDay(a) \in Int /\ YearStart(MarchYear(b)) \in Int
    <3>1. \A c : IsDate(c) => /\ DaysFromCivil(c) = YearStart(MarchYear(c)) + MarchDay(c) - 719468
                              /\ MarchDay(c) \in Int /\ MarchYear(c) \in Int
      BY PlaceOfDate, SMT
    <3>2. YearStart(MarchYear(b)) \in Int
      BY <2>1, <3>1, YearsFollow, SMT
    <3> QED
      BY <2>1, <2>2, <3>1, <3>2, SMT
  <2>5. DaysFromCivil(a) = DaysFromCivil(b) + d - 1
    BY <2>1, <2>3, <2>4, SMT
  <2> QED
    BY <1>4, <2>5 DEF a, b
<1> QED
  BY <1>1, <1>2, <1>5, <1>6

(* Months lie end to end, and the month before is the one this follows.    *)
LEMMA MonthsFollow ==
    ASSUME NEW y \in Int, NEW m \in 1..12
    PROVE  /\ MonthAfter(y, m) = <<MonthAfter(y, m)[1], MonthAfter(y, m)[2]>>
           /\ MonthAfter(y, m)[1] \in Int /\ MonthAfter(y, m)[2] \in 1..12
           /\ MonthStart(MonthAfter(y, m)) = MonthStart(<<y, m>>) + DaysInMonth(y, m)
           /\ MonthBefore(y, m) = <<MonthBefore(y, m)[1], MonthBefore(y, m)[2]>>
           /\ MonthBefore(y, m)[1] \in Int /\ MonthBefore(y, m)[2] \in 1..12
           /\ MonthAfter(MonthBefore(y, m)[1], MonthBefore(y, m)[2]) = <<y, m>>
           /\ MonthBefore(MonthAfter(y, m)[1], MonthAfter(y, m)[2]) = <<y, m>>
<1>1. /\ MonthAfter(y, m) = <<MonthAfter(y, m)[1], MonthAfter(y, m)[2]>>
      /\ MonthAfter(y, m)[1] \in Int /\ MonthAfter(y, m)[2] \in 1..12
      /\ MonthBefore(y, m) = <<MonthBefore(y, m)[1], MonthBefore(y, m)[2]>>
      /\ MonthBefore(y, m)[1] \in Int /\ MonthBefore(y, m)[2] \in 1..12
  BY SMT DEF MonthAfter, MonthBefore
<1>2. /\ MonthAfter(MonthBefore(y, m)[1], MonthBefore(y, m)[2]) = <<y, m>>
      /\ MonthBefore(MonthAfter(y, m)[1], MonthAfter(y, m)[2]) = <<y, m>>
  BY SMT DEF MonthAfter, MonthBefore
<1>3. MonthStart(MonthAfter(y, m)) = MonthStart(<<y, m>>) + DaysInMonth(y, m)
  <2> DEFINE x == MonthAfter(y, m)[1]
             k == MonthAfter(y, m)[2]
             a == <<y, m, 1>>
             b == <<x, k, 1>>
             mp == (m + 9) % 12
             kp == (k + 9) % 12
  <2>1. /\ x = (IF m = 12 THEN y + 1 ELSE y) /\ k = (IF m = 12 THEN 1 ELSE m + 1)
        /\ x \in Int /\ k \in 1..12
    BY SMT DEF MonthAfter
  <2> HIDE DEF x, k
  <2>2. mp \in 0..11 /\ MonthOf(mp) = m /\ kp \in 0..11 /\ kp = (IF m = 2 THEN 0 ELSE mp + 1)
    BY <2>1, SMT DEF MonthOf
  <2>3. IsDate(a) /\ IsDate(b)
    BY <2>1, SMT DEF IsDate, DaysInMonth
  <2>4. /\ MarchYear(a) = (IF m <= 2 THEN y - 1 ELSE y)
        /\ MarchYear(b) = (IF m = 1 \/ m = 12 THEN x - 1 ELSE x)
        /\ MarchMonth(a) = mp /\ MarchMonth(b) = kp
    BY <2>1, SMT DEF MarchYear, MarchMonth
  <2>5. /\ MarchDay(a) = DaysBefore(mp) /\ MarchDay(b) = DaysBefore(kp)
        /\ DaysBefore(mp) \in Int /\ DaysBefore(kp) \in Int
    <3>1. DaysBefore(mp) \in Int /\ DaysBefore(kp) \in Int
      BY <2>2, SMT DEF DaysBefore
    <3> HIDE DEF mp, kp
    <3> QED
      BY <2>4, <3>1, SMT DEF MarchDay
  <2> HIDE DEF mp, kp
  <2>6. /\ DaysFromCivil(a) = YearStart(MarchYear(a)) + DaysBefore(mp) - 719468
        /\ DaysFromCivil(b) = YearStart(MarchYear(b)) + DaysBefore(kp) - 719468
    <3>1. \A c : IsDate(c) => DaysFromCivil(c) = YearStart(MarchYear(c)) + MarchDay(c) - 719468
      BY PlaceOfDate, SMT
    <3> HIDE DEF a, b
    <3> QED
      BY <2>3, <2>5, <3>1, SMT
  <2>7. MarchYear(a) \in Int /\ MarchYear(b) \in Int /\ DaysInMonth(y, m) \in Int
    BY <2>1, <2>4, SMT DEF DaysInMonth
  <2> HIDE DEF a, b
  <2>8. YearStart(MarchYear(a)) \in Int /\ YearStart(MarchYear(b)) \in Int
    BY <2>7, YearsFollow, SMT
  <2>9. DaysFromCivil(b) = DaysFromCivil(a) + DaysInMonth(y, m)
    <3>1. CASE m = 2
      <4>1. mp = 11 /\ DaysBefore(mp) = 337 /\ kp = 0 /\ DaysBefore(kp) = 0
        BY <2>2, <3>1, MonthTable, SMT DEF MonthOf
      <4>2. MarchYear(a) = y - 1 /\ MarchYear(b) = y
        BY <2>1, <2>4, <3>1, SMT
      <4>3. YearLength(y - 1) = 337 + DaysInMonth(y, 2)
        <5>1. (y - 1) + 1 = y
          BY SMT
        <5> QED
          BY <5>1, SMT DEF YearLength
      <4>4. YearStart(y) = YearStart(y - 1) + YearLength(y - 1)
        <5> DEFINE z == y - 1
        <5>1. z \in Int /\ z + 1 = y
          BY SMT
        <5> HIDE DEF z
        <5>2. YearStart(z + 1) = YearStart(z) + YearLength(z)
          BY <5>1, YearsFollow, SMT
        <5> QED
          BY <5>1, <5>2 DEF z
      <4>5. YearStart(MarchYear(b)) = YearStart(MarchYear(a)) + 337 + DaysInMonth(y, m)
        BY <2>7, <2>8, <3>1, <4>2, <4>3, <4>4, SMT
      <4> QED
        BY <2>6, <2>7, <2>8, <4>1, <4>5, SMT
    <3>2. CASE m # 2
      <4>1. MarchYear(a) = MarchYear(b)
        BY <2>1, <2>4, <3>2, SMT
      <4>2. kp = mp + 1 /\ mp < 11
        BY <2>2, <3>2, SMT DEF MonthOf
      <4>3. DaysInMonth(y, m) = DaysBefore(kp) - DaysBefore(mp)
        BY <2>2, <4>2, MonthLengths, SMT
      <4> QED
        BY <2>5, <2>6, <2>7, <2>8, <4>1, <4>3, SMT
    <3> QED
      BY <3>1, <3>2
  <2>10. MonthStart(MonthAfter(y, m)) = DaysFromCivil(b)
    BY SMT DEF MonthStart, b, x, k
  <2>11. MonthStart(<<y, m>>) = DaysFromCivil(a)
    BY SMT DEF MonthStart, a
  <2> QED
    BY <2>9, <2>10, <2>11
<1> QED
  BY <1>1, <1>2, <1>3

(* The date after a date is that of the day after.                         *)
LEMMA NextDay ==
    ASSUME NEW date, IsDate(date)
    PROVE  IsDate(NextDate(date)) /\ DaysFromCivil(NextDate(date)) = DaysFromCivil(date) + 1
<1> DEFINE y == date[1]
           m == date[2]
           d == date[3]
           x == MonthAfter(y, m)[1]
           k == MonthAfter(y, m)[2]
<1>1. date = <<y, m, d>> /\ y \in Int /\ m \in 1..12 /\ d \in 1..DaysInMonth(y, m)
  BY SMT DEF IsDate
<1>2. NextDate(date) = IF d < DaysInMonth(y, m) THEN <<y, m, d + 1>> ELSE <<x, k, 1>>
  BY SMT DEF NextDate
<1> HIDE DEF y, m, d
<1>3. /\ DaysInMonth(y, m) \in 28..31 /\ MonthStart(<<y, m>>) \in Int
      /\ \A j \in 1..DaysInMonth(y, m) :
            IsDate(<<y, m, j>>) /\ DaysFromCivil(<<y, m, j>>) = MonthStart(<<y, m>>) + j - 1
  BY <1>1, DaysOfMonth
<1>4. /\ x \in Int /\ k \in 1..12 /\ MonthAfter(y, m) = <<x, k>>
      /\ MonthStart(MonthAfter(y, m)) = MonthStart(<<y, m>>) + DaysInMonth(y, m)
  BY <1>1, MonthsFollow
<1> HIDE DEF x, k
<1>5. CASE d < DaysInMonth(y, m)
  <2>1. d + 1 \in 1..DaysInMonth(y, m)
    BY <1>1, <1>3, <1>5, SMT
  <2>2. DaysFromCivil(date) = MonthStart(<<y, m>>) + d - 1
    BY <1>1, <1>3
  <2>3. NextDate(date) = <<y, m, d + 1>>
    BY <1>2, <1>5
  <2>4. IsDate(<<y, m, d + 1>>) /\ DaysFromCivil(<<y, m, d + 1>>) = MonthStart(<<y, m>>) + (d + 1) - 1
    BY <1>3, <2>1
  <2>5. MonthStart(<<y, m>>) + (d + 1) - 1 = (MonthStart(<<y, m>>) + d - 1) + 1
    BY <1>1, <1>3, SMT
  <2> QED
    BY <2>2, <2>3, <2>4, <2>5
<1>6. CASE ~(d < DaysInMonth(y, m))
  <2>1. d = DaysInMonth(y, m)
    BY <1>1, <1>3, <1>6, SMT
  <2>2. DaysFromCivil(date) = MonthStart(<<y, m>>) + d - 1
    BY <1>1, <1>3
  <2>3. NextDate(date) = <<x, k, 1>>
    BY <1>2, <1>6
  <2>4. 1 \in 1..DaysInMonth(x, k) /\ MonthStart(<<x, k>>) \in Int
    <3>1. DaysInMonth(x, k) \in 28..31 /\ MonthStart(<<x, k>>) \in Int
      BY <1>4, DaysOfMonth
    <3> QED
      BY <3>1, SMT
  <2>5. IsDate(<<x, k, 1>>) /\ DaysFromCivil(<<x, k, 1>>) = MonthStart(<<x, k>>) + 1 - 1
    BY <1>4, <2>4, DaysOfMonth
  <2>6. MonthStart(<<x, k>>) = MonthStart(<<y, m>>) + d
    BY <1>4, <2>1
  <2>7. MonthStart(<<x, k>>) + 1 - 1 = (MonthStart(<<y, m>>) + d - 1) + 1
    BY <1>1, <1>3, <2>4, <2>6, SMT
  <2> QED
    BY <2>2, <2>3, <2>5, <2>7
<1> QED
  BY <1>5, <1>6

-----------------------------------------------------------------------------
(* Billing cycles                                                          *)

IsMonth(ym) == ym = <<ym[1], ym[2]>> /\ ym[1] \in Int /\ ym[2] \in 1..12
After(ym)  == MonthAfter(ym[1], ym[2])
Prior(ym)  == MonthBefore(ym[1], ym[2])

(* The months of the calendar lie end to end, and each has its anchor.     *)
LEMMA MonthsTile ==
    ASSUME NEW ym, IsMonth(ym), NEW a \in 1..31
    PROVE  /\ IsMonth(After(ym)) /\ IsMonth(Prior(ym))
           /\ After(Prior(ym)) = ym /\ Prior(After(ym)) = ym
           /\ MonthStart(ym) \in Int /\ MonthStart(After(ym)) \in Int /\ Anchor(ym, a) \in Int
           /\ MonthStart(ym) <= Anchor(ym, a) /\ Anchor(ym, a) < MonthStart(After(ym))
           /\ MonthStart(After(ym)) = MonthStart(ym) + DaysInMonth(ym[1], ym[2])
           /\ CivilFromDays(Anchor(ym, a)) = <<ym[1], ym[2], Lower(a, DaysInMonth(ym[1], ym[2]))>>
<1> DEFINE y == ym[1]
           m == ym[2]
           l == DaysInMonth(y, m)
           d == Lower(a, l)
<1>1. ym = <<y, m>> /\ y \in Int /\ m \in 1..12
  BY DEF IsMonth
<1> HIDE DEF y, m
<1>2. /\ IsMonth(MonthAfter(y, m)) /\ IsMonth(MonthBefore(y, m))
      /\ MonthAfter(MonthBefore(y, m)[1], MonthBefore(y, m)[2]) = ym
      /\ MonthBefore(MonthAfter(y, m)[1], MonthAfter(y, m)[2]) = ym
      /\ MonthStart(MonthAfter(y, m)) = MonthStart(ym) + DaysInMonth(y, m)
  BY <1>1, MonthsFollow DEF IsMonth
<1>3. /\ DaysInMonth(y, m) \in 28..31 /\ MonthStart(ym) \in Int
      /\ \A j \in 1..DaysInMonth(y, m) :
            IsDate(<<y, m, j>>) /\ DaysFromCivil(<<y, m, j>>) = MonthStart(ym) + j - 1
  BY <1>1, DaysOfMonth
<1> HIDE DEF l
<1>4. l = DaysInMonth(y, m) /\ l \in 28..31
  BY <1>3 DEF l
<1>5. d \in 1..l /\ d \in Int /\ 1 <= d /\ d <= l
  BY <1>4, SMT DEF Lower
<1>6. Anchor(ym, a) = DaysFromCivil(<<y, m, d>>)
  BY DEF Anchor, y, m, l
<1> HIDE DEF d
<1>7. IsDate(<<y, m, d>>) /\ DaysFromCivil(<<y, m, d>>) = MonthStart(ym) + d - 1
  BY <1>3, <1>4, <1>5
<1>8. Anchor(ym, a) = MonthStart(ym) + d - 1
  BY <1>6, <1>7
<1>9. CivilFromDays(Anchor(ym, a)) = <<y, m, d>>
  BY <1>6, <1>7, DateIsFound
<1>10. MonthStart(MonthAfter(y, m)) = MonthStart(ym) + l
  BY <1>2, <1>4
<1>11. /\ MonthStart(MonthAfter(y, m)) \in Int /\ Anchor(ym, a) \in Int
       /\ MonthStart(ym) <= Anchor(ym, a) /\ Anchor(ym, a) < MonthStart(MonthAfter(y, m))
  BY <1>3, <1>4, <1>5, <1>8, <1>10, SMT
<1> QED
  BY <1>2, <1>3, <1>9, <1>11 DEF After, Prior, y, m, d, l

(* Every day lies in one month, that of its date.                          *)
LEMMA MonthOfDate ==
    ASSUME NEW n \in Int
    PROVE  LET ym == <<CivilFromDays(n)[1], CivilFromDays(n)[2]>>
           IN  /\ IsMonth(ym) /\ MonthStart(ym) <= n /\ n < MonthStart(After(ym))
               /\ n = MonthStart(ym) + CivilFromDays(n)[3] - 1
               /\ CivilFromDays(n)[3] \in 1..DaysInMonth(ym[1], ym[2])
<1> DEFINE y == CivilFromDays(n)[1]
           m == CivilFromDays(n)[2]
           d == CivilFromDays(n)[3]
           ym == <<y, m>>
<1>1. IsDate(CivilFromDays(n)) /\ DaysFromCivil(CivilFromDays(n)) = n
  BY DateOfDay
<1>2. CivilFromDays(n) = <<y, m, d>> /\ y \in Int /\ m \in 1..12 /\ d \in 1..DaysInMonth(y, m)
  BY <1>1 DEF IsDate
<1> HIDE DEF y, m, d
<1>3. IsMonth(ym) /\ ym[1] = y /\ ym[2] = m
  BY <1>2 DEF IsMonth
<1>4. /\ DaysInMonth(y, m) \in 28..31 /\ MonthStart(<<y, m>>) \in Int
      /\ DaysFromCivil(<<y, m, d>>) = MonthStart(<<y, m>>) + d - 1
  BY <1>2, DaysOfMonth
<1>5. 1 \in 1..31
  BY SMT
<1>6. MonthStart(After(ym)) = MonthStart(ym) + DaysInMonth(y, m)
  <2> HIDE DEF ym
  <2> QED
    BY <1>3, <1>5, MonthsTile
<1>7. n = MonthStart(ym) + d - 1
  BY <1>1, <1>2, <1>4
<1>8. MonthStart(ym) <= n /\ n < MonthStart(After(ym))
  <2> HIDE DEF ym
  <2>1. MonthStart(ym) \in Int
    BY <1>4 DEF ym
  <2> QED
    BY <1>2, <1>4, <1>6, <1>7, <2>1, SMT
<1> QED
  BY <1>2, <1>3, <1>7, <1>8 DEF y, m, d

(* Of two months one is the earlier, and ends before the other begins.     *)
LEMMA MonthOfDayIs ==
    ASSUME NEW ym, IsMonth(ym), NEW n \in Int, MonthStart(ym) <= n, n < MonthStart(After(ym))
    PROVE  ym = <<CivilFromDays(n)[1], CivilFromDays(n)[2]>>
<1> DEFINE y == ym[1]
           m == ym[2]
           d == n - MonthStart(ym) + 1
<1>1. ym = <<y, m>> /\ y \in Int /\ m \in 1..12
  BY DEF IsMonth
<1>2. 1 \in 1..31
  BY SMT
<1>3. MonthStart(ym) \in Int /\ MonthStart(After(ym)) = MonthStart(ym) + DaysInMonth(y, m)
  BY <1>2, MonthsTile
<1> HIDE DEF y, m
<1>4. DaysInMonth(y, m) \in 28..31
  BY <1>1, DaysOfMonth
<1>5. d \in 1..DaysInMonth(y, m) /\ n = MonthStart(ym) + d - 1
  BY <1>3, <1>4, SMT
<1> HIDE DEF d
<1>6. IsDate(<<y, m, d>>) /\ DaysFromCivil(<<y, m, d>>) = n
  BY <1>1, <1>5, DaysOfMonth
<1>7. CivilFromDays(n) = <<y, m, d>>
  BY <1>6, DateIsFound
<1> QED
  BY <1>1, <1>7

(* The cycle a month's anchor begins ends where the next month's begins,   *)
(* and is the cycle of every day in between.                               *)
LEMMA CycleOf ==
    ASSUME NEW a \in 1..31, NEW ym, IsMonth(ym), NEW n \in Int,
           Anchor(ym, a) <= n, n < Anchor(After(ym), a)
    PROVE  CycleBounds(n, a) = <<Anchor(ym, a), Anchor(After(ym), a)>>
<1> DEFINE d == CivilFromDays(n)
           am == After(ym)
<1>0. CycleBounds(n, a) =
         IF n >= Anchor(<<d[1], d[2]>>, a)
           THEN <<Anchor(<<d[1], d[2]>>, a), Anchor(MonthAfter(d[1], d[2]), a)>>
           ELSE <<Anchor(MonthBefore(d[1], d[2]), a), Anchor(<<d[1], d[2]>>, a)>>
  BY DEF CycleBounds
<1>1. IsMonth(am) /\ Prior(am) = ym
  BY MonthsTile
<1> HIDE DEF am
<1>2. /\ MonthStart(ym) \in Int /\ MonthStart(am) \in Int /\ Anchor(ym, a) \in Int
      /\ MonthStart(ym) <= Anchor(ym, a) /\ Anchor(ym, a) < MonthStart(am)
  BY MonthsTile DEF am
<1>3. /\ MonthStart(After(am)) \in Int /\ Anchor(am, a) \in Int
      /\ MonthStart(am) <= Anchor(am, a) /\ Anchor(am, a) < MonthStart(After(am))
  BY <1>1, MonthsTile
<1>4. Anchor(ym, a) <= n /\ n < Anchor(am, a)
  BY DEF am
<1>5. CASE n < MonthStart(am)
  <2>1. MonthStart(ym) <= n
    BY <1>2, <1>4, SMT
  <2>2. ym = <<d[1], d[2]>>
    BY <1>5, <2>1, MonthOfDayIs DEF am
  <2>3. MonthAfter(d[1], d[2]) = am
    BY <2>2 DEF After, am
  <2>4. n >= Anchor(ym, a)
    BY <1>2, <1>4, SMT
  <2> HIDE DEF d
  <2> QED
    BY <1>0, <2>2, <2>3, <2>4 DEF am
<1>6. CASE ~(n < MonthStart(am))
  <2>1. MonthStart(am) <= n /\ n < MonthStart(After(am))
    BY <1>2, <1>3, <1>4, <1>6, SMT
  <2>2. am = <<d[1], d[2]>>
    BY <1>1, <2>1, MonthOfDayIs
  <2>3. MonthBefore(d[1], d[2]) = ym
    BY <1>1, <2>2 DEF Prior
  <2>4. ~(n >= Anchor(am, a))
    BY <1>3, <1>4, SMT
  <2> HIDE DEF d
  <2> QED
    BY <1>0, <2>2, <2>3, <2>4 DEF am
<1> QED
  BY <1>5, <1>6

(* The cycles of an anchor tile the days.                                  *)
LEMMA CyclesAreTiles ==
    ASSUME NEW n \in Int, NEW a \in 1..31
    PROVE  LET b     == CycleBounds(n, a)
               first == CivilFromDays(b[1])
           IN  /\ b[1] <= n /\ n < b[2]
               /\ CycleBounds(b[1] - 1, a)[2] = b[1]
               /\ CycleBounds(b[2], a)[1] = b[2]
               /\ \/ first[3] = a
                  \/ first[3] < a /\ first[3] = DaysInMonth(first[1], first[2])
<1>1. \E ym : IsMonth(ym) /\ Anchor(ym, a) <= n /\ n < Anchor(After(ym), a)
  <2> DEFINE ym == <<CivilFromDays(n)[1], CivilFromDays(n)[2]>>
  <2>1. IsMonth(ym) /\ MonthStart(ym) <= n /\ n < MonthStart(After(ym))
    BY MonthOfDate
  <2> HIDE DEF ym
  <2>2. /\ IsMonth(After(ym)) /\ IsMonth(Prior(ym)) /\ After(Prior(ym)) = ym
        /\ MonthStart(ym) \in Int /\ MonthStart(After(ym)) \in Int /\ Anchor(ym, a) \in Int
    BY <2>1, MonthsTile
  <2>3. MonthStart(After(ym)) <= Anchor(After(ym), a) /\ Anchor(After(ym), a) \in Int
    BY <2>2, MonthsTile
  <2>4. Anchor(Prior(ym), a) < MonthStart(ym) /\ Anchor(Prior(ym), a) \in Int
    BY <2>2, MonthsTile
  <2>5. CASE Anchor(ym, a) <= n
    <3>1. n < Anchor(After(ym), a)
      BY <2>1, <2>2, <2>3, SMT
    <3> QED
      BY <2>1, <2>5, <3>1
  <2>6. CASE ~(Anchor(ym, a) <= n)
    <3>1. Anchor(Prior(ym), a) <= n /\ n < Anchor(ym, a)
      BY <2>1, <2>2, <2>4, <2>6, SMT
    <3> QED
      BY <2>2, <3>1
  <2> QED
    BY <2>5, <2>6
<1>2. PICK ym : IsMonth(ym) /\ Anchor(ym, a) <= n /\ n < Anchor(After(ym), a)
  BY <1>1
<1> DEFINE am == After(ym)
           pm == Prior(ym)
           l  == DaysInMonth(ym[1], ym[2])
           s  == Anchor(ym, a)
           e  == Anchor(am, a)
<1>3. CycleBounds(n, a) = <<s, e>>
  BY <1>2, CycleOf
<1>4. /\ IsMonth(am) /\ IsMonth(pm) /\ After(pm) = ym
      /\ s \in Int /\ s < MonthStart(am) /\ MonthStart(ym) <= s
      /\ MonthStart(am) \in Int /\ MonthStart(ym) \in Int
      /\ CivilFromDays(s) = <<ym[1], ym[2], Lower(a, l)>>
  BY <1>2, MonthsTile
<1>5. e \in Int /\ MonthStart(am) <= e /\ e < MonthStart(After(am)) /\ MonthStart(After(am)) \in Int
  <2> HIDE DEF am
  <2> QED
    BY <1>4, MonthsTile DEF e
<1>6. /\ IsMonth(After(am))
      /\ MonthStart(After(am)) <= Anchor(After(am), a) /\ Anchor(After(am), a) \in Int
  <2>1. IsMonth(After(am))
    <3> HIDE DEF am
    <3> QED
      BY <1>4, MonthsTile
  <2> HIDE DEF am
  <2> QED
    BY <2>1, MonthsTile
<1>7. Anchor(pm, a) < MonthStart(ym) /\ Anchor(pm, a) \in Int
  <2> HIDE DEF pm
  <2> QED
    BY <1>4, MonthsTile
<1>8. CycleBounds(s - 1, a) = <<Anchor(pm, a), s>>
  <2> DEFINE k == s - 1
  <2> HIDE DEF pm, s
  <2>1. k \in Int /\ Anchor(pm, a) <= k /\ k < s
    BY <1>4, <1>7, SMT
  <2> HIDE DEF k
  <2>2. After(pm) = ym
    BY <1>4
  <2>3. Anchor(pm, a) <= k /\ k < Anchor(After(pm), a)
    BY <2>1, <2>2 DEF s
  <2>4. CycleBounds(k, a) = <<Anchor(pm, a), Anchor(After(pm), a)>>
    BY <1>4, <2>1, <2>3, CycleOf
  <2> QED
    BY <2>2, <2>4 DEF k, s
<1>9. CycleBounds(e, a) = <<e, Anchor(After(am), a)>>
  <2> HIDE DEF am
  <2>1. e <= e /\ e < Anchor(After(am), a)
    BY <1>5, <1>6, SMT
  <2> QED
    BY <1>4, <1>5, <2>1, CycleOf
<1>10. l \in 28..31
  BY <1>2, DaysOfMonth DEF IsMonth
<1> HIDE DEF l, s, e
<1>11. \/ Lower(a, l) = a
       \/ Lower(a, l) < a /\ Lower(a, l) = l
  BY <1>10, SMT DEF Lower
<1>12. s <= n /\ n < e
  BY <1>2 DEF s, e
<1> QED
  BY <1>3, <1>4, <1>8, <1>9, <1>11, <1>12 DEF l

-----------------------------------------------------------------------------
(* The schedule repeats every week.                                        *)
LEMMA PeakIsWeekly ==
    ASSUME NEW s, \A w \in s : w.offset \in Int, NEW t \in Int
    PROVE  IsPeakAt(t + 7 * Day, s) = IsPeakAt(t, s)
<1>1. ASSUME NEW w \in s PROVE Matches(w, t + 7 * Day) <=> Matches(w, t)
  <2> DEFINE o == w.offset
             here == t + o
             later == (t + 7 * Day) + o
  <2>1. o \in Int
    OBVIOUS
  <2> HIDE DEF o
  <2>2. later % Day = here % Day /\ DayOf(later) = DayOf(here) + 7 /\ DayOf(here) \in Int
    BY <2>1, SMT DEF Day, DayOf
  <2> HIDE DEF here, later
  <2>3. Weekday(DayOf(later)) = Weekday(DayOf(here))
    BY <2>2, SMT DEF Weekday
  <2>4. /\ Matches(w, t) <=> /\ Weekday(DayOf(here)) \in w.days
                             /\ \E range \in w.ranges : InRange(here % Day, range)
        /\ Matches(w, t + 7 * Day) <=> /\ Weekday(DayOf(later)) \in w.days
                                       /\ \E range \in w.ranges : InRange(later % Day, range)
    BY Zenon DEF Matches, here, later, o
  <2> QED
    BY <2>2, <2>3, <2>4, Zenon
<1> QED
  BY <1>1, Zenon DEF IsPeakAt

(* The next change is the first one, if the schedule ever changes.         *)
LEMMA ChangeIsFound ==
    ASSUME NEW s, \A w \in s : w.offset \in Int, NEW t \in Int
    PROVE  \/ IsPeakAt(NextChange(t, s), s) # IsPeakAt(t, s)
           \/ \A v \in t..(t + 15 * Day) : IsPeakAt(v, s) = IsPeakAt(t, s)
<1> DEFINE p(u) == IsPeakAt(u, s)
           changed(u) == p(u) # p(t)
           ahead == (t + 1)..(t + Horizon)
<1>0. Day \in Nat /\ Horizon = 8 * Day /\ Day > 0
  BY SMT DEF Day, Horizon
<1>1. CASE \E u \in ahead : changed(u)
  <2> DEFINE first(u) == changed(u) /\ \A v \in (t + 1)..(u - 1) : ~changed(v)
  <2>1. \E u \in ahead : first(u)
    <3> DEFINE T == {k \in Nat : t + k \in ahead /\ changed(t + k)}
    <3>1. T \in SUBSET Nat /\ T # {}
      <4>1. PICK u \in ahead : changed(u)
        BY <1>1
      <4> HIDE DEF p
      <4> DEFINE k == u - t
      <4>2. k \in Nat /\ t + k = u
        BY <1>0, SMT
      <4> HIDE DEF k, ahead
      <4>3. t + k \in ahead /\ changed(t + k)
        BY <4>1, <4>2, Zenon
      <4>4. k \in T
        BY <4>2, <4>3, Zenon
      <4> QED
        BY <4>4
    <3>2. PICK k \in T : \A j \in T : k <= j
      <4> HIDE DEF T
      <4> QED
        BY <3>1, LeastMember
    <3>3. k \in Nat /\ t + k \in ahead /\ changed(t + k)
      BY <3>2
    <3> HIDE DEF p
    <3>4. ASSUME NEW v \in (t + 1)..((t + k) - 1) PROVE ~changed(v)
      <4>1. v - t \in Nat /\ t + (v - t) = v /\ v - t < k /\ v \in ahead
        BY <1>0, <3>3, SMT
      <4> QED
        BY <3>2, <3>3, <4>1
    <3> WITNESS t + k \in ahead
    <3> QED
      BY <3>3, <3>4
  <2>2. NextChange(t, s) = CHOOSE u \in ahead : first(u)
    BY <1>1, Zenon DEF NextChange
  <2>3. first(NextChange(t, s))
    <3> HIDE DEF first, ahead
    <3> QED
      BY <2>1, <2>2, Zenon
  <2> QED
    BY <2>3
<1>2. CASE ~\E u \in ahead : changed(u)
  <2> HIDE DEF p
  <2>1. ASSUME NEW v \in Int, t <= v, v <= t + 8 * Day PROVE p(v) = p(t)
    <3>1. v = t \/ v \in ahead
      BY <1>0, <2>1, SMT
    <3> QED
      BY <1>2, <3>1
  <2>2. ASSUME NEW v \in Int, t + 8 * Day < v, v <= t + 15 * Day PROVE p(v) = p(t)
    <3> DEFINE w == v - 7 * Day
    <3>1. w \in Int /\ t <= w /\ w <= t + 8 * Day /\ w + 7 * Day = v
      BY <1>0, <2>2, SMT
    <3> HIDE DEF w
    <3>2. p(w) = p(t)
      BY <2>1, <3>1
    <3>3. p(w + 7 * Day) = p(w)
      BY <3>1, PeakIsWeekly DEF p
    <3> QED
      BY <3>1, <3>2, <3>3
  <2>3. ASSUME NEW v \in t..(t + 15 * Day) PROVE p(v) = p(t)
    <3>1. v \in Int /\ t <= v /\ v <= t + 15 * Day
      BY <1>0, SMT
    <3>2. v <= t + 8 * Day \/ t + 8 * Day < v
      BY <1>0, <3>1, SMT
    <3> QED
      BY <2>1, <2>2, <3>1, <3>2
  <2> QED
    BY <2>3 DEF p
<1> QED
  BY <1>1, <1>2

-----------------------------------------------------------------------------
(* The periods of the console                                              *)

(* A day of a month up to a day of it, by number and by date.              *)
LEMMA UpToADay ==
    ASSUME NEW ym, IsMonth(ym), NEW d \in Int, 1 <= d,
           NEW k, IsDate(k), NEW last \in Int,
           last = MonthStart(ym) + Lower(d - 1, DaysInMonth(ym[1], ym[2]) - 1)
    PROVE  DaysFromCivil(k) \in MonthStart(ym)..last
              <=> k[1] = ym[1] /\ k[2] = ym[2] /\ k[3] <= d
<1> DEFINE y == ym[1]
           m == ym[2]
           l == DaysInMonth(y, m)
           s == MonthStart(ym)
           n == DaysFromCivil(k)
<1>1. ym = <<y, m>> /\ y \in Int /\ m \in 1..12
  BY DEF IsMonth
<1> HIDE DEF y, m
<1>2. /\ l \in 28..31 /\ s \in Int
      /\ \A j \in 1..l : IsDate(<<y, m, j>>) /\ DaysFromCivil(<<y, m, j>>) = s + j - 1
  BY <1>1, DaysOfMonth
<1>3. n \in Int /\ k = <<k[1], k[2], k[3]>>
  BY DateIsFound DEF IsDate
<1>4. last = s + Lower(d - 1, l - 1)
  BY DEF y, m
<1> HIDE DEF l, s
<1>5. ASSUME n \in s..last PROVE k[1] = y /\ k[2] = m /\ k[3] <= d
  <2> DEFINE j == n - s + 1
  <2>1. j \in 1..l /\ j <= d /\ n = s + j - 1
    BY <1>2, <1>3, <1>4, <1>5, SMT DEF Lower
  <2> HIDE DEF j, n
  <2>2. IsDate(<<y, m, j>>) /\ DaysFromCivil(<<y, m, j>>) = n
    BY <1>2, <2>1
  <2>3. k = <<y, m, j>>
    BY <2>2, DateIsFound DEF n
  <2> QED
    BY <2>1, <2>3
<1>6. ASSUME k[1] = y, k[2] = m, k[3] <= d PROVE n \in s..last
  <2>1. k[3] \in 1..l /\ k = <<y, m, k[3]>>
    BY <1>3, <1>6 DEF IsDate, l
  <2>2. n = s + k[3] - 1
    BY <1>2, <2>1
  <2> HIDE DEF n
  <2> QED
    BY <1>2, <1>3, <1>4, <1>6, <2>1, <2>2, SMT DEF Lower
<1> QED
  BY <1>5, <1>6 DEF y, m, s

(* A week up to a day of it.                                               *)
LEMMA UpToAWeekday ==
    ASSUME NEW n \in Int, NEW q \in Int
    PROVE  /\ q \in (n - Weekday(n))..n
                 <=> (q + 3) \div 7 = (n + 3) \div 7 /\ Weekday(q) <= Weekday(n)
           /\ q \in ((n - Weekday(n)) - 7)..(n - 7)
                 <=> (q + 3) \div 7 = ((n + 3) \div 7) - 1 /\ Weekday(q) <= Weekday(n)
BY SMT DEF Weekday

(* The periods, day by day.                                                *)
LEMMA PeriodsAreDays ==
    ASSUME NEW n \in Int, \A k \in DOMAIN days : IsDate(k)
    PROVE  LET date    == CivilFromDays(n)
               prev    == MonthBefore(date[1], date[2])
               in(ym)  == {k \in DOMAIN days : k[1] = ym[1] /\ k[2] = ym[2] /\ k[3] <= date[3]}
               from(a, b) == {k \in DOMAIN days : DaysFromCivil(k) \in a..b}
           IN  /\ from(MonthStart(date), n) = in(date)
               /\ from(MonthStart(prev), MonthPrevEnd(n)) = in(prev)
<1> DEFINE date == CivilFromDays(n)
           y == date[1]
           m == date[2]
           d == date[3]
           ym == <<y, m>>
           prev == MonthBefore(y, m)
           l == DaysInMonth(prev[1], prev[2])
           in(x) == {k \in DOMAIN days : k[1] = x[1] /\ k[2] = x[2] /\ k[3] <= d}
           from(a, b) == {k \in DOMAIN days : DaysFromCivil(k) \in a..b}
<1>1. IsMonth(ym) /\ n = MonthStart(ym) + d - 1 /\ d \in 1..DaysInMonth(y, m)
  BY MonthOfDate
<1>2. y \in Int /\ m \in 1..12 /\ 1 \in 1..31
  BY <1>1, SMT DEF IsMonth
<1>3. /\ MonthStart(date) = MonthStart(ym)
      /\ MonthPrevEnd(n) = MonthStart(prev) + Lower(n - MonthStart(date), l - 1)
  BY DEF MonthStart, MonthPrevEnd
<1> HIDE DEF date
<1>4. IsMonth(prev) /\ MonthStart(prev) \in Int /\ MonthStart(ym) \in Int
  <2>1. IsMonth(prev)
    BY <1>1, <1>2, MonthsTile DEF Prior
  <2> HIDE DEF ym, prev
  <2> QED
    BY <1>1, <1>2, <2>1, MonthsTile
<1>5. l \in 28..31
  <2> HIDE DEF prev
  <2> QED
    BY <1>4, DaysOfMonth DEF IsMonth
<1>6. DaysInMonth(y, m) \in 28..31
  BY <1>2, DaysOfMonth
<1>7. d \in Int /\ 1 <= d /\ d <= DaysInMonth(y, m)
  BY <1>1, <1>6, SMT
<1>8. ym[1] = y /\ ym[2] = m
  OBVIOUS
<1> HIDE DEF ym, l, prev, y, m, d
<1>9. ASSUME NEW k \in DOMAIN days
      PROVE  DaysFromCivil(k) \in MonthStart(ym)..n <=> k[1] = y /\ k[2] = m /\ k[3] <= d
  <2>1. n = MonthStart(ym) + Lower(d - 1, DaysInMonth(ym[1], ym[2]) - 1)
    BY <1>1, <1>4, <1>6, <1>7, <1>8, SMT DEF Lower
  <2> QED
    BY <1>1, <1>7, <1>8, <2>1, UpToADay
<1>10. ASSUME NEW k \in DOMAIN days
       PROVE  DaysFromCivil(k) \in MonthStart(prev)..MonthPrevEnd(n)
                 <=> k[1] = prev[1] /\ k[2] = prev[2] /\ k[3] <= d
  <2>1. n - MonthStart(date) = d - 1
    BY <1>1, <1>3, <1>4, <1>7, SMT
  <2>2. MonthPrevEnd(n) = MonthStart(prev) + Lower(d - 1, l - 1)
    BY <1>3, <2>1
  <2>3. MonthPrevEnd(n) \in Int
    BY <1>4, <1>5, <1>7, <2>2, SMT DEF Lower
  <2> QED
    BY <1>4, <1>7, <2>2, <2>3, UpToADay DEF l
<1>11. from(MonthStart(date), n) = in(date)
  BY <1>3, <1>9 DEF y, m, d
<1>12. from(MonthStart(prev), MonthPrevEnd(n)) = in(prev)
  BY <1>10
<1> QED
  BY <1>11, <1>12 DEF date, prev, y, m, d

(* The sums over them.                                                     *)
LEMMA PeriodsAreTrue ==
    ASSUME clock \in Int, policy.offset \in Int, \A k \in DOMAIN days : IsDate(k)
    PROVE  PeriodsMatch
<1> DEFINE n == LocalDay(clock, policy.offset)
           date == CivilFromDays(n)
           prev == MonthBefore(date[1], date[2])
           week(x) == (x + 3) \div 7
           sum(D) == FoldSet(LAMBDA k, total : Plus(total, days[k]), Nothing, D)
           in(ym) == {k \in DOMAIN days : k[1] = ym[1] /\ k[2] = ym[2] /\ k[3] <= date[3]}
           of(w) == {k \in DOMAIN days : /\ week(DaysFromCivil(k)) = w
                                         /\ Weekday(DaysFromCivil(k)) <= Weekday(n)}
           from(a, b) == {k \in DOMAIN days : DaysFromCivil(k) \in a..b}
<1>1. n \in Int
  <2>1. clock + policy.offset \in Int
    OBVIOUS
  <2> QED
    BY <2>1, SMT DEF LocalDay, DayOf, Day
<1> HIDE DEF n
<1>2. /\ from(MonthStart(date), n) = in(date)
      /\ from(MonthStart(prev), MonthPrevEnd(n)) = in(prev)
  BY <1>1, PeriodsAreDays
<1>3. /\ from(n - Weekday(n), n) = of(week(n))
      /\ from((n - Weekday(n)) - 7, n - 7) = of(week(n) - 1)
  <2>1. \A k \in DOMAIN days : DaysFromCivil(k) \in Int
    BY DateIsFound
  <2>2. \A q \in Int :
           /\ q \in (n - Weekday(n))..n <=> week(q) = week(n) /\ Weekday(q) <= Weekday(n)
           /\ q \in ((n - Weekday(n)) - 7)..(n - 7)
                 <=> week(q) = week(n) - 1 /\ Weekday(q) <= Weekday(n)
    BY <1>1, UpToAWeekday
  <2> HIDE DEF week
  <2> QED
    BY <2>1, <2>2
<1>4. \A a, b : Fold(a, b) = sum(from(a, b))
  BY Zenon DEF Fold
<1>5. /\ Totals(n).month = Fold(MonthStart(date), n)
      /\ Totals(n).monthPrev = Fold(MonthStart(prev), MonthPrevEnd(n))
      /\ Totals(n).week = Fold(n - Weekday(n), n)
      /\ Totals(n).weekPrev = Fold((n - Weekday(n)) - 7, n - 7)
  BY DEF Totals
<1>6. PeriodsMatch <=>
         /\ Totals(n).month = sum(in(date)) /\ Totals(n).monthPrev = sum(in(prev))
         /\ Totals(n).week = sum(of(week(n))) /\ Totals(n).weekPrev = sum(of(week(n) - 1))
  BY Zenon DEF PeriodsMatch, n
<1> HIDE DEF sum, in, of, from, week, date, prev
<1> QED
  BY <1>2, <1>3, <1>4, <1>5, <1>6, Zenon

-----------------------------------------------------------------------------
(* The walk through the calendar                                           *)

CalendarInv ==
    /\ clock \in Int /\ walk \in Walks
    /\ IsDate(today) /\ DaysFromCivil(today) = DayOf(clock)
    /\ policy.offset \in Int
    /\ \/ stream = NoStream
       \/ \E at \in Int : \E body, rest, scan :
             stream = [at |-> at, body |-> body, rest |-> rest, scan |-> scan]
    /\ \A x \in counted : x.at \in Int
    /\ \A k \in DOMAIN days : IsDate(k)

(* What a request is filed under is a date.                                *)
LEMMA KeysAreDates ==
    ASSUME NEW t \in Int, NEW offset \in Int PROVE IsDate(DayKey(t, offset))
<1>1. t + offset \in Int
  OBVIOUS
<1>2. LocalDay(t, offset) \in Int
  BY <1>1, SMT DEF LocalDay, DayOf, Day
<1> QED
  BY <1>2, DateOfDay DEF DayKey

(* The invariant is inductive.                                             *)
LEMMA CalendarAlways == (Init => CalendarInv) /\ (CalendarInv /\ [Next]_vars => CalendarInv')
<1>1. ASSUME Init PROVE CalendarInv
  <2>1. walk \in Walks /\ clock \in Int
    BY <1>1, HistoryAssumption DEF Init
  <2>2. IsDate(today) /\ DaysFromCivil(today) = DayOf(clock)
    BY <1>1, <2>1, AlmanacAssumption, CountedByTheAlmanac DEF Init
  <2>3. policy.offset \in Int
    BY <1>1, HistoryAssumption DEF Init
  <2> QED
    BY <1>1, <2>1, <2>2, <2>3 DEF Init, CalendarInv
<1>2. ASSUME CalendarInv, [Next]_vars PROVE CalendarInv'
  <2> USE <1>2 DEF CalendarInv
  <2>1. CASE Begin
    BY <2>1 DEF Begin
  <2>2. CASE Piece
    <3>1. PICK at \in Int : \E body, rest, scan :
             stream = [at |-> at, body |-> body, rest |-> rest, scan |-> scan]
      BY <2>2 DEF Piece
    <3>2. PICK body, rest, scan :
             stream = [at |-> at, body |-> body, rest |-> rest, scan |-> scan]
      BY <3>1
    <3> QED
      BY <2>2, <3>2 DEF Piece
  <2>3. CASE Record
    <3>1. stream.at \in Int
      BY <2>3 DEF Record
    <3>2. IsDate(DayKey(stream.at, policy.offset))
      BY <3>1, KeysAreDates
    <3>3. \A k \in DOMAIN days' : k \in DOMAIN days \/ k = DayKey(stream.at, policy.offset)
      BY <2>3 DEF Record, Filed
    <3>4. \A x \in counted' : x \in counted \/ x.at = stream.at
      <4> DEFINE sample(key, reported, fits, usage) ==
                    [id |-> Cardinality(counted), at |-> stream.at, key |-> key,
                     offset |-> policy.offset, reported |-> reported, fits |-> fits,
                     prompt |-> usage.prompt, completion |-> usage.completion]
      <4>1. \E key, reported, fits, usage :
               counted' = counted \cup {sample(key, reported, fits, usage)}
        BY <2>3, Zenon DEF Record
      <4>2. \A key, reported, fits, usage : sample(key, reported, fits, usage).at = stream.at
        OBVIOUS
      <4> HIDE DEF sample
      <4> QED
        BY <4>1, <4>2
    <3> QED
      BY <2>3, <3>1, <3>2, <3>3, <3>4 DEF Record
  <2>4. CASE Prune
    BY <2>4 DEF Prune, Pruned
  <2>5. CASE SetPolicy
    BY <2>5, HistoryAssumption DEF SetPolicy
  <2>6. CASE Restart
    <3>1. PICK p \in Policies :
             policy' = p /\ days' = Pruned(Backfilled(days, p.offset), p)
      BY <2>6 DEF Restart
    <3>2. p.offset \in Int
      BY HistoryAssumption
    <3>3. \A k \in DOMAIN days' : k \in DOMAIN days \/ \E x \in counted : k = DayKey(x.at, p.offset)
      BY <3>1 DEF Pruned, Backfilled, Samples
    <3>4. \A k \in DOMAIN days' : IsDate(k)
      BY <3>2, <3>3, KeysAreDates
    <3> QED
      BY <2>6, <3>1, <3>2, <3>4 DEF Restart
  <2>7. CASE Tick
    <3>1. walk.step \in Int /\ 1 <= walk.step /\ walk.step <= Day
      <4>1. walk \in Walks /\ \A w \in Walks : w.step \in 1..Day
        BY HistoryAssumption, Zenon
      <4>2. walk.step \in 1..Day
        BY <4>1, Zenon
      <4>3. Day \in Int
        BY SMT DEF Day
      <4> QED
        BY <4>2, <4>3
    <3>2. clock' = clock + walk.step
      BY <2>7 DEF Tick
    <3>3. DayOf(clock') = DayOf(clock) \/ DayOf(clock') = DayOf(clock) + 1
      BY <3>1, <3>2, SMT DEF DayOf, Day
    <3>4. clock' \in Int /\ DayOf(clock) \in Int
      BY <3>1, <3>2, SMT DEF DayOf, Day
    <3>5. IsDate(today') /\ DaysFromCivil(today') = DayOf(clock')
      <4>1. CASE DayOf(clock') = DayOf(clock)
        BY <2>7, <4>1 DEF Tick
      <4>2. CASE DayOf(clock') # DayOf(clock)
        BY <2>7, <3>3, <4>2, NextDay DEF Tick
      <4> QED
        BY <4>1, <4>2
    <3> QED
      BY <2>7, <3>4, <3>5 DEF Tick
  <2>8. CASE UNCHANGED vars
    BY <2>8 DEF vars
  <2> QED
    BY <2>1, <2>2, <2>3, <2>4, <2>5, <2>6, <2>7, <2>8 DEF Next
<1> QED
  BY <1>1, <1>2

(* The dates of the code are those of the almanac, both ways, on every     *)
(* day a walk reaches, however long it goes on.                            *)
THEOREM TheCalendarIsTrue == Spec => []CalendarIsTrue
<1>1. CalendarInv => CalendarIsTrue
  BY DateIsFound DEF CalendarInv, CalendarIsTrue
<1> QED
  BY <1>1, CalendarAlways, PTL DEF Spec

(* The cycles of every anchor lie end to end.                              *)
THEOREM TheCyclesTile == Spec => []CyclesTile
<1>1. ASSUME CalendarInv PROVE CyclesTile
  <2>1. clock \in Int /\ walk \in Walks
    BY <1>1 DEF CalendarInv
  <2>2. DayOf(clock) \in Int
    BY <2>1, SMT DEF DayOf, Day
  <2>3. \A w \in Walks : w.anchors \subseteq 1..31
    BY HistoryAssumption, Zenon
  <2>4. walk.anchors \subseteq 1..31
    BY <2>1, <2>3
  <2> QED
    BY <2>2, <2>4, CyclesAreTiles DEF CyclesTile
<1> QED
  BY <1>1, CalendarAlways, PTL DEF Spec

(* Eight days ahead find the next change of any schedule that has one.     *)
THEOREM TheNextChangeIsFound == Spec => []NextChangeFound
<1>1. ASSUME CalendarInv PROVE NextChangeFound
  <2>1. clock \in Int /\ \A s \in walk.specs : \A w \in s : w.offset \in Int
    BY <1>1, HistoryAssumption DEF CalendarInv
  <2> QED
    BY <2>1, ChangeIsFound DEF NextChangeFound
<1> QED
  BY <1>1, CalendarAlways, PTL DEF Spec

(* The console compares a week and a month with as much of the last.       *)
THEOREM ThePeriodsMatch == Spec => []PeriodsMatch
<1>1. CalendarInv => PeriodsMatch
  BY PeriodsAreTrue DEF CalendarInv
<1> QED
  BY <1>1, CalendarAlways, PTL DEF Spec

-----------------------------------------------------------------------------
(* The scanner                                                             *)

Usages       == [prompt : Nat, completion : Nat]
ScanState(S) == [buf : Seq(S), usage : Usages]

(* Of the first k symbols of t: a line that has ended, from a to b, and    *)
(* where the last line begins.                                             *)
Ended(t, k, a, b) ==
    /\ a \in 1..k /\ b \in a..(k - 1)
    /\ \A i \in a..b : t[i] # "nl"
    /\ a = 1 \/ t[a - 1] = "nl"
    /\ t[b + 1] = "nl"
Begins(t, k, a) ==
    /\ a \in 1..(k + 1)
    /\ \A i \in a..k : t[i] # "nl"
    /\ a = 1 \/ t[a - 1] = "nl"

Found(t, a, b) == LineUsage(SubSeq(t, a, b))

(* A line no longer than the buffer, or no end of which is a report.       *)
Fit(t, a, b)    == b - a + 1 > Limit => \A i \in a..b : Found(t, i, b) = NoUsage
EndedFit(t, k)  == \A a, b \in 1..k : Ended(t, k, a, b) => Fit(t, a, b)

(* The most any ended line reports.                                        *)
Tops(n, f, t, k) ==
    /\ n = 0 \/ \E a, b \in 1..k : Ended(t, k, a, b) /\ Found(t, a, b)[f] = n
    /\ \A a, b \in 1..k : Ended(t, k, a, b) => Found(t, a, b)[f] <= n

(* The buffer is the end of the last line, all of it unless it is too      *)
(* long.                                                                   *)
Buffered(t, k, buf) ==
    \E a, i \in 1..(k + 1) :
        /\ Begins(t, k, a) /\ a <= i
        /\ buf = SubSeq(t, i, k)
        /\ i = a \/ k - a + 1 > Limit

(* What the scanner has made of the first k symbols: the usage is that of  *)
(* the ended lines.                                                        *)
Scanned(t, k, scan) ==
    /\ Buffered(t, k, scan.buf)
    /\ EndedFit(t, k) => /\ Tops(scan.usage.prompt, "prompt", t, k)
                         /\ Tops(scan.usage.completion, "completion", t, k)

(* A line reports counts; no line, nothing.                                *)
LEMMA UsageType ==
    /\ NoUsage \in Usages /\ LineUsage(<<>>) = NoUsage
    /\ \A line : LineUsage(line) \in Usages
<1>1. NoUsage \in Usages
  BY DEF NoUsage, Usages
<1>2. \A x \in DOMAIN Reports : Reports[x] \in Usages
  BY ScannerAssumption DEF Usages
<1>3. Len(<<>>) # 2
  OBVIOUS
<1> QED
  BY <1>1, <1>2, <1>3 DEF LineUsage

(* Every symbol takes the scanner to another state.                        *)
LEMMA SymbolType ==
    ASSUME NEW S, NEW scan \in ScanState(S), NEW x \in S
    PROVE  Symbol(scan, x) \in ScanState(S)
<1>1. /\ scan = [buf |-> scan.buf, usage |-> scan.usage]
      /\ scan.buf \in Seq(S) /\ scan.usage \in Usages
  BY DEF ScanState
<1>2. ASSUME NEW u \in Usages, NEW v \in Usages PROVE Merged(u, v) \in Usages
  BY DEF Merged, Higher, Usages
<1>3. LineUsage(scan.buf) \in Usages
  BY UsageType
<1>4. CASE x = "nl"
  <2>1. Symbol(scan, x) = [buf |-> <<>>, usage |-> Merged(scan.usage, LineUsage(scan.buf))]
    BY <1>4 DEF Symbol
  <2>2. <<>> \in Seq(S)
    OBVIOUS
  <2> QED
    BY <1>1, <1>2, <1>3, <2>1, <2>2 DEF ScanState
<1>5. CASE x # "nl"
  <2>1. Symbol(scan, x) = [buf |-> Append(scan.buf, x), usage |-> scan.usage]
    BY <1>1, <1>5 DEF Symbol
  <2>2. Append(scan.buf, x) \in Seq(S)
    BY <1>1
  <2> QED
    BY <1>1, <2>1, <2>2 DEF ScanState
<1> QED
  BY <1>4, <1>5

Scan(scan, w) == FoldLeft(Symbol, scan, w)

(* The scanner's states, symbol by symbol.                                 *)
LEMMA ScanSymbolBySymbol ==
    ASSUME NEW S, NEW base \in ScanState(S), NEW w \in Seq(S)
    PROVE  \E h \in [0..Len(w) -> ScanState(S)] :
              /\ h[0] = base
              /\ \A k \in 1..Len(w) : h[k] = Symbol(h[k-1], w[k])
              /\ Scan(base, w) = h[Len(w)]
<1> DEFINE n == Len(w)
           D == 1..n
           V == ScanState(S)
           F == [x \in D \X V |-> Symbol(x[2], w[x[1]])]
           c == [t \in SUBSET D |-> Max(t)]
           Solves(g) == g = [t \in SUBSET D |->
                                IF t = {} THEN base ELSE Symbol(g[t \ {Max(t)}], w[Max(t)])]
           g == CHOOSE g : Solves(g)
           h == [k \in 0..n |-> g[1..k]]
<1>1. n \in Nat /\ IsFiniteSet(D) /\ DOMAIN w = D /\ \A k \in D : w[k] \in S
  <2>1. n \in Nat /\ D = DOMAIN w /\ \A k \in D : w[k] \in S
    OBVIOUS
  <2>2. IsFiniteSet(1..n)
    BY <2>1, FS_Interval
  <2> QED
    BY <2>1, <2>2
<1>2. /\ base \in V
      /\ \A r \in V, k \in D : Symbol(r, w[k]) \in V
  BY <1>1, SymbolType
<1>3. \A t \in SUBSET D : t # {} => Max(t) \in t /\ c[t] = Max(t)
  BY <1>1, LastPlace
<1>4. PICK g0 : Folds(g0, F, c, base, D)
  <2> HIDE DEF F, c, D
  <2> QED
    BY <1>1, <1>3, FoldExists
<1>5. g0 \in [SUBSET D -> V]
  <2>1. F \in [D \X V -> V]
    BY <1>2
  <2>2. \A t \in SUBSET D : t # {} => c[t] \in t
    BY <1>3
  <2> HIDE DEF F, c, D, V
  <2> QED
    BY <1>1, <1>2, <1>4, <2>1, <2>2, FoldStays
<1>6. Solves(g0)
  <2>1. ASSUME NEW t \in SUBSET D, t # {}
        PROVE  F[<<c[t], g0[t \ {c[t]}]>>] = Symbol(g0[t \ {Max(t)}], w[Max(t)])
    <3>1. Max(t) \in D /\ g0[t \ {Max(t)}] \in V
      BY <1>3, <1>5, <2>1
    <3>2. <<Max(t), g0[t \ {Max(t)}]>> \in D \X V
      BY <3>1
    <3> QED
      BY <1>3, <2>1, <3>2
  <2>2. ASSUME NEW t \in SUBSET D
        PROVE  g0[t] = IF t = {} THEN base ELSE Symbol(g0[t \ {Max(t)}], w[Max(t)])
    <3> HIDE DEF F, c, D, V
    <3> QED
      BY <1>4, <2>1 DEF Folds
  <2>3. g0 = [t \in SUBSET D |-> g0[t]]
    BY <1>5
  <2> HIDE DEF D, V
  <2> QED
    BY <2>2, <2>3
<1>7. Solves(g)
  <2> HIDE DEF Solves
  <2> QED
    BY <1>6
<1>8. Scan(base, w) = g[D]
  BY <1>1 DEF Scan, FoldLeft, MapThenFoldSet
<1>9. \A t \in SUBSET D : g[t] = IF t = {} THEN base ELSE Symbol(g[t \ {Max(t)}], w[Max(t)])
  <2> HIDE DEF g, D
  <2> QED
    BY <1>7
<1> HIDE DEF g
<1>10. h[0] = base
  <2>1. 1..0 = {} /\ {} \in SUBSET D /\ 0 \in 0..n
    BY <1>1
  <2> QED
    BY <1>9, <2>1
<1>11. ASSUME NEW k \in D PROVE h[k] = Symbol(h[k-1], w[k])
  <2>1. k \in 0..n /\ k - 1 \in 0..n /\ 1..k \in SUBSET D /\ 1..k # {}
    <3>1. k \in Nat /\ k >= 1 /\ k <= n
      BY <1>1
    <3>2. 1 \in 1..k /\ \A j \in 1..k : j \in D
      BY <1>1, <3>1
    <3>3. k \in 0..n /\ k - 1 \in 0..n
      BY <1>1, <3>1
    <3> QED
      BY <3>2, <3>3
  <2>2. Max(1..k) = k /\ (1..k) \ {k} = 1..(k-1)
    BY <1>1, LastPlace
  <2>3. g[1..k] = Symbol(g[1..(k-1)], w[k])
    BY <1>9, <2>1, <2>2
  <2> QED
    BY <2>1, <2>3
<1>12. h \in [0..n -> V]
  <2> DEFINE Good == {k \in 0..n : h[k] \in V}
  <2>1. 0 \in Good
    <3>1. 0 \in 0..n
      BY <1>1
    <3> HIDE DEF h, V
    <3> QED
      BY <1>2, <1>10, <3>1
  <2>2. ASSUME NEW k \in 1..n, k - 1 \in Good PROVE k \in Good
    <3> HIDE DEF h, V
    <3> QED
      BY <1>1, <1>2, <1>11, <2>2
  <2>3. \A k \in 0..n : k \in Good
    <3> HIDE DEF Good
    <3> QED
      BY <1>1, <2>1, <2>2, InductionUpTo
  <2> QED
    BY <2>3
<1>13. Scan(base, w) = h[n]
  BY <1>1, <1>8
<1> HIDE DEF h
<1> WITNESS h \in [0..n -> V]
<1> QED
  BY <1>10, <1>11, <1>13

(* A line ends where it is told to: what had ended has, and a line break   *)
(* ends the last line.                                                     *)
LEMMA EndedNext ==
    ASSUME NEW S, NEW t \in Seq(S), NEW k \in Nat, k < Len(t), NEW a \in Int, NEW b \in Int
    PROVE  /\ Ended(t, k, a, b) => Ended(t, k + 1, a, b)
           /\ Ended(t, k + 1, a, b) =>
                 Ended(t, k, a, b) \/ (b = k /\ a <= k /\ Begins(t, k, a) /\ t[k + 1] = "nl")
           /\ a <= k /\ Begins(t, k, a) /\ t[k + 1] = "nl" => Ended(t, k + 1, a, k)
<1>1. Ended(t, k, a, b) => Ended(t, k + 1, a, b)
  BY DEF Ended
<1>2. ASSUME Ended(t, k + 1, a, b), ~Ended(t, k, a, b)
      PROVE  b = k /\ a <= k /\ Begins(t, k, a) /\ t[k + 1] = "nl"
  <2>1. /\ a \in 1..(k + 1) /\ b \in a..k
        /\ \A i \in a..b : t[i] # "nl"
        /\ a = 1 \/ t[a - 1] = "nl"
        /\ t[b + 1] = "nl"
    BY <1>2 DEF Ended
  <2>2. b = k
    BY <1>2, <2>1 DEF Ended
  <2> QED
    BY <2>1, <2>2 DEF Begins
<1>3. a <= k /\ Begins(t, k, a) /\ t[k + 1] = "nl" => Ended(t, k + 1, a, k)
  BY DEF Ended, Begins
<1> QED
  BY <1>1, <1>2, <1>3

(* A line begins at one place.                                             *)
LEMMA OneBeginning ==
    ASSUME NEW t, NEW k \in Nat, NEW a, Begins(t, k, a), NEW b, Begins(t, k, b)
    PROVE  a = b
<1>1. /\ a \in 1..(k + 1) /\ b \in 1..(k + 1)
      /\ \A i \in a..k : t[i] # "nl"
      /\ \A i \in b..k : t[i] # "nl"
      /\ a = 1 \/ t[a - 1] = "nl"
      /\ b = 1 \/ t[b - 1] = "nl"
  BY DEF Begins
<1>2. CASE a < b
  <2>1. b - 1 \in a..k
    BY <1>1, <1>2
  <2> QED
    BY <1>1, <1>2, <2>1
<1>3. CASE b < a
  <2>1. a - 1 \in b..k
    BY <1>1, <1>3
  <2> QED
    BY <1>1, <1>3, <2>1
<1> QED
  BY <1>1, <1>2, <1>3

(* What is in the buffer reports what the last line does, if the line fits.*)
LEMMA BufferIsLine ==
    ASSUME NEW S, NEW t \in Seq(S), NEW k \in Nat, k <= Len(t),
           NEW buf, Buffered(t, k, buf), NEW a, Begins(t, k, a)
    PROVE  /\ a = k + 1 => LineUsage(buf) = NoUsage
           /\ a <= k /\ Fit(t, a, k) => LineUsage(buf) = Found(t, a, k)
<1>1. PICK i \in 1..(k + 1) :
         /\ a <= i
         /\ buf = SubSeq(t, i, k)
         /\ i = a \/ k - a + 1 > Limit
  BY OneBeginning DEF Buffered
<1>2. a \in 1..(k + 1)
  BY DEF Begins
<1>3. i = k + 1 => LineUsage(buf) = NoUsage
  <2>1. ASSUME i = k + 1 PROVE buf = <<>>
    BY <1>1, <2>1, SubSeqEmpty
  <2> QED
    BY <2>1, UsageType
<1>4. a = k + 1 => i = k + 1
  BY <1>1, <1>2
<1>5. ASSUME a <= k, Fit(t, a, k) PROVE LineUsage(buf) = Found(t, a, k)
  <2>1. CASE i = a
    BY <1>1, <2>1 DEF Found
  <2>2. CASE i # a
    <3>1. \A j \in a..k : Found(t, j, k) = NoUsage
      BY <1>1, <1>5, <2>2 DEF Fit
    <3>2. Found(t, a, k) = NoUsage
      BY <1>2, <1>5, <3>1
    <3>3. i \in a..k => LineUsage(buf) = NoUsage
      BY <1>1, <3>1 DEF Found
    <3>4. i \in a..k \/ i = k + 1
      BY <1>1, <1>2, <1>5
    <3> QED
      BY <1>3, <3>2, <3>3, <3>4
  <2> QED
    BY <2>1, <2>2
<1> QED
  BY <1>3, <1>4, <1>5

(* The most the ended lines report, when the last line ends as well: a is  *)
(* where it begins, and more what it reports.                              *)
LEMMA TopsEnd ==
    ASSUME NEW S, NEW t \in Seq(S), NEW k \in Nat, k < Len(t), t[k + 1] = "nl",
           NEW a \in 1..(k + 1), Begins(t, k, a),
           NEW f \in {"prompt", "completion"},
           NEW n \in Nat, Tops(n, f, t, k), NEW more \in Nat,
           a = k + 1 => more = 0,
           a <= k => more = Found(t, a, k)[f]
    PROVE  Tops(Higher(n, more), f, t, k + 1)
<1>1. \A c \in Int, d \in Int :
         /\ Ended(t, k, c, d) => Ended(t, k + 1, c, d)
         /\ Ended(t, k + 1, c, d) => Ended(t, k, c, d) \/ (d = k /\ c <= k /\ c = a)
  <2>1. \A c \in Int, d \in Int :
           /\ Ended(t, k, c, d) => Ended(t, k + 1, c, d)
           /\ Ended(t, k + 1, c, d) => Ended(t, k, c, d) \/ (d = k /\ c <= k /\ Begins(t, k, c))
    BY EndedNext
  <2>2. \A c : Begins(t, k, c) => c = a
    BY OneBeginning
  <2> QED
    BY <2>1, <2>2
<1>2. a <= k => Ended(t, k + 1, a, k)
  <2>1. a \in Int /\ k \in Int
    OBVIOUS
  <2> QED
    BY <2>1, EndedNext
<1>3. Higher(n, more) \in Nat /\ n <= Higher(n, more) /\ more <= Higher(n, more)
  BY DEF Higher
<1>4. ASSUME NEW c \in 1..(k + 1), NEW d \in 1..(k + 1), Ended(t, k + 1, c, d)
      PROVE  Found(t, c, d)[f] <= Higher(n, more)
  <2>1. CASE Ended(t, k, c, d)
    <3>1. c \in 1..k /\ d \in 1..k
      BY <2>1 DEF Ended
    <3>2. Found(t, c, d)[f] <= n
      BY <2>1, <3>1 DEF Tops
    <3>3. Found(t, c, d)[f] \in Nat
      BY UsageType DEF Found, Usages
    <3> QED
      BY <1>3, <3>2, <3>3
  <2>2. CASE d = k /\ c <= k /\ c = a
    BY <1>3, <2>2
  <2>3. c \in Int /\ d \in Int
    OBVIOUS
  <2> QED
    BY <1>1, <1>4, <2>3, <2>1, <2>2
<1>5. \/ Higher(n, more) = 0
      \/ \E c, d \in 1..(k + 1) : Ended(t, k + 1, c, d) /\ Found(t, c, d)[f] = Higher(n, more)
  <2>1. Higher(n, more) = n \/ Higher(n, more) = more
    BY DEF Higher
  <2>2. CASE Higher(n, more) = n
    <3>1. CASE n = 0
      BY <2>2, <3>1
    <3>2. CASE n # 0
      <4>1. PICK c \in 1..k, d \in 1..k : Ended(t, k, c, d) /\ Found(t, c, d)[f] = n
        BY <3>2 DEF Tops
      <4>2. c \in 1..(k + 1) /\ d \in 1..(k + 1) /\ c \in Int /\ d \in Int
        BY <4>1
      <4> QED
        BY <1>1, <2>2, <4>1, <4>2
    <3> QED
      BY <3>1, <3>2
  <2>3. CASE Higher(n, more) = more
    <3>1. CASE a <= k
      <4>1. a \in 1..(k + 1) /\ k \in 1..(k + 1)
        BY <3>1
      <4> QED
        BY <1>2, <2>3, <3>1, <4>1
    <3>2. CASE a = k + 1
      BY <2>3, <3>2
    <3> QED
      BY <3>1, <3>2
  <2> QED
    BY <2>1, <2>2, <2>3
<1> QED
  BY <1>4, <1>5 DEF Tops

(* One symbol more.                                                        *)
LEMMA ScannedNext ==
    ASSUME NEW S, NEW t \in Seq(S), NEW k \in Nat, k < Len(t),
           NEW scan \in ScanState(S), Scanned(t, k, scan)
    PROVE  Scanned(t, k + 1, Symbol(scan, t[k + 1]))
<1> DEFINE x == t[k + 1]
           z == k + 1
           next == Symbol(scan, x)
<1>1. /\ scan = [buf |-> scan.buf, usage |-> scan.usage]
      /\ scan.usage \in Usages /\ scan.usage.prompt \in Nat /\ scan.usage.completion \in Nat
  BY DEF ScanState, Usages
<1>2. PICK a \in 1..(k + 1), i \in 1..(k + 1) :
         /\ Begins(t, k, a) /\ a <= i
         /\ scan.buf = SubSeq(t, i, k)
         /\ i = a \/ k - a + 1 > Limit
  BY DEF Scanned, Buffered
<1>3. \A c \in Int, d \in Int :
         /\ Ended(t, k, c, d) => Ended(t, k + 1, c, d)
         /\ Ended(t, k + 1, c, d) =>
               Ended(t, k, c, d) \/ (d = k /\ c <= k /\ Begins(t, k, c) /\ x = "nl")
  BY EndedNext
<1>4. EndedFit(t, z) => EndedFit(t, k)
  <2>1. \A c, d \in 1..k : c \in 1..z /\ d \in 1..z /\ c \in Int /\ d \in Int
    OBVIOUS
  <2> QED
    BY <1>3, <2>1 DEF EndedFit
<1>5. CASE x # "nl"
  <2>1. next = [buf |-> Append(scan.buf, x), usage |-> scan.usage]
    BY <1>1, <1>5 DEF Symbol
  <2>2. Append(SubSeq(t, i, k), x) = SubSeq(t, i, z)
    <3>1. i \in 1..Len(t) /\ z \in i..Len(t) /\ z - 1 = k
      BY <1>2
    <3>2. SubSeq(t, i, z) = SubSeq(t, i, k) \o <<t[z]>>
      BY <3>1, SubSeqRecursiveSecond
    <3>3. SubSeq(t, i, k) \in Seq(S)
      BY <1>2
    <3>4. x \in S
      BY <1>2
    <3> HIDE DEF z, x
    <3> QED
      BY <3>2, <3>3, <3>4, AppendIsConcat DEF z, x
  <2>3. Begins(t, z, a)
    BY <1>2, <1>5 DEF Begins
  <2>4. Buffered(t, z, next.buf)
    <3>1. a \in 1..(z + 1) /\ i \in 1..(z + 1)
      BY <1>2
    <3>2. i = a \/ z - a + 1 > Limit
      BY <1>2, ScannerAssumption
    <3> QED
      BY <1>2, <2>1, <2>2, <2>3, <3>1, <3>2 DEF Buffered
  <2>5. \A c, d : Ended(t, z, c, d) <=> Ended(t, k, c, d)
    <3>1. \A c, d : Ended(t, z, c, d) \/ Ended(t, k, c, d) => c \in Int /\ d \in Int
      BY DEF Ended
    <3> QED
      BY <1>3, <1>5, <3>1
  <2>6. \A c, d : Ended(t, k, c, d) => c \in 1..k /\ d \in 1..k /\ c \in 1..z /\ d \in 1..z
    BY DEF Ended
  <2>7. \A n, f : Tops(n, f, t, k) => Tops(n, f, t, z)
    BY <2>5, <2>6 DEF Tops
  <2> QED
    BY <1>4, <2>1, <2>4, <2>7 DEF Scanned
<1>6. CASE x = "nl"
  <2> DEFINE more == LineUsage(scan.buf)
  <2>1. next = [buf |-> <<>>, usage |-> Merged(scan.usage, more)]
    BY <1>6 DEF Symbol
  <2>2. Buffered(t, z, <<>>)
    <3>1. Begins(t, z, z + 1)
      BY <1>6 DEF Begins
    <3>2. SubSeq(t, z + 1, z) = <<>>
      BY SubSeqEmpty
    <3>3. z + 1 \in 1..(z + 1)
      OBVIOUS
    <3> QED
      BY <3>1, <3>2, <3>3 DEF Buffered
  <2>3. more \in Usages /\ more.prompt \in Nat /\ more.completion \in Nat
    BY UsageType DEF Usages
  <2>4. ASSUME EndedFit(t, z)
        PROVE  /\ Tops(Higher(scan.usage.prompt, more.prompt), "prompt", t, z)
               /\ Tops(Higher(scan.usage.completion, more.completion), "completion", t, z)
    <3>1. /\ Tops(scan.usage.prompt, "prompt", t, k)
          /\ Tops(scan.usage.completion, "completion", t, k)
      BY <1>4, <2>4 DEF Scanned
    <3>2. a <= k => Fit(t, a, k)
      <4>1. a <= k => Ended(t, k + 1, a, k)
        <5>1. a \in Int /\ k \in Int
          OBVIOUS
        <5> QED
          BY <1>2, <1>6, <5>1, EndedNext
      <4>2. a <= k => a \in 1..z /\ k \in 1..z
        OBVIOUS
      <4> QED
        BY <2>4, <4>1, <4>2 DEF EndedFit
    <3>3. /\ a = k + 1 => more = NoUsage
          /\ a <= k => more = Found(t, a, k)
      <4>1. Buffered(t, k, scan.buf)
        BY DEF Scanned
      <4> QED
        BY <1>2, <3>2, <4>1, BufferIsLine
    <3>4. /\ a = k + 1 => more.prompt = 0 /\ more.completion = 0
          /\ a <= k => /\ more.prompt = Found(t, a, k)["prompt"]
                       /\ more.completion = Found(t, a, k)["completion"]
      BY <3>3 DEF NoUsage
    <3> HIDE DEF more
    <3>5. Tops(Higher(scan.usage.prompt, more.prompt), "prompt", t, k + 1)
      BY <1>1, <1>2, <1>6, <2>3, <3>1, <3>4, TopsEnd
    <3>6. Tops(Higher(scan.usage.completion, more.completion), "completion", t, k + 1)
      BY <1>1, <1>2, <1>6, <2>3, <3>1, <3>4, TopsEnd
    <3> QED
      BY <3>5, <3>6
  <2>5. /\ next.usage.prompt = Higher(scan.usage.prompt, more.prompt)
        /\ next.usage.completion = Higher(scan.usage.completion, more.completion)
        /\ next.buf = <<>>
    BY <2>1 DEF Merged
  <2> HIDE DEF next, more
  <2> QED
    BY <2>2, <2>4, <2>5 DEF Scanned, next
<1> QED
  BY <1>5, <1>6

(* A piece more, however the stream is cut.                                *)
LEMMA ScannedPiece ==
    ASSUME NEW S, NEW t \in Seq(S), NEW k \in Nat, NEW n \in Nat, k + n <= Len(t),
           NEW scan \in ScanState(S), Scanned(t, k, scan)
    PROVE  LET next == Feed(scan, SubSeq(t, k + 1, k + n))
           IN  next \in ScanState(S) /\ Scanned(t, k + n, next)
<1> DEFINE w == SubSeq(t, k + 1, k + n)
           fed == Scan(scan, w)
<1>1. w \in Seq(S) /\ Len(w) = n /\ \A j \in 1..n : w[j] = t[k + j]
  <2>1. \A i \in (k + 1)..(k + n) : t[i] \in S
    OBVIOUS
  <2>2. /\ w \in Seq(S)
        /\ Len(w) = IF k + 1 <= k + n THEN (k + n) - (k + 1) + 1 ELSE 0
        /\ \A i \in 1..((k + n) - (k + 1) + 1) : w[i] = t[(k + 1) + i - 1]
    BY <2>1, SubSeqProperties
  <2>3. (k + n) - (k + 1) + 1 = n /\ \A i \in 1..n : (k + 1) + i - 1 = k + i
    OBVIOUS
  <2> HIDE DEF w
  <2> QED
    BY <2>2, <2>3
<1> HIDE DEF w
<1>2. PICK h \in [0..Len(w) -> ScanState(S)] :
         /\ h[0] = scan
         /\ \A j \in 1..Len(w) : h[j] = Symbol(h[j-1], w[j])
         /\ fed = h[Len(w)]
  <2>1. w \in Seq(S) /\ scan \in ScanState(S)
    BY <1>1
  <2>2. \E h \in [0..Len(w) -> ScanState(S)] :
           /\ h[0] = scan
           /\ \A j \in 1..Len(w) : h[j] = Symbol(h[j-1], w[j])
           /\ Scan(scan, w) = h[Len(w)]
    BY <2>1, ScanSymbolBySymbol
  <2> QED
    BY <2>2
<1> DEFINE Good == {j \in 0..n : Scanned(t, k + j, h[j])}
<1>3. 0 \in Good
  <2>1. k + 0 = k /\ 0 \in 0..n
    OBVIOUS
  <2>2. Scanned(t, k + 0, h[0])
    BY <1>2, <2>1, Zenon
  <2> QED
    BY <2>1, <2>2
<1>4. ASSUME NEW j \in 1..n, j - 1 \in Good PROVE j \in Good
  <2>1. /\ j - 1 \in 0..n /\ j \in 0..n /\ k + (j - 1) \in Nat /\ k + (j - 1) < Len(t)
        /\ (k + (j - 1)) + 1 = k + j
    OBVIOUS
  <2>2. h[j-1] \in ScanState(S)
    BY <1>1, <1>2, <2>1
  <2>3. Scanned(t, (k + (j - 1)) + 1, Symbol(h[j-1], t[(k + (j - 1)) + 1]))
    <3>1. Scanned(t, k + (j - 1), h[j-1])
      BY <1>4
    <3> QED
      BY <2>1, <2>2, <3>1, ScannedNext
  <2>4. Scanned(t, k + j, Symbol(h[j-1], t[k + j]))
    BY <2>1, <2>3
  <2>5. h[j] = Symbol(h[j-1], t[k + j])
    BY <1>1, <1>2
  <2> QED
    BY <2>1, <2>4, <2>5
<1>5. Scanned(t, k + n, fed) /\ fed \in ScanState(S)
  <2>1. \A j \in 0..n : j \in Good
    <3> HIDE DEF Good
    <3> QED
      BY <1>3, <1>4, InductionUpTo
  <2>2. n \in 0..n
    OBVIOUS
  <2> QED
    BY <1>1, <1>2, <2>1, <2>2
<1> HIDE DEF fed
<1>6. CASE Len(fed.buf) <= Limit
  <2>1. Feed(scan, w) = fed
    BY <1>6, ScannerAssumption, <1>5 DEF Feed, Scan, fed, ScanState
  <2> QED
    BY <1>5, <2>1 DEF w
<1>7. CASE ~(Len(fed.buf) <= Limit)
  <2> DEFINE cut == [fed EXCEPT !.buf = <<>>]
             m == k + n
  <2>1. fed.buf \in Seq(S) /\ fed.usage \in Usages /\ cut = [buf |-> <<>>, usage |-> fed.usage]
    BY <1>5 DEF ScanState
  <2>2. Feed(scan, w) = cut
    BY <1>7, <2>1, ScannerAssumption DEF Feed, Scan, fed
  <2>3. cut \in ScanState(S)
    <3>1. <<>> \in Seq(S)
      OBVIOUS
    <3> QED
      BY <2>1, <3>1 DEF ScanState
  <2>4. m \in Nat /\ m <= Len(t)
    OBVIOUS
  <2>5. PICK a \in 1..(m + 1), i \in 1..(m + 1) :
           Begins(t, m, a) /\ a <= i /\ fed.buf = SubSeq(t, i, m)
    BY <1>5 DEF Scanned, Buffered
  <2> HIDE DEF m
  <2>6. m - a + 1 > Limit
    <3>1. \A j \in i..m : t[j] \in S
      BY <2>4, <2>5
    <3>2. Len(fed.buf) = IF i <= m THEN m - i + 1 ELSE 0
      BY <2>4, <2>5, <3>1, SubSeqProperties
    <3> QED
      BY <1>7, <2>4, <2>5, <3>2, ScannerAssumption
  <2>7. Buffered(t, m, <<>>)
    <3>1. SubSeq(t, m + 1, m) = <<>>
      BY <2>4, SubSeqEmpty
    <3>2. m + 1 \in 1..(m + 1) /\ a <= m + 1
      BY <2>4, <2>5
    <3> QED
      BY <2>5, <2>6, <3>1, <3>2 DEF Buffered
  <2>8. Scanned(t, m, cut)
    <3>1. Scanned(t, m, fed)
      BY <1>5 DEF m
    <3>2. cut.buf = <<>> /\ cut.usage = fed.usage
      BY <2>1
    <3> HIDE DEF cut
    <3> QED
      BY <2>7, <3>1, <3>2 DEF Scanned
  <2> QED
    BY <2>2, <2>3, <2>8 DEF m, w
<1> QED
  BY <1>6, <1>7

(* A line of the first k symbols, from a to b: one that has ended, or the  *)
(* last.                                                                   *)
LineAt(t, k, a, b) == Ended(t, k, a, b) \/ (a <= k /\ b = k /\ Begins(t, k, a))

(* The lines of what was sent are these, and empty ones.                   *)
LEMMA LinesSent ==
    ASSUME NEW S, NEW t \in Seq(S), NEW k \in Nat, k <= Len(t)
    PROVE  LET sent == SubSeq(t, 1, k)
           IN  /\ \A a, b : LineAt(t, k, a, b) => SubSeq(t, a, b) \in Lines(sent)
               /\ \A line \in Lines(sent) :
                     line = <<>> \/ \E a, b : LineAt(t, k, a, b) /\ line = SubSeq(t, a, b)
<1> DEFINE sent == SubSeq(t, 1, k)
<1>1. sent \in Seq(S) /\ Len(sent) = k /\ DOMAIN sent = 1..k /\ \A i \in 1..k : sent[i] = t[i]
  OBVIOUS
<1>2. \A a, b \in 1..k : SubSeq(sent, a, b) = SubSeq(t, a, b)
  <2>1. ASSUME NEW a \in 1..k, NEW b \in 1..k PROVE SubSeq(sent, a, b) = SubSeq(t, a, b)
    <3>1. 1 \in 1..Len(t) /\ k \in 1..Len(t) /\ a \in 1..(k - 1 + 1) /\ b \in 1..(k - 1 + 1)
      OBVIOUS
    <3>2. SubSeq(sent, a, b) = SubSeq(t, 1 + a - 1, 1 + b - 1)
      BY <3>1, SubSeqOfSubSeq
    <3>3. 1 + a - 1 = a /\ 1 + b - 1 = b
      OBVIOUS
    <3> HIDE DEF sent
    <3> QED
      BY <3>2, <3>3
  <2> QED
    BY <2>1
<1> HIDE DEF sent
<1> DEFINE places == {r \in (1..k) \X (1..k) :
                        /\ \A i \in r[1]..r[2] : sent[i] # "nl"
                        /\ r[1] = 1 \/ sent[r[1] - 1] = "nl"
                        /\ r[2] = k \/ sent[r[2] + 1] = "nl"}
<1>3. Lines(sent) = {SubSeq(sent, r[1], r[2]) : r \in places}
  BY <1>1 DEF Lines
<1>4. ASSUME NEW a, NEW b, LineAt(t, k, a, b)
      PROVE  <<a, b>> \in places /\ SubSeq(t, a, b) = SubSeq(sent, a, b)
  <2>1. /\ a \in 1..k /\ b \in a..k
        /\ \A i \in a..b : t[i] # "nl"
        /\ a = 1 \/ t[a - 1] = "nl"
        /\ b = k \/ (b \in 1..(k - 1) /\ t[b + 1] = "nl")
    BY <1>4 DEF LineAt, Ended, Begins
  <2>2. \A i \in a..b : i \in 1..k /\ sent[i] # "nl"
    BY <1>1, <2>1
  <2>3. a = 1 \/ sent[a - 1] = "nl"
    BY <1>1, <2>1
  <2>4. b = k \/ sent[b + 1] = "nl"
    BY <1>1, <2>1
  <2>5. b \in 1..k
    BY <2>1
  <2> QED
    BY <1>2, <2>1, <2>2, <2>3, <2>4, <2>5
<1>5. ASSUME NEW r \in places
      PROVE  \/ SubSeq(sent, r[1], r[2]) = <<>>
             \/ LineAt(t, k, r[1], r[2]) /\ SubSeq(sent, r[1], r[2]) = SubSeq(t, r[1], r[2])
  <2> DEFINE a == r[1]
             b == r[2]
  <2>1. /\ a \in 1..k /\ b \in 1..k
        /\ \A i \in a..b : sent[i] # "nl"
        /\ a = 1 \/ sent[a - 1] = "nl"
        /\ b = k \/ sent[b + 1] = "nl"
    BY <1>5
  <2> HIDE DEF a, b
  <2>2. CASE b < a
    <3>1. SubSeq(sent, a, b) = <<>>
      BY <2>1, <2>2, SubSeqEmpty
    <3> QED
      BY <3>1 DEF a, b
  <2>3. CASE a <= b
    <3>1. \A i \in a..b : i \in 1..k /\ t[i] # "nl"
      BY <1>1, <2>1
    <3>2. a = 1 \/ t[a - 1] = "nl"
      BY <1>1, <2>1
    <3>3. b = k \/ t[b + 1] = "nl"
      BY <1>1, <2>1
    <3>4. LineAt(t, k, a, b)
      BY <2>1, <2>3, <3>1, <3>2, <3>3 DEF LineAt, Ended, Begins
    <3> QED
      BY <1>2, <2>1, <3>4 DEF a, b
  <2>4. b < a \/ a <= b
    <3>1. a \in Int /\ b \in Int
      BY <2>1
    <3> QED
      BY <3>1
  <2> QED
    BY <2>2, <2>3, <2>4
<1> HIDE DEF places
<1>6. \A a, b : LineAt(t, k, a, b) => SubSeq(t, a, b) \in Lines(sent)
  <2>1. \A r \in places : SubSeq(sent, r[1], r[2]) \in Lines(sent)
    BY <1>3
  <2>2. ASSUME NEW a, NEW b, LineAt(t, k, a, b) PROVE SubSeq(t, a, b) \in Lines(sent)
    <3>1. SubSeq(sent, <<a, b>>[1], <<a, b>>[2]) \in Lines(sent)
      BY <1>4, <2>1, <2>2
    <3> QED
      BY <1>4, <2>2, <3>1
  <2> QED
    BY <2>2
<1> QED
  BY <1>3, <1>5, <1>6 DEF sent

(* Lines that fit are lines that fit one by one.                           *)
LEMMA FitsAll ==
    ASSUME NEW S, NEW t \in Seq(S), NEW k \in Nat, k <= Len(t), Fits(SubSeq(t, 1, k))
    PROVE  \A a, b : LineAt(t, k, a, b) => Fit(t, a, b)
<1> DEFINE sent == SubSeq(t, 1, k)
<1>1. ASSUME NEW a, NEW b, LineAt(t, k, a, b), b - a + 1 > Limit, NEW i \in a..b
      PROVE  Found(t, i, b) = NoUsage
  <2> DEFINE line == SubSeq(t, a, b)
             n == b - a + 1
             j == i - a + 1
  <2>1. a \in 1..k /\ b \in a..k
    BY <1>1 DEF LineAt, Ended, Begins
  <2>2. line \in Lines(sent)
    BY <1>1, LinesSent
  <2>3. Len(line) = n /\ DOMAIN line = 1..n
    <3>1. \A m \in a..b : t[m] \in S
      BY <2>1
    <3>2. Len(line) = (IF a <= b THEN b - a + 1 ELSE 0) /\ line \in Seq(S)
      BY <2>1, <3>1, SubSeqProperties
    <3>3. Len(line) = n
      BY <2>1, <3>2
    <3> HIDE DEF line, n
    <3> QED
      BY <3>2, <3>3
  <2>4. j \in 1..n /\ n \in 1..n
    BY <2>1
  <2>5. SubSeq(line, j, n) = SubSeq(t, i, b)
    <3>1. /\ a \in 1..Len(t) /\ b \in 1..Len(t)
          /\ j \in 1..(b - a + 1) /\ n \in 1..(b - a + 1)
      BY <2>1, <2>4
    <3>2. SubSeq(line, j, n) = SubSeq(t, a + j - 1, a + n - 1)
      <4> HIDE DEF j, n
      <4> QED
        BY <3>1, SubSeqOfSubSeq
    <3>3. a + j - 1 = i /\ a + n - 1 = b
      BY <2>1
    <3> HIDE DEF line, j, n
    <3> QED
      BY <3>2, <3>3
  <2> HIDE DEF line, n, j, sent
  <2>6. \A m \in DOMAIN line : LineUsage(SubSeq(line, m, Len(line))) = NoUsage
    <3>1. Fits(sent)
      BY DEF sent
    <3>2. Len(line) > Limit
      BY <1>1, <2>3 DEF n
    <3> QED
      BY <2>2, <3>1, <3>2 DEF Fits
  <2> QED
    BY <2>3, <2>4, <2>5, <2>6 DEF Found
<1> QED
  BY <1>1 DEF Fit

(* The most of the ended lines and of the last one is the most of all.     *)
LEMMA MostOfLines ==
    ASSUME NEW S, NEW t \in Seq(S), NEW k \in Nat, k <= Len(t),
           NEW f \in {"prompt", "completion"}, NEW n \in Nat, Tops(n, f, t, k),
           NEW a \in 1..(k + 1), Begins(t, k, a), NEW more \in Nat,
           a = k + 1 => more = 0,
           a <= k => more = Found(t, a, k)[f],
           NEW M, M = {0} \cup {LineUsage(line)[f] : line \in Lines(SubSeq(t, 1, k))}
    PROVE  Max(M) = Higher(n, more)
<1> DEFINE m == Higher(n, more)
           lines == Lines(SubSeq(t, 1, k))
<1>1. m \in Nat /\ n <= m /\ more <= m /\ (m = n \/ m = more)
  BY DEF Higher
<1>2. /\ \A c, d : LineAt(t, k, c, d) => SubSeq(t, c, d) \in lines
      /\ \A line \in lines : line = <<>> \/ \E c, d : LineAt(t, k, c, d) /\ line = SubSeq(t, c, d)
  BY LinesSent
<1>3. \A line : LineUsage(line)[f] \in Nat
  BY UsageType DEF Usages
<1> HIDE DEF m, lines
<1>4. m \in M
  <2>1. CASE m = 0
    BY <2>1
  <2>2. CASE m # 0 /\ m = n
    <3>1. PICK c \in 1..k, d \in 1..k : Ended(t, k, c, d) /\ Found(t, c, d)[f] = n
      BY <2>2 DEF Tops
    <3>2. SubSeq(t, c, d) \in lines
      BY <1>2, <3>1 DEF LineAt
    <3> QED
      BY <2>2, <3>1, <3>2 DEF Found, lines
  <2>3. CASE m # 0 /\ m = more
    <3>1. a <= k
      BY <2>3
    <3>2. SubSeq(t, a, k) \in lines
      BY <1>2, <3>1 DEF LineAt
    <3> QED
      BY <2>3, <3>1, <3>2 DEF Found, lines
  <2> QED
    BY <1>1, <2>1, <2>2, <2>3
<1>5. ASSUME NEW y \in M PROVE m >= y /\ y \in Nat
  <2>1. CASE y = 0
    BY <1>1, <2>1
  <2>2. CASE y # 0
    <3>1. PICK line \in lines : y = LineUsage(line)[f]
      BY <2>2 DEF lines
    <3>2. line # <<>>
      BY <2>2, <3>1, UsageType DEF NoUsage
    <3>3. PICK c, d : LineAt(t, k, c, d) /\ line = SubSeq(t, c, d)
      BY <1>2, <3>2
    <3>4. y = Found(t, c, d)[f] /\ y \in Nat
      BY <1>3, <3>1, <3>3 DEF Found
    <3>5. CASE Ended(t, k, c, d)
      <4>1. c \in 1..k /\ d \in 1..k
        BY <3>5 DEF Ended
      <4>2. y <= n
        BY <3>4, <3>5, <4>1 DEF Tops
      <4> QED
        BY <1>1, <3>4, <4>2
    <3>6. CASE c <= k /\ d = k /\ Begins(t, k, c)
      <4>1. c = a
        BY <3>6, OneBeginning
      <4> QED
        BY <1>1, <3>4, <3>6, <4>1
    <3> QED
      BY <3>3, <3>5, <3>6 DEF LineAt
  <2> QED
    BY <2>1, <2>2
<1>6. ASSUME NEW x \in M, \A y \in M : x >= y PROVE x = m
  <2>1. x >= m /\ m >= x /\ x \in Nat
    BY <1>4, <1>5, <1>6
  <2> QED
    BY <1>1, <2>1
<1>7. Max(M) = m
  BY <1>4, <1>5, <1>6 DEF Max
<1> QED
  BY <1>7 DEF m

(* However the stream was cut, what the scanner finds is what it reports.  *)
LEMMA FinishedIsReported ==
    ASSUME NEW S, NEW t \in Seq(S), NEW k \in Nat, k <= Len(t),
           NEW scan \in ScanState(S), Scanned(t, k, scan), Fits(SubSeq(t, 1, k))
    PROVE  Bucket(Finished(scan)) = Reported(SubSeq(t, 1, k))
<1> DEFINE sent  == SubSeq(t, 1, k)
           u     == scan.usage
           more  == LineUsage(scan.buf)
           most(f) == Max({0} \cup {LineUsage(line)[f] : line \in Lines(sent)})
<1>1. /\ u \in Usages /\ u.prompt \in Nat /\ u.completion \in Nat
      /\ more.prompt \in Nat /\ more.completion \in Nat
  BY UsageType DEF ScanState, Usages
<1>2. \A a, b : LineAt(t, k, a, b) => Fit(t, a, b)
  BY FitsAll
<1>3. EndedFit(t, k)
  BY <1>2 DEF EndedFit, LineAt
<1>4. Tops(u.prompt, "prompt", t, k) /\ Tops(u.completion, "completion", t, k)
  BY <1>3 DEF Scanned
<1>5. PICK a \in 1..(k + 1) : Begins(t, k, a)
  BY DEF Scanned, Buffered
<1>6. /\ a = k + 1 => more = NoUsage
      /\ a <= k => more = Found(t, a, k)
  <2>1. a <= k => Fit(t, a, k)
    BY <1>2, <1>5 DEF LineAt
  <2>2. Buffered(t, k, scan.buf)
    BY DEF Scanned
  <2> QED
    BY <1>5, <2>1, <2>2, BufferIsLine
<1>7. /\ a = k + 1 => more.prompt = 0 /\ more.completion = 0
      /\ a <= k => /\ more.prompt = Found(t, a, k)["prompt"]
                   /\ more.completion = Found(t, a, k)["completion"]
  BY <1>6 DEF NoUsage
<1> HIDE DEF u, more
<1>8. most("prompt") = Higher(u.prompt, more.prompt)
  BY <1>1, <1>4, <1>5, <1>7, MostOfLines
<1>9. most("completion") = Higher(u.completion, more.completion)
  BY <1>1, <1>4, <1>5, <1>7, MostOfLines
<1>10. Finished(scan) = [prompt |-> most("prompt"), completion |-> most("completion")]
  BY <1>8, <1>9 DEF Finished, Merged, u, more
<1>11. Reported(sent) = [requests |-> 1, prompt |-> most("prompt"), completion |-> most("completion")]
  BY DEF Reported
<1> HIDE DEF most
<1> QED
  BY <1>10, <1>11 DEF Bucket

-----------------------------------------------------------------------------
(* What samples report together                                            *)

Totalled == [requests : Nat, prompt : Nat, completion : Nat]
Counts   == {"requests", "prompt", "completion"}

(* A total has three counts, of which nothing has none.                    *)
LEMMA CountType ==
    /\ Nothing \in Totalled
    /\ \A f \in Counts : Nothing[f] = 0
    /\ \A f \in Counts, a \in Totalled : a[f] \in Nat
<1>1. \A f \in Counts : f = "requests" \/ f = "prompt" \/ f = "completion"
  BY DEF Counts
<1>2. Nothing \in Totalled /\ \A f \in Counts : Nothing[f] = 0
  BY <1>1 DEF Nothing, Totalled
<1>3. \A a \in Totalled : a["requests"] \in Nat /\ a["prompt"] \in Nat /\ a["completion"] \in Nat
  BY DEF Totalled
<1> QED
  BY <1>1, <1>2, <1>3

(* Totals of the same counts are the same.                                 *)
LEMMA SameTotals ==
    ASSUME NEW a \in Totalled, NEW b \in Totalled, \A f \in Counts : a[f] = b[f]
    PROVE  a = b
<1>1. /\ a = [requests |-> a.requests, prompt |-> a.prompt, completion |-> a.completion]
      /\ b = [requests |-> b.requests, prompt |-> b.prompt, completion |-> b.completion]
  BY DEF Totalled
<1>2. a.requests = b.requests /\ a.prompt = b.prompt /\ a.completion = b.completion
  BY DEF Counts
<1> QED
  BY <1>1, <1>2

(* Totals are added count by count.                                        *)
LEMMA PlusType ==
    ASSUME NEW a \in Totalled, NEW b \in Totalled
    PROVE  /\ Plus(a, b) \in Totalled
           /\ \A f \in Counts : Plus(a, b)[f] = a[f] + b[f]
           /\ Plus(Nothing, a) = a
<1>1. /\ a = [requests |-> a.requests, prompt |-> a.prompt, completion |-> a.completion]
      /\ a.requests \in Nat /\ a.prompt \in Nat /\ a.completion \in Nat
      /\ b.requests \in Nat /\ b.prompt \in Nat /\ b.completion \in Nat
  BY DEF Totalled
<1>2. Plus(a, b) \in Totalled
  BY <1>1 DEF Plus, Totalled
<1>3. \A f \in Counts : Plus(a, b)[f] = a[f] + b[f]
  BY <1>1 DEF Plus, Counts
<1>4. Plus(Nothing, a) = a
  <2>1. Plus(Nothing, a) = [requests |-> a.requests, prompt |-> a.prompt, completion |-> a.completion]
    BY <1>1 DEF Plus, Nothing
  <2> QED
    BY <1>1, <2>1
<1> QED
  BY <1>2, <1>3, <1>4

(* The truth is a total, and each of its counts a sum.                     *)
LEMMA TruthIsSums ==
    ASSUME NEW S, IsFiniteSet(S), \A x \in S : x.reported \in Totalled
    PROVE  /\ Truth(S) \in Totalled
           /\ \A f \in Counts : Truth(S)[f] = SumFunctionOnSet([x \in S |-> x.reported[f]], S)
<1> DEFINE V == Totalled
           F == [p \in S \X V |-> Plus(p[2], p[1].reported)]
           c == [s \in SUBSET S |-> Some(s)]
           Solves(g) == g = [s \in SUBSET S |->
                                IF s = {} THEN Nothing ELSE Plus(g[s \ {Some(s)}], Some(s).reported)]
           g == CHOOSE g : Solves(g)
<1>1. \A s \in SUBSET S : s # {} => Some(s) \in s /\ c[s] = Some(s)
  BY DEF Some
<1>2. Nothing \in V /\ \A x \in S, v \in V : Plus(v, x.reported) \in V
  BY PlusType, CountType
<1>3. PICK g0 : Folds(g0, F, c, Nothing, S)
  <2> HIDE DEF F, c
  <2> QED
    BY <1>1, FoldExists
<1>4. g0 \in [SUBSET S -> V]
  <2>1. F \in [S \X V -> V]
    BY <1>2
  <2>2. \A s \in SUBSET S : s # {} => c[s] \in s
    BY <1>1
  <2> HIDE DEF F, c, V
  <2> QED
    BY <1>2, <1>3, <2>1, <2>2, FoldStays
<1>5. Solves(g0)
  <2>1. ASSUME NEW s \in SUBSET S, s # {}
        PROVE  F[<<c[s], g0[s \ {c[s]}]>>] = Plus(g0[s \ {Some(s)}], Some(s).reported)
    <3>1. Some(s) \in S /\ g0[s \ {Some(s)}] \in V
      BY <1>1, <1>4, <2>1
    <3>2. <<Some(s), g0[s \ {Some(s)}]>> \in S \X V
      BY <3>1
    <3> QED
      BY <1>1, <2>1, <3>2
  <2>2. ASSUME NEW s \in SUBSET S
        PROVE  g0[s] = IF s = {} THEN Nothing ELSE Plus(g0[s \ {Some(s)}], Some(s).reported)
    <3> HIDE DEF F, c, V
    <3> QED
      BY <1>3, <2>1 DEF Folds
  <2>3. g0 = [s \in SUBSET S |-> g0[s]]
    BY <1>4
  <2> HIDE DEF V
  <2> QED
    BY <2>2, <2>3
<1>6. Solves(g)
  <2> HIDE DEF Solves
  <2> QED
    BY <1>5
<1>7. Truth(S) = g[S]
  BY DEF Truth, FoldSet, MapThenFoldSet, Some
<1>8. \A s \in SUBSET S :
         g[s] = IF s = {} THEN Nothing ELSE Plus(g[s \ {Some(s)}], Some(s).reported)
  <2> HIDE DEF g
  <2> QED
    BY <1>6
<1> HIDE DEF g, V, F, c, Solves
<1>9. \A s \in SUBSET S : g[s] \in Totalled
  <2> DEFINE Good == {n \in 0..Cardinality(S) :
                        \A s \in SUBSET S : Cardinality(s) = n => g[s] \in Totalled}
  <2>1. \A s \in SUBSET S : IsFiniteSet(s) /\ Cardinality(s) \in 0..Cardinality(S)
    BY FS_Subset, FS_CardinalityType
  <2>2. Cardinality(S) \in Nat
    BY FS_CardinalityType
  <2>3. 0 \in Good
    <3>1. \A s \in SUBSET S : Cardinality(s) = 0 => s = {}
      BY <2>1, FS_EmptySet
    <3> QED
      BY <1>2, <1>8, <2>2, <3>1 DEF V
  <2>4. ASSUME NEW n \in 1..Cardinality(S), n - 1 \in Good PROVE n \in Good
    <3>1. ASSUME NEW s \in SUBSET S, Cardinality(s) = n PROVE g[s] \in Totalled
      <4>1. s # {}
        BY <3>1, <2>1, FS_EmptySet
      <4>2. Some(s) \in s /\ Some(s) \in S /\ s \ {Some(s)} \in SUBSET S
        BY <1>1, <4>1
      <4>3. Cardinality(s \ {Some(s)}) = n - 1
        BY <2>1, <3>1, <4>2, OneLess
      <4>4. g[s \ {Some(s)}] \in Totalled
        BY <2>4, <4>2, <4>3
      <4> QED
        BY <1>2, <1>8, <4>1, <4>2, <4>4 DEF V
    <3> QED
      BY <2>2, <3>1
  <2>5. \A n \in 0..Cardinality(S) : n \in Good
    <3> HIDE DEF Good
    <3> QED
      BY <2>2, <2>3, <2>4, InductionUpTo
  <2> QED
    BY <2>1, <2>5
<1>10. ASSUME NEW f \in Counts
       PROVE  Truth(S)[f] = SumFunctionOnSet([x \in S |-> x.reported[f]], S)
  <2> DEFINE h == [x \in S |-> x.reported[f]]
             k == [s \in SUBSET S |-> g[s][f]]
  <2>1. ASSUME NEW s \in SUBSET S
        PROVE  k[s] = IF s = {} THEN 0 ELSE h[Some(s)] + k[s \ {Some(s)}]
    <3>1. CASE s = {}
      <4>1. g[s] = Nothing /\ Nothing[f] = 0
        <5> HIDE DEF h, k
        <5>1. g[s] = Nothing
          BY <1>8, <3>1
        <5> QED
          BY <5>1, CountType
      <4> QED
        BY <3>1, <4>1
    <3>2. CASE s # {}
      <4>1. Some(s) \in S /\ s \ {Some(s)} \in SUBSET S
        BY <1>1, <3>2
      <4>2. g[s \ {Some(s)}] \in Totalled /\ Some(s).reported \in Totalled
        BY <1>9, <4>1
      <4>3. /\ g[s][f] = g[s \ {Some(s)}][f] + Some(s).reported[f]
            /\ g[s \ {Some(s)}][f] \in Nat /\ Some(s).reported[f] \in Nat
        <5> DEFINE u == g[s \ {Some(s)}]
                   v == Some(s).reported
        <5>1. g[s] = Plus(u, v)
          BY <1>8, <3>2
        <5>2. u \in Totalled /\ v \in Totalled
          BY <4>2
        <5> HIDE DEF u, v, h, k
        <5>3. Plus(u, v)[f] = u[f] + v[f] /\ u[f] \in Nat /\ v[f] \in Nat
          BY <5>2, PlusType, CountType
        <5>4. g[s][f] = u[f] + v[f]
          BY <5>1, <5>3
        <5> QED
          BY <5>3, <5>4 DEF u, v
      <4> QED
        BY <3>2, <4>1, <4>3
    <3> QED
      BY <3>1, <3>2
  <2>2. Recurs(k, h, S)
    <3>1. k = [s \in SUBSET S |-> k[s]]
      OBVIOUS
    <3> HIDE DEF k, h
    <3> QED
      BY <2>1, <3>1 DEF Recurs
  <2>3. S \in SUBSET S /\ k[S] = g[S][f]
    OBVIOUS
  <2> HIDE DEF k, h
  <2>4. SumFunctionOnSet(h, S) = k[S]
    BY <2>2, <2>3, SolutionIsSum
  <2> QED
    BY <1>7, <2>3, <2>4 DEF h
<1> QED
  BY <1>7, <1>9, <1>10

(* A sample more adds what it reports.                                     *)
LEMMA TruthAdds ==
    ASSUME NEW S, IsFiniteSet(S), NEW x, x \notin S,
           \A y \in S \cup {x} : y.reported \in Totalled
    PROVE  /\ Truth(S) \in Totalled /\ Truth({}) = Nothing
           /\ Truth(S \cup {x}) = Plus(Truth(S), x.reported)
<1> DEFINE T == S \cup {x}
           a == Truth(T)
           b == Plus(Truth(S), x.reported)
<1>1. IsFiniteSet(T) /\ IsFiniteSet({})
  BY FS_AddElement, FS_EmptySet
<1>2. /\ a \in Totalled
      /\ \A f \in Counts : a[f] = SumFunctionOnSet([y \in T |-> y.reported[f]], T)
  <2>1. \A y \in T : y.reported \in Totalled
    OBVIOUS
  <2> HIDE DEF T
  <2> QED
    BY <1>1, <2>1, TruthIsSums
<1>3. /\ Truth(S) \in Totalled
      /\ \A f \in Counts : Truth(S)[f] = SumFunctionOnSet([y \in S |-> y.reported[f]], S)
  BY TruthIsSums
<1>4. /\ b \in Totalled
      /\ \A f \in Counts : b[f] = Truth(S)[f] + x.reported[f] /\ Truth(S)[f] \in Nat
  BY <1>3, PlusType, CountType
<1>5. ASSUME NEW f \in Counts PROVE a[f] = b[f]
  <2> DEFINE h == [y \in T |-> y.reported[f]]
             k == [y \in S |-> y.reported[f]]
  <2>1. \A y \in T : h[y] = y.reported[f] /\ h[y] \in Int
    BY CountType
  <2>2. \A y \in S : h[y] = k[y]
    OBVIOUS
  <2> HIDE DEF h, k
  <2>3. SumFunctionOnSet(h, T) = h[x] + SumFunctionOnSet(h, S)
    BY <2>1, SumAdd
  <2>4. SumFunctionOnSet(h, S) = SumFunctionOnSet(k, S)
    BY <2>2, SumSame
  <2>5. SumFunctionOnSet(h, T) = a[f] /\ SumFunctionOnSet(k, S) = Truth(S)[f]
    BY <1>2, <1>3 DEF h, k
  <2>6. h[x] = x.reported[f] /\ x.reported[f] \in Nat
    BY <2>1, CountType
  <2> HIDE DEF a, b, T
  <2> QED
    BY <1>4, <2>3, <2>4, <2>5, <2>6
<1>6. a = b
  <2> HIDE DEF a, b
  <2> QED
    BY <1>2, <1>4, <1>5, SameTotals
<1>7. Truth({}) = Nothing
  <2>1. /\ Truth({}) \in Totalled
        /\ \A f \in Counts : Truth({})[f] = SumFunctionOnSet([y \in {} |-> y.reported[f]], {})
    BY <1>1, TruthIsSums
  <2>2. \A f \in Counts : Truth({})[f] = 0
    BY <2>1, SumEmpty
  <2>3. Nothing \in Totalled /\ \A f \in Counts : Nothing[f] = 0
    BY CountType
  <2> DEFINE none == Truth({})
  <2>4. none \in Totalled /\ \A f \in Counts : none[f] = Nothing[f]
    BY <2>1, <2>2, <2>3
  <2> HIDE DEF none
  <2>5. none = Nothing
    BY <2>3, <2>4, SameTotals
  <2> QED
    BY <2>5 DEF none
<1> QED
  BY <1>3, <1>6, <1>7

-----------------------------------------------------------------------------
(* What the days count                                                     *)

(* Keys in order are days in order.                                        *)
LEMMA EarlierIsBefore ==
    ASSUME NEW a, IsDate(a), NEW b, IsDate(b), Earlier(a, b)
    PROVE  DaysFromCivil(a) < DaysFromCivil(b)
<1> DEFINE ya == MarchYear(a)
           yb == MarchYear(b)
           ma == MarchMonth(a)
           mb == MarchMonth(b)
           da == MarchDay(a)
           db == MarchDay(b)
<1>1. /\ a[1] \in Int /\ a[2] \in 1..12 /\ a[3] \in 1..DaysInMonth(a[1], a[2])
      /\ b[1] \in Int /\ b[2] \in 1..12 /\ b[3] \in 1..DaysInMonth(b[1], b[2])
  BY DEF IsDate
<1>2. a[3] \in Int /\ 1 <= a[3] /\ b[3] \in Int /\ 1 <= b[3]
  BY <1>1, DaysOfMonth
<1>3. /\ ya \in Int /\ ma \in 0..11 /\ da \in Int /\ 0 <= da /\ da < YearLength(ya)
      /\ DaysFromCivil(a) = YearStart(ya) + da - 719468
  BY PlaceOfDate, SMT
<1>4. /\ yb \in Int /\ mb \in 0..11 /\ db \in Int /\ 0 <= db /\ db < YearLength(yb)
      /\ DaysFromCivil(b) = YearStart(yb) + db - 719468
  BY PlaceOfDate, SMT
<1>5. \/ ya < yb
      \/ ya = yb /\ ma < mb
      \/ ya = yb /\ ma = mb /\ a[2] = b[2] /\ a[3] < b[3]
  <2>1. /\ ya = IF a[2] <= 2 THEN a[1] - 1 ELSE a[1]
        /\ yb = IF b[2] <= 2 THEN b[1] - 1 ELSE b[1]
        /\ ma = (a[2] + 9) % 12 /\ mb = (b[2] + 9) % 12
    BY Zenon DEF MarchYear, MarchMonth
  <2>2. /\ ma = IF a[2] <= 2 THEN a[2] + 9 ELSE a[2] - 3
        /\ mb = IF b[2] <= 2 THEN b[2] + 9 ELSE b[2] - 3
    BY <1>1, <2>1, SMT
  <2> HIDE DEF ya, yb, ma, mb
  <2>3. CASE a[1] < b[1]
    BY <1>1, <1>2, <2>1, <2>2, <2>3, SMT
  <2>4. CASE a[1] = b[1] /\ a[2] < b[2]
    BY <1>1, <1>2, <2>1, <2>2, <2>4, SMT
  <2>5. CASE a[1] = b[1] /\ a[2] = b[2] /\ a[3] < b[3]
    BY <1>1, <1>2, <2>1, <2>2, <2>5, SMT
  <2> QED
    BY <2>3, <2>4, <2>5 DEF Earlier
<1>6. /\ YearStart(ya) \in Int /\ YearLength(ya) \in Int /\ YearStart(yb) \in Int
      /\ ya < yb => YearStart(ya) + YearLength(ya) <= YearStart(yb)
  <2>1. /\ \A y \in Int : YearStart(y) \in Int /\ YearLength(y) \in {365, 366}
        /\ \A y \in Int, x \in Int : y < x => YearStart(y) + YearLength(y) <= YearStart(x)
    BY YearsFollow
  <2> HIDE DEF ya, yb
  <2> QED
    BY <1>3, <1>4, <2>1
<1>7. da = DaysBefore(ma) + a[3] - 1 /\ db = DaysBefore(mb) + b[3] - 1
  BY DEF MarchDay
<1>8. DaysBefore(ma) \in Int /\ DaysBefore(mb) \in Int
  BY <1>3, <1>4, SMT DEF DaysBefore
<1>9. ma < mb => da < DaysBefore(mb)
  <2>1. ma < mb => DaysBefore(ma + 1) \in Int /\ DaysBefore(ma + 1) <= DaysBefore(mb)
    BY <1>3, <1>4, SMT DEF DaysBefore
  <2>2. a[2] = MonthOf(ma)
    <3>1. ma = (a[2] + 9) % 12
      BY Zenon DEF MarchMonth
    <3> HIDE DEF ma
    <3> QED
      BY <1>1, <3>1, SMT DEF MonthOf
  <2>3. ma < 11 => DaysInMonth(a[1], a[2]) = DaysBefore(ma + 1) - DaysBefore(ma)
    BY <1>1, <1>3, <2>2, MonthLengths
  <2>4. DaysInMonth(a[1], a[2]) \in Int /\ a[3] <= DaysInMonth(a[1], a[2])
    <3>1. DaysInMonth(a[1], a[2]) \in 28..31
      BY <1>1, DaysOfMonth
    <3>2. a[3] \in 1..DaysInMonth(a[1], a[2])
      BY <1>1
    <3> QED
      BY <3>1, <3>2
  <2> HIDE DEF ma, mb, da, db
  <2> QED
    BY <1>2, <1>3, <1>4, <1>7, <1>8, <2>1, <2>3, <2>4, SMT
<1> HIDE DEF ya, yb, ma, mb, da, db
<1>10. CASE ya < yb
  BY <1>3, <1>4, <1>6, <1>10, SMT
<1>11. CASE ya = yb /\ ma < mb
  BY <1>2, <1>3, <1>4, <1>6, <1>7, <1>8, <1>9, <1>11, SMT
<1>12. CASE ya = yb /\ ma = mb /\ a[3] < b[3]
  BY <1>2, <1>3, <1>4, <1>6, <1>7, <1>8, <1>12, SMT
<1> QED
  BY <1>5, <1>10, <1>11, <1>12, SMT

(* Retention keeps every day of the horizon, and no other goes.            *)
LEMMA PrunedKeeps ==
    ASSUME NEW history, \A k \in DOMAIN history : IsDate(k),
           clock \in Int, horizon \in Int, NEW p, p.offset \in Int, p.retention \in Int
    PROVE  /\ Dropped(p) \in Int /\ horizon <= Dropped(p)
           /\ DOMAIN Pruned(history, p) \subseteq DOMAIN history
           /\ \A k \in DOMAIN history : DaysFromCivil(k) >= Dropped(p)
                 => k \in DOMAIN Pruned(history, p) /\ Pruned(history, p)[k] = history[k]
<1> DEFINE n == LocalDay(clock, p.offset) - p.retention
           oldest == CivilFromDays(n)
<1>1. n \in Int
  <2>2. clock + p.offset \in Int
    OBVIOUS
  <2>3. LocalDay(clock, p.offset) \in Int
    BY <2>2, SMT DEF LocalDay, DayOf, Day
  <2> QED
    BY <2>3
<1> HIDE DEF n
<1>2. /\ Dropped(p) \in Int /\ horizon <= Dropped(p) /\ n <= Dropped(p)
  <2>1. Dropped(p) = Max({horizon, n})
    BY DEF Dropped, n
  <2>2. \E x \in {horizon, n} : \A y \in {horizon, n} : x >= y
    <3>1. horizon >= n \/ n >= horizon
      BY <1>1
    <3> QED
      BY <1>1, <3>1
  <2>3. Max({horizon, n}) \in {horizon, n} /\ \A y \in {horizon, n} : Max({horizon, n}) >= y
    BY <2>2, Zenon DEF Max
  <2> QED
    BY <1>1, <2>1, <2>3
<1>3. IsDate(oldest) /\ DaysFromCivil(oldest) = n
  BY <1>1, DateOfDay
<1>4. Pruned(history, p) = [k \in {k \in DOMAIN history : ~Earlier(k, oldest)} |-> history[k]]
  BY DEF Pruned, n
<1> HIDE DEF oldest
<1>5. ASSUME NEW k \in DOMAIN history, DaysFromCivil(k) >= Dropped(p) PROVE ~Earlier(k, oldest)
  <2>1. DaysFromCivil(k) \in Int
    BY DateIsFound
  <2>2. ~(DaysFromCivil(k) < DaysFromCivil(oldest))
    BY <1>1, <1>2, <1>3, <1>5, <2>1
  <2> QED
    BY <1>3, <2>2, EarlierIsBefore
<1> QED
  BY <1>2, <1>4, <1>5

(* A stream is scanned up to what is left of it.                           *)
StreamInv ==
    \/ stream = NoStream
    \/ \E at \in Int, body \in Bodies :
       \E k \in 0..Len(body), scan \in ScanState(ToSet(body)) :
          /\ stream = [at |-> at, body |-> body, rest |-> SubSeq(body, k + 1, Len(body)), scan |-> scan]
          /\ Scanned(body, k, scan)

(* The samples are told apart by their numbers, and know their days.       *)
SampleInv ==
    /\ IsFiniteSet(counted)
    /\ \A x \in counted :
          /\ x.id \in 0..(Cardinality(counted) - 1)
          /\ x.at \in Int /\ x.offset \in Int /\ x.key = DayKey(x.at, x.offset)
          /\ x.fits => x.reported \in Totalled

HistoryInv ==
    /\ CalendarInv /\ StreamInv /\ SampleInv
    /\ horizon \in Int /\ policy.retention \in Int
    /\ HistoryIsTruth

(* A scan begins with nothing.                                             *)
LEMMA NothingScanned ==
    ASSUME NEW S, NEW t \in Seq(S)
    PROVE  Fresh \in ScanState(S) /\ Scanned(t, 0, Fresh) /\ SubSeq(t, 1, Len(t)) = t
<1>1. Fresh = [buf |-> <<>>, usage |-> NoUsage] /\ <<>> \in Seq(S) /\ NoUsage \in Usages
  BY UsageType DEF Fresh
<1>2. Buffered(t, 0, <<>>)
  <2>1. SubSeq(t, 1, 0) = <<>>
    BY SubSeqEmpty
  <2>2. Begins(t, 0, 1)
    BY DEF Begins
  <2>3. 1 \in 1..(0 + 1)
    OBVIOUS
  <2> QED
    BY <2>1, <2>2, <2>3 DEF Buffered
<1>3. \A f : Tops(0, f, t, 0)
  <2>1. \A a \in 1..0 : FALSE
    OBVIOUS
  <2> QED
    BY <2>1 DEF Tops
<1>4. Fresh.buf = <<>> /\ Fresh.usage.prompt = 0 /\ Fresh.usage.completion = 0
  BY <1>1 DEF NoUsage
<1>5. SubSeq(t, 1, Len(t)) = t
  BY SubSeqFull
<1> QED
  BY <1>1, <1>2, <1>3, <1>4, <1>5 DEF Scanned, ScanState

(* A stream stays scanned.                                                 *)
LEMMA StreamsAreScanned ==
    /\ Init => StreamInv
    /\ CalendarInv /\ StreamInv /\ [Next]_vars => StreamInv'
<1>1. Init => StreamInv
  BY DEF Init, StreamInv
<1>2. ASSUME CalendarInv, StreamInv, [Next]_vars PROVE StreamInv'
  <2>1. CASE Begin
    <3>1. PICK body \in Bodies : stream' = [at |-> clock, body |-> body, rest |-> body, scan |-> Fresh]
      BY <2>1 DEF Begin
    <3>2. body \in Seq(ToSet(body)) /\ clock \in Int
      BY <1>2, HistoryAssumption DEF CalendarInv
    <3>3. /\ Fresh \in ScanState(ToSet(body)) /\ Scanned(body, 0, Fresh)
          /\ SubSeq(body, 0 + 1, Len(body)) = body
      BY <3>2, NothingScanned
    <3>4. 0 \in 0..Len(body)
      BY <3>2
    <3> QED
      BY <3>1, <3>2, <3>3, <3>4 DEF StreamInv
  <2>2. CASE Piece
    <3>1. PICK at \in Int, body \in Bodies :
             \E k \in 0..Len(body), scan \in ScanState(ToSet(body)) :
                /\ stream = [at |-> at, body |-> body,
                             rest |-> SubSeq(body, k + 1, Len(body)), scan |-> scan]
                /\ Scanned(body, k, scan)
      BY <1>2, <2>2 DEF StreamInv, Piece
    <3>2. PICK k \in 0..Len(body), scan \in ScanState(ToSet(body)) :
             /\ stream = [at |-> at, body |-> body,
                          rest |-> SubSeq(body, k + 1, Len(body)), scan |-> scan]
             /\ Scanned(body, k, scan)
      BY <3>1
    <3> DEFINE S == ToSet(body)
               l == Len(body)
               rest == SubSeq(body, k + 1, l)
    <3>3. body \in Seq(S) /\ l \in Nat /\ k \in Nat /\ k <= l
      BY HistoryAssumption
    <3>4. rest \in Seq(S) /\ Len(rest) = l - k /\ DOMAIN rest = 1..(l - k)
      <4>1. \A i \in (k + 1)..l : body[i] \in S
        BY <3>3
      <4>2. rest \in Seq(S) /\ Len(rest) = IF k + 1 <= l THEN l - (k + 1) + 1 ELSE 0
        BY <3>3, <4>1, SubSeqProperties
      <4> HIDE DEF rest, l
      <4>3. Len(rest) = l - k
        BY <3>3, <4>2
      <4> QED
        BY <4>2, <4>3
    <3>5. PICK n \in DOMAIN rest :
             stream' = [at |-> at, body |-> body, rest |-> SubSeq(rest, n + 1, Len(rest)),
                        scan |-> Feed(scan, SubSeq(rest, 1, n))]
      BY <2>2, <3>2 DEF Piece
    <3> HIDE DEF rest, S, l
    <3>6. n \in Nat /\ 1 <= n /\ k + n \in 0..l /\ k + n <= l /\ n \in 1..(l - k)
      BY <3>3, <3>4
    <3>7. SubSeq(rest, 1, n) = SubSeq(body, k + 1, k + n)
      <4>1. /\ k + 1 \in 1..Len(body) /\ l \in 1..Len(body)
            /\ 1 \in 1..(l - (k + 1) + 1) /\ n \in 1..(l - (k + 1) + 1)
        BY <3>3, <3>6 DEF l
      <4>2. SubSeq(SubSeq(body, k + 1, l), 1, n) = SubSeq(body, (k + 1) + 1 - 1, (k + 1) + n - 1)
        BY <3>3, <4>1, SubSeqOfSubSeq
      <4>3. (k + 1) + 1 - 1 = k + 1 /\ (k + 1) + n - 1 = k + n
        BY <3>3, <3>6
      <4> QED
        BY <4>2, <4>3 DEF rest
    <3>8. SubSeq(rest, n + 1, Len(rest)) = SubSeq(body, (k + n) + 1, l)
      <4>1. CASE n = l - k
        <5>1. n + 1 \in Int /\ Len(rest) \in Int /\ Len(rest) < n + 1
              /\ (k + n) + 1 \in Int /\ l \in Int /\ l < (k + n) + 1
          BY <3>3, <3>4, <3>6, <4>1
        <5> QED
          BY <5>1, SubSeqEmpty
      <4>2. CASE n # l - k
        <5> DEFINE a == k + 1
                   m == l - k
                   b == n + 1
        <5>1. /\ a \in 1..Len(body) /\ l \in 1..Len(body)
              /\ b \in 1..(l - a + 1) /\ m \in 1..(l - a + 1)
          BY <3>3, <3>6, <4>2 DEF l
        <5>2. a + b - 1 = (k + n) + 1 /\ a + m - 1 = l
          BY <3>3, <3>6
        <5>3. rest = SubSeq(body, a, l)
          BY DEF rest
        <5> HIDE DEF a, m, b
        <5>4. SubSeq(SubSeq(body, a, l), b, m) = SubSeq(body, a + b - 1, a + m - 1)
          BY <3>3, <5>1, SubSeqOfSubSeq
        <5> QED
          BY <3>4, <5>2, <5>3, <5>4 DEF m, b
      <4> QED
        BY <4>1, <4>2
    <3> DEFINE next == Feed(scan, SubSeq(body, k + 1, k + n))
    <3>9. next \in ScanState(S) /\ Scanned(body, k + n, next)
      <4>1. scan \in ScanState(S) /\ Scanned(body, k, scan) /\ k + n <= Len(body)
        BY <3>2, <3>6 DEF S, l
      <4> QED
        BY <3>3, <3>6, <4>1, ScannedPiece
    <3>10. stream' = [at |-> at, body |-> body, rest |-> SubSeq(body, (k + n) + 1, l), scan |-> next]
      BY <3>5, <3>7, <3>8
    <3> HIDE DEF next
    <3> QED
      BY <3>1, <3>6, <3>9, <3>10 DEF StreamInv, S, l
  <2>3. CASE Record \/ Restart
    BY <2>3 DEF Record, Restart, StreamInv
  <2>4. CASE UNCHANGED stream
    BY <1>2, <2>4 DEF StreamInv
  <2> QED
    BY <1>2, <2>1, <2>2, <2>3, <2>4 DEF Next, Prune, SetPolicy, Tick, vars
<1> QED
  BY <1>1, <1>2

(* What record_success files: a sample that is new, under its day, and     *)
(* what the stream reports if its lines fit.                               *)
LEMMA RecordFiles ==
    ASSUME CalendarInv, StreamInv, SampleInv, Record
    PROVE  \E x, bucket :
              /\ counted' = counted \cup {x} /\ x.id = Cardinality(counted) /\ x \notin counted
              /\ x.at \in Int /\ x.offset \in Int /\ x.key = DayKey(x.at, x.offset)
              /\ days' = Filed(days, x.key, bucket)
              /\ x.fits => x.reported \in Totalled /\ x.reported = bucket
<1>1. PICK at \in Int, body \in Bodies :
         \E k \in 0..Len(body), scan \in ScanState(ToSet(body)) :
            /\ stream = [at |-> at, body |-> body,
                         rest |-> SubSeq(body, k + 1, Len(body)), scan |-> scan]
            /\ Scanned(body, k, scan)
  BY DEF StreamInv, Record
<1>2. PICK k \in 0..Len(body), scan \in ScanState(ToSet(body)) :
         /\ stream = [at |-> at, body |-> body, rest |-> SubSeq(body, k + 1, Len(body)), scan |-> scan]
         /\ Scanned(body, k, scan)
  BY <1>1
<1> DEFINE S == ToSet(body)
           l == Len(body)
           rest == SubSeq(body, k + 1, l)
           sent == SubSeq(body, 1, k)
           usage == Finished(scan)
           key == DayKey(at, policy.offset)
           x == [id |-> Cardinality(counted), at |-> at, key |-> key, offset |-> policy.offset,
                 reported |-> Reported(sent), fits |-> Fits(sent),
                 prompt |-> usage.prompt, completion |-> usage.completion]
<1>3. body \in Seq(S) /\ l \in Nat /\ k \in Nat /\ k <= l
  BY HistoryAssumption
<1>4. l - Len(rest) = k
  <2>1. \A i \in (k + 1)..l : body[i] \in S
    BY <1>3
  <2>2. Len(rest) = IF k + 1 <= l THEN l - (k + 1) + 1 ELSE 0
    BY <1>3, <2>1, SubSeqProperties
  <2> HIDE DEF rest, l
  <2> QED
    BY <1>3, <2>2
<1>5. stream = [at |-> at, body |-> body, rest |-> rest, scan |-> scan]
  BY <1>2
<1>6. stream.at = at /\ stream.body = body /\ stream.rest = rest /\ stream.scan = scan
  BY <1>5
<1>7. SubSeq(stream.body, 1, Len(stream.body) - Len(stream.rest)) = sent
  BY <1>4, <1>6, Zenon
<1>8. counted' = counted \cup {x} /\ days' = Filed(days, key, Bucket(usage))
  <2> DEFINE sample(a, q, u, s) ==
                [id |-> Cardinality(counted), at |-> a, key |-> q, offset |-> policy.offset,
                 reported |-> Reported(s), fits |-> Fits(s),
                 prompt |-> u.prompt, completion |-> u.completion]
  <2>1. counted' = counted \cup {sample(stream.at, DayKey(stream.at, policy.offset),
                                      Finished(stream.scan),
                                      SubSeq(stream.body, 1, Len(stream.body) - Len(stream.rest)))}
    BY Zenon DEF Record
  <2>2. days' = Filed(days, DayKey(stream.at, policy.offset), Bucket(Finished(stream.scan)))
    BY Zenon DEF Record
  <2>3. x = sample(at, key, usage, sent)
    BY Zenon
  <2> HIDE DEF sample, x, sent, rest, usage
  <2>4. counted' = counted \cup {sample(at, key, Finished(scan), sent)}
    BY <1>6, <1>7, <2>1
  <2> QED
    BY <1>6, <2>2, <2>3, <2>4 DEF usage
<1>9. /\ x.id = Cardinality(counted) /\ x.at = at /\ x.key = key /\ x.offset = policy.offset
      /\ x.reported = Reported(sent) /\ x.fits = Fits(sent)
  <2> HIDE DEF sent, key, usage
  <2> QED
    OBVIOUS
<1> HIDE DEF x
<1>10. x \notin counted
  <2>1. Cardinality(counted) \in Nat
    BY FS_CardinalityType DEF SampleInv
  <2>2. ~(Cardinality(counted) \in 0..(Cardinality(counted) - 1))
    BY <2>1
  <2> QED
    BY <1>9, <2>2 DEF SampleInv
<1>11. x.at \in Int /\ x.offset \in Int /\ x.key = DayKey(x.at, x.offset)
  BY <1>9 DEF CalendarInv
<1>12. ASSUME x.fits PROVE x.reported = Bucket(usage) /\ Bucket(usage) \in Totalled
  <2>1. Fits(sent)
    BY <1>9, <1>12
  <2>2. Bucket(usage) = Reported(sent)
    BY <1>2, <1>3, <2>1, FinishedIsReported
  <2>3. usage.prompt \in Nat /\ usage.completion \in Nat
    <3>1. scan.usage \in Usages /\ LineUsage(scan.buf) \in Usages
      BY UsageType DEF ScanState
    <3> QED
      BY <3>1 DEF Finished, Merged, Higher, Usages
  <2>4. Bucket(usage) \in Totalled
    BY <2>3 DEF Bucket, Totalled
  <2> QED
    BY <1>9, <2>2, <2>4
<1>13. days' = Filed(days, x.key, Bucket(usage))
  BY <1>8, <1>9
<1> QED
  BY <1>8, <1>9, <1>10, <1>11, <1>12, <1>13

(* Samples stay as they are.                                               *)
LEMMA SamplesAreNumbered ==
    /\ Init => SampleInv
    /\ CalendarInv /\ StreamInv /\ SampleInv /\ [Next]_vars => SampleInv'
<1>1. Init => SampleInv
  BY FS_EmptySet DEF Init, SampleInv
<1>2. ASSUME CalendarInv, StreamInv, SampleInv, [Next]_vars PROVE SampleInv'
  <2>1. CASE Record
    <3>1. PICK x, bucket :
             /\ counted' = counted \cup {x} /\ x.id = Cardinality(counted) /\ x \notin counted
             /\ x.at \in Int /\ x.offset \in Int /\ x.key = DayKey(x.at, x.offset)
             /\ x.fits => x.reported \in Totalled /\ x.reported = bucket
      BY <1>2, <2>1, RecordFiles
    <3>2. /\ IsFiniteSet(counted') /\ Cardinality(counted') = Cardinality(counted) + 1
          /\ Cardinality(counted) \in Nat
      BY <1>2, <3>1, FS_AddElement, FS_CardinalityType DEF SampleInv
    <3>3. /\ \A i \in 0..(Cardinality(counted) - 1) : i \in 0..(Cardinality(counted') - 1)
          /\ Cardinality(counted) \in 0..(Cardinality(counted') - 1)
      BY <3>2
    <3> QED
      BY <1>2, <3>1, <3>2, <3>3 DEF SampleInv
  <2>2. CASE UNCHANGED counted
    BY <1>2, <2>2 DEF SampleInv
  <2> QED
    BY <1>2, <2>1, <2>2 DEF Next, Begin, Piece, Prune, SetPolicy, Restart, Tick, vars
<1> QED
  BY <1>1, <1>2

(* Days that are kept stay true: other requests than those counted do      *)
(* not come, and no day within the horizon goes or changes.                *)
LEMMA KeptDaysAreTrue ==
    ASSUME counted' = counted, DaysAreTrue, horizon \in Int, horizon' \in Int, horizon <= horizon',
           \A k \in DOMAIN days' : k \in DOMAIN days \/ \E x \in counted : k = x.key,
           \A k \in DOMAIN days \cup {x.key : x \in counted} : DaysFromCivil(k) \in Int,
           \A k \in DOMAIN days : DaysFromCivil(k) >= horizon'
              => k \in DOMAIN days' /\ days'[k] = days[k]
    PROVE  DaysAreTrue'
<1>1. ASSUME NEW k \in {x.key : x \in counted} \cup DOMAIN days', DaysFromCivil(k) >= horizon'
      PROVE  k \in DOMAIN days' /\ days'[k] = Truth({x \in counted : x.key = k})
  <2>1. k \in {x.key : x \in counted} \cup DOMAIN days
    OBVIOUS
  <2>2. DaysFromCivil(k) >= horizon
    BY <1>1, <2>1
  <2>3. k \in DOMAIN days /\ days[k] = Truth({x \in counted : x.key = k})
    BY <2>1, <2>2 DEF DaysAreTrue
  <2> QED
    BY <1>1, <2>3
<1>2. DaysAreTrue' = \A k \in {x.key : x \in counted'} \cup DOMAIN days' :
                        DaysFromCivil(k) >= horizon' =>
                           /\ k \in DOMAIN days'
                           /\ days'[k] = Truth({x \in counted' : x.key = k})
  BY Zenon DEF DaysAreTrue
<1>3. counted' = counted
  OBVIOUS
<1> QED
  BY <1>1, <1>2, <1>3, Zenon

(* A request more is true to its day.                                      *)
LEMMA RecordIsTrue ==
    ASSUME HistoryInv, Record, ~moved, \A x \in counted' : x.fits PROVE DaysAreTrue'
<1>1. PICK x, bucket :
         /\ counted' = counted \cup {x} /\ x.id = Cardinality(counted) /\ x \notin counted
         /\ x.at \in Int /\ x.offset \in Int /\ x.key = DayKey(x.at, x.offset)
         /\ days' = Filed(days, x.key, bucket)
         /\ x.fits => x.reported \in Totalled /\ x.reported = bucket
  BY RecordFiles DEF HistoryInv
<1>2. horizon' = horizon /\ horizon \in Int
  BY DEF Record, HistoryInv
<1>3. DaysAreTrue
  BY <1>1 DEF HistoryInv, HistoryIsTruth, AllFit
<1> DEFINE of(k) == {y \in counted : y.key = k}
<1>4. \A k : /\ k # x.key => {y \in counted' : y.key = k} = of(k)
             /\ {y \in counted' : y.key = x.key} = of(x.key) \cup {x}
  BY <1>1
<1>5. \A y \in counted \cup {x} : y.reported \in Totalled
  BY <1>1 DEF HistoryInv, SampleInv
<1>6. /\ Truth(of(x.key)) \in Totalled /\ Truth({}) = Nothing
      /\ Truth(of(x.key) \cup {x}) = Plus(Truth(of(x.key)), bucket)
      /\ Plus(Nothing, bucket) = bucket
  <2>1. IsFiniteSet(of(x.key))
    <3>1. IsFiniteSet(counted) /\ of(x.key) \in SUBSET counted
      BY DEF HistoryInv, SampleInv
    <3> HIDE DEF of
    <3> QED
      BY <3>1, FS_Subset
  <2>2. x \notin of(x.key) /\ \A y \in of(x.key) \cup {x} : y.reported \in Totalled
    BY <1>1, <1>5
  <2>3. x.reported = bucket /\ bucket \in Totalled
    BY <1>1
  <2> HIDE DEF of
  <2>4. /\ Truth(of(x.key)) \in Totalled /\ Truth({}) = Nothing
        /\ Truth(of(x.key) \cup {x}) = Plus(Truth(of(x.key)), x.reported)
    BY <2>1, <2>2, TruthAdds
  <2> QED
    BY <2>3, <2>4, PlusType
<1>7. \A k \in {y.key : y \in counted} \cup DOMAIN days : DaysFromCivil(k) >= horizon
         => k \in DOMAIN days /\ days[k] = Truth(of(k))
  BY <1>3 DEF DaysAreTrue
<1>8. /\ DOMAIN days' = DOMAIN days \cup {x.key}
      /\ \A k \in DOMAIN days : k # x.key => days'[k] = days[k]
      /\ days'[x.key] = IF x.key \in DOMAIN days THEN Plus(days[x.key], bucket) ELSE bucket
  BY <1>1 DEF Filed
<1>9. ASSUME NEW k \in {y.key : y \in counted'} \cup DOMAIN days', DaysFromCivil(k) >= horizon
      PROVE  k \in DOMAIN days' /\ days'[k] = Truth({y \in counted' : y.key = k})
  <2>1. CASE k # x.key
    <3>1. k \in {y.key : y \in counted} \cup DOMAIN days
      BY <1>1, <1>8, <2>1
    <3>2. k \in DOMAIN days /\ days[k] = Truth(of(k))
      BY <1>7, <1>9, <3>1
    <3> HIDE DEF of
    <3> QED
      BY <1>4, <1>8, <2>1, <3>2
  <2>2. CASE k = x.key
    <3>1. CASE k \in DOMAIN days
      <4>1. days[k] = Truth(of(k))
        BY <1>7, <1>9, <3>1
      <4> HIDE DEF of
      <4> QED
        BY <1>4, <1>6, <1>8, <2>2, <3>1, <4>1
    <3>2. CASE k \notin DOMAIN days
      <4>1. of(k) = {}
        BY <1>7, <1>9, <3>2
      <4> HIDE DEF of
      <4> QED
        BY <1>4, <1>6, <1>8, <2>2, <3>2, <4>1
    <3> QED
      BY <3>1, <3>2
  <2> QED
    BY <2>1, <2>2
<1>10. DaysAreTrue' = \A k \in {y.key : y \in counted'} \cup DOMAIN days' :
                         DaysFromCivil(k) >= horizon' =>
                            /\ k \in DOMAIN days'
                            /\ days'[k] = Truth({y \in counted' : y.key = k})
  BY Zenon DEF DaysAreTrue
<1> QED
  BY <1>2, <1>9, <1>10

(* Retention forgets only what lies before the horizon.                    *)
LEMMA PruneIsTrue ==
    ASSUME HistoryInv, Prune PROVE horizon' \in Int /\ (DaysAreTrue => DaysAreTrue')
<1>1. /\ days' = Pruned(days, policy) /\ horizon' = Dropped(policy) /\ counted' = counted
  BY DEF Prune
<1>2. /\ clock \in Int /\ horizon \in Int /\ policy.offset \in Int /\ policy.retention \in Int
      /\ \A k \in DOMAIN days : IsDate(k)
      /\ \A x \in counted : IsDate(x.key)
  BY KeysAreDates DEF HistoryInv, CalendarInv, SampleInv
<1>3. /\ Dropped(policy) \in Int /\ horizon <= Dropped(policy)
      /\ DOMAIN Pruned(days, policy) \subseteq DOMAIN days
      /\ \A k \in DOMAIN days : DaysFromCivil(k) >= Dropped(policy)
            => k \in DOMAIN Pruned(days, policy) /\ Pruned(days, policy)[k] = days[k]
  BY <1>2, PrunedKeeps
<1>4. \A k \in DOMAIN days \cup {x.key : x \in counted} : DaysFromCivil(k) \in Int
  BY <1>2, DateIsFound
<1> QED
  BY <1>1, <1>2, <1>3, <1>4, KeptDaysAreTrue

(* A start fills in days that have nothing, which within the horizon are   *)
(* none: unless another boundary files the ledger by other days.           *)
LEMMA RestartIsTrue ==
    ASSUME HistoryInv, Restart
    PROVE  /\ horizon' \in Int /\ policy'.retention \in Int
           /\ ~moved' /\ DaysAreTrue => DaysAreTrue'
<1>1. PICK p \in Policies :
         /\ policy' = p
         /\ days' = Pruned(Backfilled(days, p.offset), p)
         /\ horizon' = Dropped(p)
         /\ moved' = (moved \/ \E x \in Samples : x.offset # p.offset)
         /\ counted' = counted
  BY DEF Restart
<1> DEFINE filled  == Backfilled(days, p.offset)
           missing == {DayKey(x.at, p.offset) : x \in Samples} \ DOMAIN days
<1>2. /\ clock \in Int /\ horizon \in Int /\ p.offset \in Int /\ p.retention \in Int
      /\ \A k \in DOMAIN days : IsDate(k)
      /\ \A x \in counted : /\ IsDate(x.key) /\ IsDate(DayKey(x.at, p.offset))
                           /\ x.key = DayKey(x.at, x.offset)
  BY HistoryAssumption, KeysAreDates DEF HistoryInv, CalendarInv, SampleInv
<1>3. /\ DOMAIN filled = DOMAIN days \cup missing
      /\ \A k \in DOMAIN days : filled[k] = days[k]
  BY DEF Backfilled
<1>4. \A k \in DOMAIN filled : IsDate(k)
  BY <1>2, <1>3 DEF Samples
<1> HIDE DEF filled
<1>5. /\ Dropped(p) \in Int /\ horizon <= Dropped(p)
      /\ DOMAIN Pruned(filled, p) \subseteq DOMAIN filled
      /\ \A k \in DOMAIN filled : DaysFromCivil(k) >= Dropped(p)
            => k \in DOMAIN Pruned(filled, p) /\ Pruned(filled, p)[k] = filled[k]
  BY <1>2, <1>4, PrunedKeeps
<1>6. \A k \in DOMAIN days \cup {x.key : x \in counted} : DaysFromCivil(k) \in Int
  BY <1>2, DateIsFound
<1>7. days' = Pruned(filled, p)
  BY <1>1 DEF filled
<1>8. ASSUME ~moved', DaysAreTrue PROVE DaysAreTrue'
  <2>1. \A k \in missing : \E x \in counted : k = x.key
    BY <1>1, <1>2, <1>8 DEF Samples
  <2>2. \A k \in DOMAIN days' : k \in DOMAIN days \/ \E x \in counted : k = x.key
    BY <1>3, <1>5, <1>7, <2>1
  <2>3. \A k \in DOMAIN days : DaysFromCivil(k) >= horizon' => k \in DOMAIN days' /\ days'[k] = days[k]
    BY <1>1, <1>3, <1>5, <1>7
  <2> QED
    BY <1>1, <1>2, <1>5, <1>6, <1>8, <2>2, <2>3, KeptDaysAreTrue
<1> QED
  BY <1>1, <1>2, <1>5, <1>8

(* "The same numbers ... at one moment": within the horizon every day      *)
(* counts each of its requests once, with what its stream reported.        *)
THEOREM TheHistoryIsTrue == Spec => []HistoryIsTruth
<1>1. ASSUME Init PROVE HistoryInv
  <2>1. CalendarInv /\ StreamInv /\ SampleInv
    BY <1>1, CalendarAlways, StreamsAreScanned, SamplesAreNumbered
  <2>2. horizon \in Int /\ policy.retention \in Int
    BY <1>1, HistoryAssumption DEF Init
  <2>3. DaysAreTrue
    <3>1. counted = {} /\ DOMAIN days = {}
      BY <1>1 DEF Init
    <3> QED
      BY <3>1 DEF DaysAreTrue
  <2> QED
    BY <2>1, <2>2, <2>3 DEF HistoryInv, HistoryIsTruth
<1>2. ASSUME HistoryInv, [Next]_vars PROVE HistoryInv'
  <2>1. CalendarInv' /\ StreamInv' /\ SampleInv'
    BY <1>2, CalendarAlways, StreamsAreScanned, SamplesAreNumbered DEF HistoryInv
  <2>2. (horizon \in Int /\ policy.retention \in Int)' /\ HistoryIsTruth'
    <3>1. CASE Record
      <4>1. moved' = moved /\ horizon' = horizon /\ policy' = policy
        BY <3>1 DEF Record
      <4>2. ~moved' /\ AllFit' => DaysAreTrue'
        BY <1>2, <3>1, <4>1, RecordIsTrue DEF AllFit
      <4> QED
        BY <1>2, <4>1, <4>2 DEF HistoryInv, HistoryIsTruth
    <3>2. CASE Prune
      <4>1. moved' = moved /\ counted' = counted /\ policy' = policy
        BY <3>2 DEF Prune
      <4>2. AllFit' = AllFit
        BY <4>1 DEF AllFit
      <4>3. horizon' \in Int /\ (DaysAreTrue => DaysAreTrue')
        BY <1>2, <3>2, PruneIsTrue
      <4> QED
        BY <1>2, <4>1, <4>2, <4>3 DEF HistoryInv, HistoryIsTruth
    <3>3. CASE Restart
      <4>1. counted' = counted /\ (moved => moved')
        BY <3>3 DEF Restart
      <4>2. AllFit' = AllFit
        BY <4>1 DEF AllFit
      <4>3. /\ horizon' \in Int /\ policy'.retention \in Int
            /\ ~moved' /\ DaysAreTrue => DaysAreTrue'
        BY <1>2, <3>3, RestartIsTrue
      <4> QED
        BY <1>2, <4>1, <4>2, <4>3 DEF HistoryInv, HistoryIsTruth
    <3>4. CASE UNCHANGED <<moved, counted, days, horizon>> /\ policy'.retention \in Int
      BY <1>2, <3>4 DEF HistoryInv, HistoryIsTruth, DaysAreTrue, AllFit
    <3>5. SetPolicy => policy'.retention \in Int
      BY HistoryAssumption DEF SetPolicy
    <3> QED
      BY <1>2, <3>1, <3>2, <3>3, <3>4, <3>5
         DEF Next, Begin, Piece, SetPolicy, Tick, vars, HistoryInv
  <2> QED
    BY <2>1, <2>2 DEF HistoryInv
<1>3. HistoryInv => HistoryIsTruth
  BY DEF HistoryInv
<1> QED
  BY <1>1, <1>2, <1>3, PTL DEF Spec
=============================================================================
