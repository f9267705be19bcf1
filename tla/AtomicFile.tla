------------------------------ MODULE AtomicFile ------------------------------
(***************************************************************************)
(* How the router replaces a file: persist::save, and with the same steps  *)
(* configwrite::save and configbackup::write.  A save creates a temporary  *)
(* file whose name is fixed, writes the document to it, syncs it and       *)
(* renames it over the target.  No lock keeps two threads from saving the  *)
(* same file at once.                                                      *)
(*                                                                         *)
(* A file is an inode; a name stands for an inode or for none, and a       *)
(* thread that has a file open goes on writing to the inode whatever       *)
(* becomes of its name.  A document is a number of equal blocks: write_all *)
(* may need several writes.  The rename is taken as durable once made.     *)
(***************************************************************************)
EXTENDS Naturals, Sequences

CONSTANTS Writers,      \* threads that save
          Docs,         \* documents they may save
          NoDoc,        \* none of them
          Torn,         \* a text that is none of them
          Blocks,       \* the length of each document
          Inodes,
          NoInode,
          InitialDocs   \* what the file may hold before the first save

ASSUME FileAssumption ==
  /\ Blocks \in [Docs -> Nat \ {0}]
  /\ NoDoc \notin Docs
  /\ NoInode \notin Inodes
  /\ InitialDocs \subseteq Docs

VARIABLES tmp,      \* what the temporary name stands for
          path,     \* what the target's name stands for
          text,     \* the blocks of each inode
          synced,   \* inodes whose blocks would survive a power cut
          saver,    \* per thread: its place in save, and its locals
          clash     \* for the properties: two saves have overlapped

fileVars == <<tmp, path, text, synced, saver, clash>>

\* A block that was never written: a gap left by a truncation.
Hole == NoDoc

Idle == [pc |-> "idle", doc |-> NoDoc, fd |-> NoInode, at |-> 0]

Active(w) == saver[w].pc # "idle"

\* The text of a whole document.
Full(d) == [i \in 1..Blocks[d] |-> d]

Whole(s) == s # <<>> /\ s[1] \in Docs /\ s = Full(s[1])

\* The text after a write of d's k-th block at its place.
Overwrite(s, k, d) ==
  [i \in 1..(IF k > Len(s) THEN k ELSE Len(s)) |->
     IF i = k THEN d ELSE IF i <= Len(s) THEN s[i] ELSE Hole]

FileTypeOK ==
  /\ tmp \in Inodes \cup {NoInode}
  /\ path \in Inodes \cup {NoInode}
  /\ text \in [Inodes -> Seq(Docs \cup {Hole})]
  /\ synced \subseteq Inodes
  /\ saver \in [Writers -> [pc : {"idle", "write", "sync", "rename"},
                            doc : Docs \cup {NoDoc},
                            fd : Inodes \cup {NoInode}, at : Nat]]
  /\ clash \in BOOLEAN

FileInit ==
  /\ tmp = NoInode
  /\ \/ path = NoInode /\ text = [i \in Inodes |-> <<>>]
     \/ \E d \in InitialDocs :
          /\ path = CHOOSE i \in Inodes : TRUE
          /\ path \in Inodes
          /\ text = [i \in Inodes |-> IF i = path THEN Full(d) ELSE <<>>]
  /\ synced = Inodes
  /\ saver = [w \in Writers |-> Idle]
  /\ clash = FALSE

Free == Inodes \ ({tmp, path} \cup {saver[w].fd : w \in Writers})

\* File::create: the inode the temporary name stands for is emptied, also
\* under a thread that has it open; without one a new inode gets the name.
Create(w, d) ==
  LET i == IF tmp # NoInode THEN tmp ELSE CHOOSE j \in Free : TRUE
  IN  /\ ~Active(w)
      /\ tmp # NoInode \/ Free # {}
      /\ tmp' = i
      /\ text' = [text EXCEPT ![i] = <<>>]
      /\ synced' = synced \ {i}
      /\ saver' = [saver EXCEPT ![w] = [pc |-> "write", doc |-> d, fd |-> i, at |-> 0]]
      /\ clash' = (clash \/ \E v \in Writers \ {w} : Active(v))
      /\ UNCHANGED path

\* One write of write_all, at this thread's own place in the file.
Write(w) ==
  LET s == saver[w]
      k == s.at + 1
  IN  /\ s.pc = "write"
      /\ text' = [text EXCEPT ![s.fd] = Overwrite(@, k, s.doc)]
      /\ synced' = synced \ {s.fd}
      /\ saver' = [saver EXCEPT ![w] =
                     [pc |-> IF k = Blocks[s.doc] THEN "sync" ELSE "write",
                      doc |-> s.doc, fd |-> s.fd, at |-> k]]
      /\ UNCHANGED <<tmp, path, clash>>

\* Mutant: the save does not sync.
SyncLeftOut(w) ==
  /\ saver[w].pc = "sync"
  /\ saver' = [saver EXCEPT ![w].pc = "rename"]
  /\ UNCHANGED <<tmp, path, text, synced, clash>>

\* sync_all
Sync(w) ==
  /\ saver[w].pc = "sync"
  /\ synced' = synced \cup {saver[w].fd}
  /\ saver' = [saver EXCEPT ![w].pc = "rename"]
  /\ UNCHANGED <<tmp, path, text, clash>>

\* rename: by name, not by the inode this thread wrote; when another thread
\* has taken the name away it fails.  The inode that loses its name is gone
\* unless somebody has it open.
Rename(w) ==
  LET lost == {path} \ {saver[v].fd : v \in Writers}
  IN  /\ saver[w].pc = "rename"
      /\ IF tmp # NoInode
         THEN /\ path' = tmp
              /\ text' = [i \in Inodes |-> IF i \in lost THEN <<>> ELSE text[i]]
              /\ synced' = synced \cup (lost \cap Inodes)
         ELSE UNCHANGED <<path, text, synced>>
      /\ tmp' = NoInode
      /\ saver' = [saver EXCEPT ![w] = Idle]
      /\ UNCHANGED clash

\* A step of the save reports an error and the save gives up.  What it has
\* written stays where it is.
FailSave(w) ==
  /\ Active(w)
  /\ saver' = [saver EXCEPT ![w] = Idle]
  /\ UNCHANGED <<tmp, path, text, synced, clash>>

\* The process dies; what it has written is in the system's hands.
Kill ==
  /\ saver' = [w \in Writers |-> Idle]
  /\ UNCHANGED <<tmp, path, text, synced, clash>>

\* The machine dies: blocks that were not synced may be gone.
PowerCut ==
  /\ saver' = [w \in Writers |-> Idle]
  /\ \E kept \in SUBSET (Inodes \ synced) :
       text' = [i \in Inodes |-> IF i \in synced \cup kept THEN text[i] ELSE <<>>]
  /\ synced' = Inodes
  /\ UNCHANGED <<tmp, path, clash>>

\* load: a file that does not parse is moved aside.
LoadFile ==
  /\ \A w \in Writers : ~Active(w)
  /\ path' = IF path # NoInode /\ ~Whole(text[path]) THEN NoInode ELSE path
  /\ UNCHANGED <<tmp, text, synced, saver, clash>>

FileNext ==
  \/ \E w \in Writers :
       \/ \E d \in Docs : Create(w, d)
       \/ Write(w) \/ Sync(w) \/ Rename(w) \/ FailSave(w)
  \/ Kill \/ PowerCut \/ LoadFile

FileSpec == FileInit /\ [][FileNext]_fileVars

-----------------------------------------------------------------------------
\* What a reader of the file gets.
Stored ==
  IF path = NoInode THEN NoDoc
  ELSE IF Whole(text[path]) THEN text[path][1]
  ELSE Torn

\* What each thread is saving.
Offered == [w \in Writers |-> saver[w].doc]

Register == INSTANCE AtomicRegister WITH value <- Stored, offer <- Offered

\* "Serialise + atomic replace" (persist.rs): until two saves overlap, a
\* reader gets a document that was saved, whole, after any sequence of failed
\* saves, kills and power cuts.
ImplementsRegister == Register!RegisterSpec

=============================================================================
