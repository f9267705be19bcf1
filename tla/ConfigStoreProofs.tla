--------------------------- MODULE ConfigStoreProofs ---------------------------
(***************************************************************************)
(* Theorems about ConfigStore, for any number of consoles, any texts and   *)
(* any number of calls, edits, failures and restarts.                      *)
(***************************************************************************)
EXTENDS ConfigStore, FoldFacts, FunctionTheorems

(* What a thread's job holds at each of its steps.                         *)
Calls == {"compose", "copy", "name", "put", "fetch", "write"}
IsCall(j) ==
    /\ j.at \in Calls /\ j.must \in BOOLEAN
    /\ j = [at |-> j.at, tag |-> j.tag, must |-> j.must, text |-> j.text,
            from |-> j.from, read |-> j.read, under |-> j.under, kept |-> j.kept]
IsBuild(j) ==
    /\ j.at = "build" /\ j.late \in BOOLEAN
    /\ j = [at |-> j.at, conf |-> j.conf, late |-> j.late]
IsInstall(j) ==
    /\ j.at \in {"retain", "config", "accounts"} /\ j.late \in BOOLEAN
    /\ j = [at |-> j.at, conf |-> j.conf, late |-> j.late, rts |-> j.rts]
    /\ j.rts = [n \in NamesOf(j.conf.accounts) |-> j.rts[n]]

IsJob(j) == j = Idle \/ j = [at |-> "load"] \/ IsCall(j) \/ IsBuild(j) \/ IsInstall(j)

JobsShaped ==
    /\ job = [t \in Threads |-> job[t]]
    /\ \A t \in Threads : IsJob(job[t])
    /\ overtaken \in [config : BOOLEAN, accounts : BOOLEAN, met : BOOLEAN]

(* A name that a thread has chosen and not yet written under; a text that  *)
(* is in a backup nobody is about to write over.                           *)
Chosen(t, name) == job[t].at = "put" /\ job[t].under = name
Kept(text) ==
    \E b \in DOMAIN backups : backups[b] = text /\ \A t \in Threads : ~Chosen(t, b)

(* What a call relies on to be kept: what it has read and is about to      *)
(* write under a name that is free and no other thread's, then a backup.   *)
KeptBy(t) ==
    /\ job[t].at \in {"compose", "copy"} => \A text : text \notin job[t].kept
    /\ job[t].at = "name" => \A text \in job[t].kept : text = job[t].read
    /\ job[t].at = "put" => \A text \in job[t].kept :
          /\ text = job[t].read /\ job[t].under \notin DOMAIN backups
          /\ \A u \in Threads \ {t} : ~Chosen(u, job[t].under)
    /\ job[t].at \in {"fetch", "write"} => \A text \in job[t].kept : Kept(text)

KeptIsKept ==
    /\ IsFiniteSet(DOMAIN backups)
    /\ backups = [b \in DOMAIN backups |-> backups[b]]
    /\ \A text \in owed : Kept(text)
    /\ \A t \in Threads : KeptBy(t)

(* The file may hold what nobody has loaded yet.                           *)
NewsOnFile ==
    \/ \E t \in Threads : job[t].at = "load"
    \/ Signature(file) # Signature(seen)
    \/ unseen
    \/ ~Parses(file.text)

(* The reload that has loaded last.                                        *)
Newest(t) == job[t].at \in Loaders /\ ~job[t].late

OneNewest == \A t, u \in Threads : Newest(t) /\ Newest(u) => t = u

TruthOnItsWay ==
    NewsOnFile \/
        /\ \A t \in Threads : Newest(t) => job[t].conf = Parse(file.text)
        /\ \/ \E t \in Threads : Newest(t) /\ job[t].at # "accounts"
           \/ overtaken.config
           \/ cfg = Parse(file.text)
        /\ \/ \E t \in Threads : Newest(t)
           \/ overtaken.accounts
           \/ accounts.list = Parse(file.text).accounts

(* As long as no two reloads met.                                          *)
OneRegistry ==
    ~overtaken.met =>
        /\ \A t, u \in Threads : job[t].at \in Loaders /\ job[u].at \in Loaders => t = u
        /\ (\A t \in Threads : job[t].at \notin {"retain", "config", "accounts"}) =>
              accounts.rts = registry
        /\ \A t \in Threads :
              /\ job[t].at = "retain" =>
                    \A n \in DOMAIN job[t].rts : n \in DOMAIN registry /\ registry[n] = job[t].rts[n]
              /\ job[t].at \in {"config", "accounts"} => registry = job[t].rts

-----------------------------------------------------------------------------
(* Jobs                                                                    *)

(* A call under way with other fields.                                     *)
CallWith(j, at, text, read, nm, kept) ==
    [at |-> at, tag |-> j.tag, must |-> j.must, text |-> text,
     from |-> j.from, read |-> read, under |-> nm, kept |-> kept]

LEMMA CallFields ==
    ASSUME NEW j, IsCall(j), NEW at \in Calls, NEW text, NEW read, NEW nm, NEW kept,
           NEW e, e = CallWith(j, at, text, read, nm, kept)
    PROVE  /\ IsCall(e) /\ e.at = at /\ e.text = text /\ e.read = read /\ e.under = nm
           /\ e.kept = kept /\ e.must = j.must /\ e.from = j.from /\ e.tag = j.tag
<1>1. /\ e.at = at /\ e.text = text /\ e.read = read /\ e.under = nm
      /\ e.kept = kept /\ e.must = j.must /\ e.from = j.from /\ e.tag = j.tag
  BY DEF CallWith
<1>2. e = [at |-> e.at, tag |-> e.tag, must |-> e.must, text |-> e.text,
           from |-> e.from, read |-> e.read, under |-> e.under, kept |-> e.kept]
  BY <1>1, Zenon DEF CallWith
<1>3. e.must \in BOOLEAN
  BY <1>1 DEF IsCall
<1> QED
  BY <1>1, <1>2, <1>3 DEF IsCall

(* The ways a step changes a call.                                         *)
LEMMA AtChanged ==
    ASSUME NEW j, NEW at, NEW text, NEW read, NEW nm, NEW kept, NEW x,
           NEW e, e = CallWith(j, at, text, read, nm, kept)
    PROVE  [e EXCEPT !.at = x] = CallWith(j, x, text, read, nm, kept)
<1> DEFINE must == j.must
           c(a, tx, rd, na, kp) == [at |-> a, tag |-> j.tag, must |-> must, text |-> tx,
                                    from |-> j.from, read |-> rd, under |-> na, kept |-> kp]
<1>0. \A a, tx, rd, na, kp : CallWith(j, a, tx, rd, na, kp) = c(a, tx, rd, na, kp)
  BY Zenon DEF CallWith
<1> HIDE DEF must
<1>1. [c(at, text, read, nm, kept) EXCEPT !.at = x] = c(x, text, read, nm, kept)
  OBVIOUS
<1> HIDE DEF c
<1>2. e = c(at, text, read, nm, kept)
  BY <1>0
<1> QED
  BY <1>0, <1>1, <1>2

LEMMA TextChanged ==
    ASSUME NEW j, NEW at, NEW text, NEW read, NEW nm, NEW kept, NEW x,
           NEW e, e = CallWith(j, at, text, read, nm, kept)
    PROVE  [e EXCEPT !.text = x] = CallWith(j, at, x, read, nm, kept)
<1> DEFINE must == j.must
           c(a, tx, rd, na, kp) == [at |-> a, tag |-> j.tag, must |-> must, text |-> tx,
                                    from |-> j.from, read |-> rd, under |-> na, kept |-> kp]
<1>0. \A a, tx, rd, na, kp : CallWith(j, a, tx, rd, na, kp) = c(a, tx, rd, na, kp)
  BY Zenon DEF CallWith
<1> HIDE DEF must
<1>1. [c(at, text, read, nm, kept) EXCEPT !.text = x] = c(at, x, read, nm, kept)
  OBVIOUS
<1> HIDE DEF c
<1>2. e = c(at, text, read, nm, kept)
  BY <1>0
<1> QED
  BY <1>0, <1>1, <1>2

LEMMA ReadChanged ==
    ASSUME NEW j, NEW at, NEW text, NEW read, NEW nm, NEW kept, NEW x,
           NEW e, e = CallWith(j, at, text, read, nm, kept)
    PROVE  [e EXCEPT !.read = x] = CallWith(j, at, text, x, nm, kept)
<1> DEFINE must == j.must
           c(a, tx, rd, na, kp) == [at |-> a, tag |-> j.tag, must |-> must, text |-> tx,
                                    from |-> j.from, read |-> rd, under |-> na, kept |-> kp]
<1>0. \A a, tx, rd, na, kp : CallWith(j, a, tx, rd, na, kp) = c(a, tx, rd, na, kp)
  BY Zenon DEF CallWith
<1> HIDE DEF must
<1>1. [c(at, text, read, nm, kept) EXCEPT !.read = x] = c(at, text, x, nm, kept)
  OBVIOUS
<1> HIDE DEF c
<1>2. e = c(at, text, read, nm, kept)
  BY <1>0
<1> QED
  BY <1>0, <1>1, <1>2

LEMMA NameChanged ==
    ASSUME NEW j, NEW at, NEW text, NEW read, NEW nm, NEW kept, NEW x,
           NEW e, e = CallWith(j, at, text, read, nm, kept)
    PROVE  [e EXCEPT !.under = x] = CallWith(j, at, text, read, x, kept)
<1> DEFINE must == j.must
           c(a, tx, rd, na, kp) == [at |-> a, tag |-> j.tag, must |-> must, text |-> tx,
                                    from |-> j.from, read |-> rd, under |-> na, kept |-> kp]
<1>0. \A a, tx, rd, na, kp : CallWith(j, a, tx, rd, na, kp) = c(a, tx, rd, na, kp)
  BY Zenon DEF CallWith
<1> HIDE DEF must
<1>1. [c(at, text, read, nm, kept) EXCEPT !.under = x] = c(at, text, read, x, kept)
  OBVIOUS
<1> HIDE DEF c
<1>2. e = c(at, text, read, nm, kept)
  BY <1>0
<1> QED
  BY <1>0, <1>1, <1>2

LEMMA KeptChanged ==
    ASSUME NEW j, NEW at, NEW text, NEW read, NEW nm, NEW kept, NEW x,
           NEW e, e = CallWith(j, at, text, read, nm, kept)
    PROVE  [e EXCEPT !.kept = x] = CallWith(j, at, text, read, nm, x)
<1> DEFINE must == j.must
           c(a, tx, rd, na, kp) == [at |-> a, tag |-> j.tag, must |-> must, text |-> tx,
                                    from |-> j.from, read |-> rd, under |-> na, kept |-> kp]
<1>0. \A a, tx, rd, na, kp : CallWith(j, a, tx, rd, na, kp) = c(a, tx, rd, na, kp)
  BY Zenon DEF CallWith
<1> HIDE DEF must
<1>1. [c(at, text, read, nm, kept) EXCEPT !.kept = x] = c(at, text, read, nm, x)
  OBVIOUS
<1> HIDE DEF c
<1>2. e = c(at, text, read, nm, kept)
  BY <1>0
<1> QED
  BY <1>0, <1>1, <1>2

LEMMA CallIsWith ==
    ASSUME NEW j, IsCall(j)
    PROVE  j = CallWith(j, j.at, j.text, j.read, j.under, j.kept)
BY Zenon DEF IsCall, CallWith

LEMMA MovedOn ==
    ASSUME NEW j, IsCall(j), NEW at
    PROVE  [j EXCEPT !.at = at] = CallWith(j, at, j.text, j.read, j.under, j.kept)
BY CallIsWith, AtChanged

LEMMA MovedOnWithText ==
    ASSUME NEW j, IsCall(j), NEW at, NEW text
    PROVE  [j EXCEPT !.at = at, !.text = text] =
              CallWith(j, at, text, j.read, j.under, j.kept)
<1> DEFINE j1 == [j EXCEPT !.at = at]
<1>1. j1 = CallWith(j, at, j.text, j.read, j.under, j.kept)
  BY MovedOn
<1> HIDE DEF j1
<1>2. [j1 EXCEPT !.text = text] = CallWith(j, at, text, j.read, j.under, j.kept)
  BY <1>1, TextChanged
<1> QED
  BY Zenon, <1>2 DEF j1

LEMMA MovedOnWithKept ==
    ASSUME NEW j, IsCall(j), NEW at, NEW kept
    PROVE  [j EXCEPT !.at = at, !.kept = kept] =
              CallWith(j, at, j.text, j.read, j.under, kept)
<1> DEFINE j1 == [j EXCEPT !.at = at]
<1>1. j1 = CallWith(j, at, j.text, j.read, j.under, j.kept)
  BY MovedOn
<1> HIDE DEF j1
<1>2. [j1 EXCEPT !.kept = kept] = CallWith(j, at, j.text, j.read, j.under, kept)
  BY <1>1, KeptChanged
<1> QED
  BY Zenon, <1>2 DEF j1

LEMMA ReliesOn ==
    ASSUME NEW j, IsCall(j), NEW kept
    PROVE  [j EXCEPT !.kept = kept] = CallWith(j, j.at, j.text, j.read, j.under, kept)
BY CallIsWith, KeptChanged

(* When one thread's job changes, the others keep theirs.                  *)
LEMMA JobAt ==
    ASSUME JobsShaped, NEW t \in Threads, NEW j, job' = [job EXCEPT ![t] = j]
    PROVE  /\ job' = [u \in Threads |-> job'[u]]
           /\ job'[t] = j /\ \A u \in Threads \ {t} : job'[u] = job[u]
<1>1. DOMAIN job = Threads
  BY DEF JobsShaped
<1> QED
  BY <1>1

(* A set of naturals that is not empty has a least member.                 *)
LEMMA MinIsLeast ==
    ASSUME NEW S \in SUBSET Nat, S # {}
    PROVE  Min(S) \in S /\ \A y \in S : Min(S) <= y
<1> DEFINE R == OpToRel(<, Nat)
<1>1. IsWellFoundedOn(R, Nat)
  BY NatLessThanWellFounded
<1>2. R = {ss \in Nat \X Nat : ss[1] < ss[2]}
  BY DEF OpToRel
<1> HIDE DEF R
<1>3. PICK x \in S : \A y \in S : ~(<<y, x>> \in R)
  BY <1>1, WFMin
<1>4. ASSUME NEW y \in S PROVE x <= y
  <2>1. x \in Nat /\ y \in Nat /\ <<y, x>> \in Nat \X Nat
    OBVIOUS
  <2>2. ~(<<y, x>>[1] < <<y, x>>[2])
    BY <1>2, <1>3, <2>1
  <2> QED
    BY <2>1, <2>2
<1> QED
  BY <1>4 DEF Min

(* A fresh backup name is found among the first few, so no backup is       *)
(* written over.                                                           *)
LEMMA BackupNameIsFree ==
    ASSUME NEW tag, IsFiniteSet(DOMAIN backups)
    PROVE  BackupName(tag) \notin DOMAIN backups
<1> DEFINE taken    == DOMAIN backups
           c        == Cardinality(taken)
           named(n) == [at |-> clock, tag |-> tag, n |-> n]
           A        == 2..c + 2
           free     == {n \in {0} \cup A : named(n) \notin taken}
<1>1. c \in Nat
  BY FS_CardinalityType
<1>2. free # {}
  <2> SUFFICES ASSUME \A n \in {0} \cup A : named(n) \in taken
               PROVE  FALSE
    OBVIOUS
  <2> DEFINE f == [n \in A |-> named(n)]
  <2>1. \A m, n \in A : f[m] = f[n] => m = n
    <3> SUFFICES ASSUME NEW m \in A, NEW n \in A, f[m] = f[n]
                 PROVE  m = n
      OBVIOUS
    <3>1. named(m).n = named(n).n
      BY Zenon
    <3> QED
      BY <3>1
  <2>2. f \in [A -> taken]
    OBVIOUS
  <2>3. \A k \in Nat : IsFiniteSet(2..k + 2) /\ Cardinality(2..k + 2) = k + 1
    BY FS_Interval
  <2> HIDE DEF A, f
  <2>4. f \in Injection(A, taken)
    BY <2>1, <2>2 DEF Injection, IsInjective
  <2>5. Cardinality(A) <= c
    BY <2>4, FS_Injection
  <2>6. Cardinality(A) = c + 1
    BY <1>1, <2>3 DEF A
  <2> QED
    BY <1>1, <2>5, <2>6
<1>3. free \subseteq Nat
  BY <1>1
<1> HIDE DEF free
<1>4. Min(free) \in free
  BY <1>2, <1>3, MinIsLeast
<1>5. named(Min(free)) \notin taken
  BY <1>4 DEF free
<1> QED
  BY <1>5 DEF BackupName, free

(* The steps of a console that change its own job and nothing else.        *)
Pen(t) ==
    \/ SaveFromJson(t) \/ SaveText(t) \/ ChangeAccounts(t) \/ Compose(t)
    \/ RestoreBackup(t) \/ FetchBackup(t) \/ WriteFails(t)

(* Such a step relies on no text it did not rely on before.                *)
PenMoves(t, j) ==
    /\ job[t] = Idle \/ IsCall(job[t])
    /\ j = Idle \/ IsCall(j)
    /\ job' = [job EXCEPT ![t] = j]
    /\ \/ j = Idle
       \/ j.kept = {} /\ j.at # "put"
       \/ /\ IsCall(job[t]) /\ j.kept = job[t].kept
          /\ \/ job[t].at = "compose" /\ j.at = "copy"
             \/ job[t].at = "fetch" /\ j.at = "write"
    /\ UNCHANGED <<files, live, seen, ghost>>

(* A call that begins is a step of that thread's job alone.                *)
LEMMA Begun ==
    ASSUME NEW t \in Threads, job[t] = Idle,
           NEW at \in Calls \ {"put"}, NEW tag, NEW must \in BOOLEAN, NEW text, NEW from,
           Begin(t, at, tag, must, text, from), UNCHANGED <<files, live, seen, ghost>>
    PROVE  \E j : PenMoves(t, j)
<1> DEFINE j == [at |-> at, tag |-> tag, must |-> must, text |-> text, from |-> from,
                 read |-> Broken, under |-> NoBackup, kept |-> {}]
<1>1. /\ j.at = at /\ j.tag = tag /\ j.must = must /\ j.text = text /\ j.from = from
      /\ j.read = Broken /\ j.under = NoBackup /\ j.kept = {}
  OBVIOUS
<1>2. IsCall(j)
  BY DEF IsCall
<1>3. job' = [job EXCEPT ![t] = j]
  BY DEF Begin
<1> HIDE DEF j
<1>4. PenMoves(t, j)
  BY <1>1, <1>2, <1>3 DEF PenMoves
<1> QED
  BY <1>4

(* A job at a place of a call is a call.                                   *)
LEMMA CallAt ==
    ASSUME JobsShaped, NEW t \in Threads, job[t].at \in Calls
    PROVE  IsCall(job[t])
<1>1. job[t] # Idle /\ job[t] # [at |-> "load"]
  BY DEF Idle, Calls
<1>2. ~IsBuild(job[t]) /\ ~IsInstall(job[t])
  BY DEF IsBuild, IsInstall, Calls
<1> QED
  BY <1>1, <1>2 DEF JobsShaped, IsJob

(* A call that goes on with another text.                                  *)
LEMMA GoesOnWith ==
    ASSUME NEW t \in Threads, IsCall(job[t]), NEW at \in Calls, NEW text,
           (job[t].at = "compose" /\ at = "copy") \/ (job[t].at = "fetch" /\ at = "write"),
           job' = [job EXCEPT ![t] = [job[t] EXCEPT !.at = at, !.text = text]],
           UNCHANGED <<files, live, seen, ghost>>
    PROVE  \E j : PenMoves(t, j) /\ IsCall(j) /\ j.at = at /\ j.text = text
<1> DEFINE c == job[t]
           j == [c EXCEPT !.at = at, !.text = text]
<1>0. IsCall(c)
  OBVIOUS
<1>1. j = CallWith(c, at, text, c.read, c.under, c.kept)
  <2> HIDE DEF c
  <2> QED
    BY <1>0, MovedOnWithText
<1>2. job' = [job EXCEPT ![t] = j]
  OBVIOUS
<1> HIDE DEF j
<1>3. IsCall(j) /\ j.at = at /\ j.text = text /\ j.kept = c.kept
  BY <1>1, CallFields
<1>4. PenMoves(t, j)
  BY <1>2, <1>3 DEF PenMoves
<1> QED
  BY <1>3, <1>4

(* A step of a call that holds no lock moves only that call.               *)
LEMMA PenSteps ==
    ASSUME JobsShaped, NEW t \in Threads, Pen(t)
    PROVE  \E j : PenMoves(t, j)
<1>0. DOMAIN job = Threads
  BY DEF JobsShaped
<1>1. CASE SaveFromJson(t)
  <2>1. PICK doc \in EditedDocs :
            Begin(t, "copy", "autosave", FALSE, DocToYaml(doc, cfg), NoBackup)
    BY <1>1 DEF SaveFromJson
  <2>2. job[t] = Idle /\ UNCHANGED <<files, live, seen, ghost>>
    BY <1>1 DEF SaveFromJson, Call
  <2>3. "copy" \in Calls \ {"put"}
    BY DEF Calls
  <2> QED
    BY <2>1, <2>2, <2>3, Begun
<1>2. CASE SaveText(t)
  <2>1. PICK text \in HandTexts \cup {BuildDoc(cfg)}, at \in {"copy", "write"} :
            Begin(t, at, "pre-raw-edit", FALSE, text, NoBackup)
    BY <1>2 DEF SaveText
  <2>2. job[t] = Idle /\ UNCHANGED <<files, live, seen, ghost>>
    BY <1>2 DEF SaveText, Call
  <2>3. at \in Calls \ {"put"}
    BY DEF Calls
  <2> QED
    BY <2>1, <2>2, <2>3, Begun
<1>3. CASE ChangeAccounts(t)
  <2>1. PICK i \in DOMAIN cfg.accounts :
          \/ \E enabled \in BOOLEAN :
                Begin(t, "compose", "pre-toggle", TRUE, Toggled(cfg, i, enabled), NoBackup)
          \/ \E base \in {CopyOf(cfg.accounts[i].name)} \cup NewNames :
                Begin(t, "compose", "pre-duplicate", TRUE, Duplicated(cfg, i, base), NoBackup)
    BY <1>3 DEF ChangeAccounts
  <2>2. job[t] = Idle /\ UNCHANGED <<files, live, seen, ghost>>
    BY <1>3 DEF ChangeAccounts, Call
  <2>3. "compose" \in Calls \ {"put"}
    BY DEF Calls
  <2>4. CASE \E enabled \in BOOLEAN :
                Begin(t, "compose", "pre-toggle", TRUE, Toggled(cfg, i, enabled), NoBackup)
    BY <2>2, <2>3, <2>4, Begun
  <2>5. CASE \E base \in {CopyOf(cfg.accounts[i].name)} \cup NewNames :
                Begin(t, "compose", "pre-duplicate", TRUE, Duplicated(cfg, i, base), NoBackup)
    BY <2>2, <2>3, <2>5, Begun
  <2> QED
    BY <2>1, <2>4, <2>5
<1>4. CASE Compose(t)
  <2> DEFINE text == Persisted(job[t].text)
  <2>1. job[t].at = "compose" /\ "copy" \in Calls /\ job[t].at \in Calls
    BY <1>4 DEF Compose, Calls
  <2>2. IsCall(job[t])
    BY <2>1, CallAt
  <2>3. /\ UNCHANGED <<files, live, seen, ghost>>
        /\ \/ job' = [job EXCEPT ![t] = Idle]
           \/ job' = [job EXCEPT ![t] = [job[t] EXCEPT !.at = "copy", !.text = text]]
    BY <1>0, <1>4 DEF Compose
  <2> HIDE DEF text
  <2>4. CASE job' = [job EXCEPT ![t] = Idle]
    <3>1. PenMoves(t, Idle)
      BY <2>2, <2>3, <2>4 DEF PenMoves
    <3> QED
      BY <3>1
  <2>5. CASE job' = [job EXCEPT ![t] = [job[t] EXCEPT !.at = "copy", !.text = text]]
    BY <2>1, <2>2, <2>3, <2>5, GoesOnWith
  <2> QED
    BY <2>3, <2>4, <2>5
<1>5. CASE RestoreBackup(t)
  <2>1. PICK b \in DOMAIN backups : Begin(t, "copy", "pre-restore", TRUE, Broken, b)
    BY <1>5 DEF RestoreBackup
  <2>2. job[t] = Idle /\ UNCHANGED <<files, live, seen, ghost>>
    BY <1>5 DEF RestoreBackup, Call
  <2>3. "copy" \in Calls \ {"put"}
    BY DEF Calls
  <2> QED
    BY <2>1, <2>2, <2>3, Begun
<1>6. CASE FetchBackup(t)
  <2> DEFINE text == backups[job[t].from]
  <2>1. job[t].at = "fetch" /\ "write" \in Calls /\ job[t].at \in Calls
    BY <1>6 DEF FetchBackup, Calls
  <2>2. IsCall(job[t])
    BY <2>1, CallAt
  <2>3. /\ UNCHANGED <<files, live, seen, ghost>>
        /\ \/ job' = [job EXCEPT ![t] = Idle]
           \/ job' = [job EXCEPT ![t] = [job[t] EXCEPT !.at = "write", !.text = text]]
    BY <1>0, <1>6 DEF FetchBackup
  <2> HIDE DEF text
  <2>4. CASE job' = [job EXCEPT ![t] = Idle]
    <3>1. PenMoves(t, Idle)
      BY <2>2, <2>3, <2>4 DEF PenMoves
    <3> QED
      BY <3>1
  <2>5. CASE job' = [job EXCEPT ![t] = [job[t] EXCEPT !.at = "write", !.text = text]]
    BY <2>1, <2>2, <2>3, <2>5, GoesOnWith
  <2> QED
    BY <2>3, <2>4, <2>5
<1>7. CASE WriteFails(t)
  <2>1. job[t].at \in Calls
    BY <1>7 DEF WriteFails, Calls
  <2>2. IsCall(job[t])
    BY <2>1, CallAt
  <2>3. PenMoves(t, Idle)
    BY <1>7, <2>2 DEF PenMoves, WriteFails
  <2> QED
    BY <2>3
<1> QED
  BY <1>1, <1>2, <1>3, <1>4, <1>5, <1>6, <1>7 DEF Pen

(* The steps of a reload.                                                  *)
LEMMA LoaderAt ==
    ASSUME JobsShaped, NEW t \in Threads
    PROVE  /\ job[t].at = "build" => IsBuild(job[t])
           /\ job[t].at \in {"retain", "config", "accounts"} => IsInstall(job[t])
           /\ job[t].at \in Loaders => IsBuild(job[t]) \/ IsInstall(job[t])
<1>1. IsJob(job[t])
  BY DEF JobsShaped
<1> QED
  BY <1>1 DEF IsJob, Idle, IsCall, IsBuild, IsInstall, Calls, Loaders

(* A reload that was overtaken is still the reload it was, marked late.    *)
LEMMA LateJob ==
    ASSUME NEW j, IsBuild(j) \/ IsInstall(j), NEW e, e = [j EXCEPT !.late = TRUE]
    PROVE  /\ e.at = j.at /\ e.conf = j.conf /\ e.late = TRUE
           /\ IsBuild(j) => IsBuild(e)
           /\ IsInstall(j) => IsInstall(e) /\ e.rts = j.rts
<1>1. CASE IsBuild(j)
  <2>1. e = [at |-> j.at, conf |-> j.conf, late |-> TRUE]
    BY <1>1 DEF IsBuild
  <2> QED
    BY <1>1, <2>1 DEF IsBuild, IsInstall
<1>2. CASE IsInstall(j)
  <2>1. e = [at |-> j.at, conf |-> j.conf, late |-> TRUE, rts |-> j.rts]
    BY <1>2 DEF IsInstall
  <2>2. e.at = j.at /\ e.conf = j.conf /\ e.late = TRUE /\ e.rts = j.rts
    BY <2>1
  <2>3. IsInstall(e)
    BY <1>2, <2>1, <2>2 DEF IsInstall
  <2> QED
    BY <1>2, <2>2, <2>3 DEF IsBuild, IsInstall
<1> QED
  BY <1>1, <1>2

(* A reload that goes on keeps what it has read and built.                 *)
LEMMA NextStage ==
    ASSUME NEW j, IsInstall(j), NEW at \in {"config", "accounts"},
           NEW e, e = [j EXCEPT !.at = at]
    PROVE  /\ IsInstall(e) /\ e.at = at
           /\ e.conf = j.conf /\ e.late = j.late /\ e.rts = j.rts
<1>1. e = [at |-> at, conf |-> j.conf, late |-> j.late, rts |-> j.rts]
  BY DEF IsInstall
<1>2. e.at = at /\ e.conf = j.conf /\ e.late = j.late /\ e.rts = j.rts
  BY <1>1
<1>3. IsInstall(e)
  BY <1>1, <1>2 DEF IsInstall
<1> QED
  BY <1>2, <1>3

(* What is left of a reload that another one outran.                       *)
Aged(e, j) ==
    /\ e.at = j.at /\ e.conf = j.conf /\ e.late = TRUE
    /\ IsBuild(j) => IsBuild(e)
    /\ IsInstall(j) => IsInstall(e) /\ e.rts = j.rts

(* A load gives up on a text that does not parse, or reads it and makes    *)
(* every reload that is under way late.                                    *)
LEMMA LoadStep ==
    ASSUME JobsShaped, NEW t \in Threads, Load(t)
    PROVE  /\ job[t].at = "load"
           /\ job' = [u \in Threads |-> job'[u]]
           /\ overtaken' \in [config : BOOLEAN, accounts : BOOLEAN, met : BOOLEAN]
           /\ overtaken'.config = overtaken.config
           /\ overtaken'.accounts = overtaken.accounts
           /\ ~overtaken'.met =>
                ~overtaken.met /\ \A u \in Threads \ {t} : job[u].at \notin Loaders
           /\ \/ /\ ~Parses(file.text) /\ job'[t] = Idle
                 /\ \A u \in Threads \ {t} : job'[u] = job[u]
              \/ /\ Parses(file.text)
                 /\ job'[t] = [at |-> "build", conf |-> Parse(file.text), late |-> FALSE]
                 /\ \A u \in Threads \ {t} :
                       IF job[u].at \in Loaders THEN Aged(job'[u], job[u])
                       ELSE job'[u] = job[u]
<1>1. job[t].at = "load" /\ DOMAIN job = Threads
  BY DEF Load, JobsShaped
<1>2. /\ overtaken' \in [config : BOOLEAN, accounts : BOOLEAN, met : BOOLEAN]
      /\ overtaken'.config = overtaken.config /\ overtaken'.accounts = overtaken.accounts
      /\ ~overtaken'.met =>
            ~overtaken.met /\ \A u \in Threads \ {t} : job[u].at \notin Loaders
  <2> DEFINE met == \E u \in Threads \ {t} : job[u].at \in Loaders
  <2>1. overtaken' = [overtaken EXCEPT !.met = overtaken.met \/ met]
    BY DEF Load
  <2>2. overtaken \in [config : BOOLEAN, accounts : BOOLEAN, met : BOOLEAN]
    BY DEF JobsShaped
  <2>3. met \in BOOLEAN /\ (~met => \A u \in Threads \ {t} : job[u].at \notin Loaders)
    OBVIOUS
  <2> HIDE DEF met
  <2>4. overtaken' \in [config : BOOLEAN, accounts : BOOLEAN, met : BOOLEAN]
    BY <2>1, <2>2, <2>3
  <2>5. overtaken'.config = overtaken.config /\ overtaken'.accounts = overtaken.accounts
    BY <2>1, <2>2
  <2>6. overtaken'.met = (overtaken.met \/ met)
    BY <2>1, <2>2
  <2> QED
    BY <2>3, <2>4, <2>5, <2>6
<1>3. CASE ~Parses(file.text)
  <2>1. job' = [job EXCEPT ![t] = Idle]
    BY <1>3 DEF Load
  <2> QED
    BY <1>1, <1>2, <1>3, <2>1, JobAt
<1>4. CASE Parses(file.text)
  <2> DEFINE new == [at |-> "build", conf |-> Parse(file.text), late |-> FALSE]
             old == Outrun(t)
  <2>1. job' = [old EXCEPT ![t] = new]
    BY <1>4 DEF Load
  <2>2. old = [u \in Threads |-> IF u # t /\ job[u].at \in Loaders
                                THEN [job[u] EXCEPT !.late = TRUE] ELSE job[u]]
    BY DEF Outrun
  <2> HIDE DEF new, old
  <2>3. job' = [u \in Threads |-> job'[u]] /\ job'[t] = new
    BY <2>1, <2>2
  <2>4. ASSUME NEW u \in Threads \ {t}
        PROVE  IF job[u].at \in Loaders THEN Aged(job'[u], job[u]) ELSE job'[u] = job[u]
    <3>1. CASE job[u].at \in Loaders
      <4> DEFINE e == job'[u]
                 j == job[u]
      <4>1. e = [j EXCEPT !.late = TRUE]
        BY <2>1, <2>2, <3>1
      <4>2. IsBuild(j) \/ IsInstall(j)
        BY <3>1, LoaderAt
      <4> HIDE DEF e, j
      <4>3. Aged(e, j)
        BY <4>1, <4>2, LateJob DEF Aged
      <4> QED
        BY <3>1, <4>3 DEF e, j
    <3>2. CASE job[u].at \notin Loaders
      BY <2>1, <2>2, <3>2
    <3> QED
      BY <3>1, <3>2
  <2> QED
    BY <1>1, <1>2, <1>4, <2>3, <2>4 DEF new
<1> QED
  BY <1>3, <1>4

(* A backup is made: read, named, written, or the copy fails.              *)
LEMMA CopyStep ==
    ASSUME JobsShaped, NEW t \in Threads, Copy(t)
    PROVE  /\ IsCall(job[t]) /\ job[t].at = "copy"
           /\ \E j : /\ IsCall(j) /\ j.at = "name" /\ j.read = file.text /\ j.kept = {file.text}
                     /\ j.text = job[t].text /\ job' = [job EXCEPT ![t] = j]
<1> DEFINE c == job[t]
           read == file.text
           kept == {file.text}
           j == [c EXCEPT !.at = "name", !.read = read, !.kept = kept]
<1>1. IsCall(c) /\ c.at = "copy" /\ "name" \in Calls
  BY CallAt DEF Copy, Calls
<1>2. job' = [job EXCEPT ![t] = j]
  BY DEF Copy, JobsShaped
<1> HIDE DEF c, read, kept
<1>3. j = CallWith(c, "name", c.text, read, c.under, kept)
  <2> DEFINE j1 == [c EXCEPT !.at = "name"]
             j2 == [j1 EXCEPT !.read = read]
  <2>1. j1 = CallWith(c, "name", c.text, c.read, c.under, c.kept)
    BY <1>1, MovedOn
  <2> HIDE DEF j1
  <2>2. j2 = CallWith(c, "name", c.text, read, c.under, c.kept)
    BY <2>1, ReadChanged
  <2> HIDE DEF j2
  <2>3. [j2 EXCEPT !.kept = kept] = CallWith(c, "name", c.text, read, c.under, kept)
    BY <2>2, KeptChanged
  <2> QED
    BY Zenon, <2>3 DEF j1, j2
<1> HIDE DEF j
<1>4. IsCall(j) /\ j.at = "name" /\ j.read = read /\ j.kept = kept /\ j.text = c.text
  BY <1>1, <1>3, CallFields
<1> QED
  BY <1>1, <1>2, <1>4 DEF c, read, kept

(* Those that have chosen the same name rely on their copies no more.      *)
LEMMA ChooseStep ==
    ASSUME JobsShaped, NEW t \in Threads, ChooseName(t)
    PROVE  /\ IsCall(job[t]) /\ job[t].at = "name"
           /\ job' = [u \in Threads |-> job'[u]]
           /\ IsCall(job'[t]) /\ job'[t].at = "put" /\ job'[t].under = BackupName(job[t].tag)
           /\ job'[t].read = job[t].read /\ job'[t].text = job[t].text
           /\ \/ job'[t].kept = {}
              \/ /\ job'[t].kept = job[t].kept
                 /\ \A u \in Threads : ~Chosen(u, BackupName(job[t].tag))
           /\ \A u \in Threads \ {t} :
                 \/ job'[u] = job[u] /\ ~Chosen(u, BackupName(job[t].tag))
                 \/ /\ IsCall(job[u]) /\ IsCall(job'[u])
                    /\ job'[u].at = "put" /\ job[u].at = "put"
                    /\ job'[u].under = job[u].under /\ job'[u].read = job[u].read
                    /\ job'[u].text = job[u].text /\ job'[u].kept = {}
<1> DEFINE c == job[t]
           name == BackupName(c.tag)
           same == {u \in Threads : job[u].at = "put" /\ job[u].under = name}
           kept == IF same = {} THEN c.kept ELSE {}
<1>1. IsCall(c) /\ c.at = "name" /\ "put" \in Calls
  BY CallAt DEF ChooseName, Calls
<1>2. job' = [u \in Threads |->
                 IF u = t THEN [c EXCEPT !.at = "put", !.under = name, !.kept = kept]
                 ELSE IF u \in same THEN [job[u] EXCEPT !.kept = {}] ELSE job[u]]
  BY DEF ChooseName
<1>3. \A u \in Threads : u \in same <=> Chosen(u, name)
  BY DEF Chosen
<1>4. \A u \in same : u \in Threads /\ job[u].at = "put"
  OBVIOUS
<1> HIDE DEF name, same
<1>5. /\ IsCall(job'[t]) /\ job'[t].at = "put" /\ job'[t].under = name
      /\ job'[t].read = c.read /\ job'[t].text = c.text /\ job'[t].kept = kept
  <2> DEFINE e == job'[t]
  <2>1. e = [c EXCEPT !.at = "put", !.under = name, !.kept = kept]
    BY <1>2
  <2> HIDE DEF e, c, kept
  <2>2. e = CallWith(c, "put", c.text, c.read, name, kept)
    <3> DEFINE j1 == [c EXCEPT !.at = "put"]
               j2 == [j1 EXCEPT !.under = name]
    <3>1. j1 = CallWith(c, "put", c.text, c.read, c.under, c.kept)
      BY <1>1, MovedOn
    <3> HIDE DEF j1
    <3>2. j2 = CallWith(c, "put", c.text, c.read, name, c.kept)
      BY <3>1, NameChanged
    <3> HIDE DEF j2
    <3>3. [j2 EXCEPT !.kept = kept] = CallWith(c, "put", c.text, c.read, name, kept)
      BY <3>2, KeptChanged
    <3> QED
      BY Zenon, <2>1, <3>3 DEF j1, j2
  <2>3. IsCall(e) /\ e.at = "put" /\ e.under = name /\ e.read = c.read /\ e.text = c.text /\ e.kept = kept
    BY <1>1, <2>2, CallFields
  <2> QED
    BY <2>3 DEF e
<1>6. kept = {} \/ (kept = c.kept /\ \A u \in Threads : ~Chosen(u, name))
  BY <1>3
<1>7. ASSUME NEW u \in Threads \ {t}, u \in same
      PROVE  /\ IsCall(job[u]) /\ IsCall(job'[u])
             /\ job'[u].at = "put" /\ job[u].at = "put"
             /\ job'[u].under = job[u].under /\ job'[u].read = job[u].read
             /\ job'[u].text = job[u].text /\ job'[u].kept = {}
  <2> DEFINE d == job[u]
             e == job'[u]
             none == {}
  <2>1. e = [d EXCEPT !.kept = none]
    BY <1>2, <1>7
  <2>2. IsCall(d) /\ d.at = "put"
    BY <1>1, <1>4, <1>7, CallAt
  <2> HIDE DEF d, e, none
  <2>3. e = CallWith(d, d.at, d.text, d.read, d.under, none) /\ d.at \in Calls
    BY <1>1, <2>1, <2>2, ReliesOn
  <2>4. IsCall(e) /\ e.at = d.at /\ e.under = d.under /\ e.read = d.read /\ e.text = d.text /\ e.kept = none
    BY <2>2, <2>3, CallFields
  <2> QED
    BY <2>2, <2>4 DEF d, e, none
<1>8. \A u \in Threads \ {t} : u \notin same => job'[u] = job[u] /\ ~Chosen(u, name)
  BY <1>2, <1>3
<1>9. job' = [u \in Threads |-> job'[u]]
  BY <1>2
<1> HIDE DEF c, kept
<1>10. job'[t].kept = {} \/ (job'[t].kept = c.kept /\ \A u \in Threads : ~Chosen(u, name))
  BY <1>5, <1>6
<1> QED
  BY <1>1, <1>5, <1>7, <1>8, <1>9, <1>10 DEF c, name

LEMMA PutStep ==
    ASSUME JobsShaped, NEW t \in Threads, Put(t)
    PROVE  /\ IsCall(job[t]) /\ job[t].at = "put"
           /\ \E j : /\ IsCall(j) /\ j.at \in {"write", "fetch"} /\ j.kept = job[t].kept
                     /\ j.text = job[t].text /\ job' = [job EXCEPT ![t] = j]
<1> DEFINE c == job[t]
           at == AfterCopy(c)
           j == [c EXCEPT !.at = at]
<1>1. IsCall(c) /\ c.at = "put"
  BY CallAt DEF Put, Calls
<1>2. job' = [job EXCEPT ![t] = j]
  BY DEF Put, JobsShaped
<1>3. at \in {"write", "fetch"} /\ at \in Calls
  BY DEF AfterCopy, Calls
<1> HIDE DEF c, at
<1>4. j = CallWith(c, at, c.text, c.read, c.under, c.kept)
  BY <1>1, MovedOn
<1> HIDE DEF j
<1>5. IsCall(j) /\ j.at = at /\ j.kept = c.kept /\ j.text = c.text
  BY <1>1, <1>3, <1>4, CallFields
<1> QED
  BY <1>1, <1>2, <1>3, <1>5 DEF c

LEMMA CopyFailsStep ==
    ASSUME JobsShaped, NEW t \in Threads, CopyFails(t)
    PROVE  /\ IsCall(job[t]) /\ job[t].at \in {"copy", "name", "put"}
           /\ \/ job' = [job EXCEPT ![t] = Idle]
              \/ \E j : /\ IsCall(j) /\ j.at = "write" /\ j.kept = {}
                        /\ j.text = job[t].text /\ job' = [job EXCEPT ![t] = j]
<1> DEFINE c == job[t]
           none == {}
           j == [c EXCEPT !.at = "write", !.kept = none]
<1>1. IsCall(c) /\ c.at \in {"copy", "name", "put"} /\ "write" \in Calls
  BY CallAt DEF CopyFails, Calls
<1>2. job' = [job EXCEPT ![t] = Idle] \/ job' = [job EXCEPT ![t] = j]
  BY DEF CopyFails, JobsShaped
<1> HIDE DEF c, none
<1>3. j = CallWith(c, "write", c.text, c.read, c.under, none)
  BY <1>1, MovedOnWithKept
<1> HIDE DEF j
<1>4. IsCall(j) /\ j.at = "write" /\ j.kept = none /\ j.text = c.text
  BY <1>1, <1>3, CallFields
<1> QED
  BY <1>1, <1>2, <1>4 DEF c, none

(* What the steps of a copy have in common.                                *)
Backing(t) == Copy(t) \/ ChooseName(t) \/ Put(t) \/ CopyFails(t)

LEMMA BackingSteps ==
    ASSUME JobsShaped, NEW t \in Threads, Backing(t)
    PROVE  /\ job' = [u \in Threads |-> job'[u]]
           /\ \A u \in Threads :
                 \/ job'[u] = job[u]
                 \/ /\ IsCall(job[u]) /\ job[u].at # "compose"
                    /\ \/ job'[u] = Idle
                       \/ /\ IsCall(job'[u]) /\ job'[u].text = job[u].text
                          /\ job'[u].at # "compose"
           /\ UNCHANGED <<file, live, seen, ghost>>
<1>1. UNCHANGED <<file, live, seen, ghost>>
  BY DEF Backing, Copy, ChooseName, Put, CopyFails, files
<1>2. CASE Copy(t)
  <2>1. PICK j : /\ IsCall(j) /\ j.at = "name" /\ j.text = job[t].text
                 /\ job' = [job EXCEPT ![t] = j] /\ IsCall(job[t]) /\ job[t].at = "copy"
    BY <1>2, CopyStep
  <2> QED
    BY <1>1, <2>1, JobAt
<1>3. CASE ChooseName(t)
  BY <1>1, <1>3, ChooseStep
<1>4. CASE Put(t)
  <2>1. PICK j : /\ IsCall(j) /\ j.at \in {"write", "fetch"} /\ j.text = job[t].text
                 /\ job' = [job EXCEPT ![t] = j] /\ IsCall(job[t]) /\ job[t].at = "put"
    BY <1>4, PutStep
  <2> QED
    BY <1>1, <2>1, JobAt
<1>5. CASE CopyFails(t)
  <2>1. PICK j : /\ j = Idle \/ (IsCall(j) /\ j.at = "write" /\ j.text = job[t].text)
                 /\ job' = [job EXCEPT ![t] = j]
    BY <1>5, CopyFailsStep
  <2>2. IsCall(job[t]) /\ job[t].at # "compose"
    BY <1>5, CopyFailsStep
  <2> QED
    BY <1>1, <2>1, <2>2, JobAt
<1> QED
  BY <1>2, <1>3, <1>4, <1>5 DEF Backing

(* A deleted backup goes from the store, from what is owed, and from the   *)
(* texts that calls under way have seen kept.                              *)
LEMMA DeleteStep ==
    ASSUME JobsShaped, NEW t \in Threads, DeleteBackup(t)
    PROVE  \E b \in DOMAIN backups :
              /\ backups' = Restrict(backups, DOMAIN backups \ {b})
              /\ owed' = owed \ {backups[b]}
              /\ job' = [u \in Threads |-> job'[u]]
              /\ \A u \in Threads :
                    IF job[u].at \in {"fetch", "write"}
                    THEN /\ IsCall(job[u]) /\ IsCall(job'[u]) /\ job'[u].at = job[u].at
                         /\ job'[u].kept = job[u].kept \ {backups[b]}
                         /\ job'[u].text = job[u].text
                    ELSE job'[u] = job[u]
<1>1. PICK b \in DOMAIN backups :
        /\ backups' = Restrict(backups, DOMAIN backups \ {b})
        /\ owed' = owed \ {backups[b]}
        /\ job' = [u \in Threads |-> IF job[u].at \in {"fetch", "write"}
                                     THEN [job[u] EXCEPT !.kept = @ \ {backups[b]}]
                                     ELSE job[u]]
  BY DEF DeleteBackup
<1>2. job' = [u \in Threads |-> job'[u]]
  BY <1>1
<1>3. ASSUME NEW u \in Threads, job[u].at \in {"fetch", "write"}
      PROVE  /\ IsCall(job[u]) /\ IsCall(job'[u]) /\ job'[u].at = job[u].at
             /\ job'[u].kept = job[u].kept \ {backups[b]} /\ job'[u].text = job[u].text
  <2> DEFINE c == job[u]
             kept == c.kept \ {backups[b]}
             e == job'[u]
  <2>1. e = [c EXCEPT !.kept = kept]
    BY <1>1, <1>3
  <2>2. IsCall(c)
    BY <1>3, CallAt DEF Calls
  <2>3. c.at \in Calls
    BY <2>2 DEF IsCall
  <2> HIDE DEF c, e, kept
  <2>4. e = CallWith(c, c.at, c.text, c.read, c.under, kept)
    BY <2>1, <2>2, ReliesOn
  <2>5. IsCall(e) /\ e.at = c.at /\ e.kept = kept /\ e.text = c.text
    BY <2>2, <2>3, <2>4, CallFields
  <2> QED
    BY <2>2, <2>5 DEF c, e, kept
<1>4. \A u \in Threads : job[u].at \notin {"fetch", "write"} => job'[u] = job[u]
  BY <1>1
<1> QED
  BY <1>1, <1>2, <1>3, <1>4

(* A build installs every runtime it uses in the registry.                 *)
LEMMA BuildStep ==
    ASSUME JobsShaped, NEW t \in Threads, Build(t)
    PROVE  /\ IsBuild(job[t])
           /\ \E j : /\ IsInstall(j) /\ j.at = "retain"
                     /\ j.conf = job[t].conf /\ j.late = job[t].late
                     /\ \A n \in DOMAIN j.rts : n \in DOMAIN registry' /\ registry'[n] = j.rts[n]
                     /\ job' = [job EXCEPT ![t] = j]
<1> DEFINE rts == Runtimes(job[t].conf.accounts, registry, born)
           j   == [at |-> "retain", conf |-> job[t].conf, late |-> job[t].late, rts |-> rts]
<1>1. IsBuild(job[t])
  BY LoaderAt DEF Build
<1>2. /\ registry' = [n \in DOMAIN rts \cup DOMAIN registry |->
                         IF n \in DOMAIN rts THEN rts[n] ELSE registry[n]]
      /\ job' = [job EXCEPT ![t] = j]
  BY DEF Build
<1>3. rts = [n \in NamesOf(job[t].conf.accounts) |-> rts[n]]
  BY DEF Runtimes
<1> HIDE DEF rts
<1>4. \A n \in DOMAIN rts : n \in DOMAIN registry' /\ registry'[n] = rts[n]
  BY <1>2
<1>5. j.at = "retain" /\ j.conf = job[t].conf /\ j.late = job[t].late /\ j.rts = rts
  OBVIOUS
<1>6. job[t].late \in BOOLEAN
  BY <1>1 DEF IsBuild
<1>7. IsInstall(j)
  BY <1>3, <1>6 DEF IsInstall
<1> HIDE DEF j
<1> QED
  BY <1>1, <1>2, <1>4, <1>5, <1>7

(* Dropping what is not named, storing the configuration: the job goes on  *)
(* with what it has.                                                       *)
GoesOn(t, at) ==
    \E j :
        /\ IsInstall(j) /\ j.at = at
        /\ j.conf = job[t].conf /\ j.late = job[t].late /\ j.rts = job[t].rts
        /\ job' = [job EXCEPT ![t] = j]

(* The steps that install belong to a reload that has built, and go on in  *)
(* order.                                                                  *)
LEMMA InstallSteps ==
    ASSUME JobsShaped, NEW t \in Threads
    PROVE  /\ Retain(t) => IsInstall(job[t]) /\ GoesOn(t, "config")
           /\ SetConfig(t) => IsInstall(job[t]) /\ GoesOn(t, "accounts")
           /\ SetAccounts(t) => IsInstall(job[t])
<1>1. Retain(t) \/ SetConfig(t) \/ SetAccounts(t) => IsInstall(job[t])
  BY LoaderAt DEF Retain, SetConfig, SetAccounts
<1>2. ASSUME IsInstall(job[t]), NEW at \in {"config", "accounts"},
             job' = [job EXCEPT ![t].at = at]
      PROVE  GoesOn(t, at)
  <2> DEFINE c == job[t]
             j == [c EXCEPT !.at = at]
  <2>1. IsInstall(c)
    BY <1>2
  <2>2. job' = [job EXCEPT ![t] = j]
    BY <1>2
  <2> HIDE DEF c
  <2>3. IsInstall(j) /\ j.at = at /\ j.conf = c.conf /\ j.late = c.late /\ j.rts = c.rts
    BY <2>1, NextStage
  <2> HIDE DEF j
  <2> QED
    BY <2>2, <2>3 DEF GoesOn, c
<1>3. Retain(t) => job' = [job EXCEPT ![t].at = "config"]
  BY DEF Retain
<1>4. SetConfig(t) => job' = [job EXCEPT ![t].at = "accounts"]
  BY DEF SetConfig
<1> QED
  BY <1>1, <1>2, <1>3, <1>4

(* The jobs stay shaped when one of them changes into a job.               *)
LEMMA OneJobChanged ==
    ASSUME JobsShaped, NEW t \in Threads, NEW j, IsJob(j), job' = [job EXCEPT ![t] = j],
           overtaken' \in [config : BOOLEAN, accounts : BOOLEAN, met : BOOLEAN]
    PROVE  JobsShaped'
BY JobAt DEF JobsShaped

(* JobsShaped is kept by every step.                                       *)
LEMMA JobsStayShaped ==
    ASSUME JobsShaped, [Next]_vars
    PROVE  JobsShaped'
<1> DEFINE Typed == overtaken' \in [config : BOOLEAN, accounts : BOOLEAN, met : BOOLEAN]
<1>1. overtaken' = overtaken => Typed
  BY DEF JobsShaped
<1> HIDE DEF Typed
<1>2. ASSUME NEW t \in Threads, Load(t) PROVE JobsShaped'
  <2>1. \A u \in Threads : IsJob(job[u])
    BY DEF JobsShaped
  <2>2. /\ job' = [u \in Threads |-> job'[u]]
        /\ overtaken' \in [config : BOOLEAN, accounts : BOOLEAN, met : BOOLEAN]
    BY <1>2, LoadStep
  <2>3. IsJob(job'[t])
    <3>1. IsJob(Idle)
      BY DEF IsJob
    <3>2. IsJob([at |-> "build", conf |-> Parse(file.text), late |-> FALSE])
      BY DEF IsJob, IsBuild
    <3> QED
      BY <1>2, <3>1, <3>2, LoadStep
  <2>4. ASSUME NEW u \in Threads \ {t} PROVE IsJob(job'[u])
    <3>1. job'[u] = job[u] \/ (job[u].at \in Loaders /\ Aged(job'[u], job[u]))
      BY <1>2, LoadStep
    <3>2. CASE job'[u] = job[u]
      BY <2>1, <3>2
    <3>3. CASE job[u].at \in Loaders /\ Aged(job'[u], job[u])
      BY <3>3, LoaderAt DEF Aged, IsJob
    <3> QED
      BY <3>1, <3>2, <3>3
  <2> QED
    BY <2>2, <2>3, <2>4 DEF JobsShaped
<1>3. ASSUME NEW t \in Threads, Build(t) PROVE JobsShaped'
  <2>1. PICK j : IsInstall(j) /\ job' = [job EXCEPT ![t] = j]
    BY <1>3, BuildStep
  <2>2. Typed
    BY <1>1, <1>3 DEF Build, ghost
  <2> QED
    BY <2>1, <2>2, OneJobChanged DEF IsJob, Typed
<1>4. ASSUME NEW t \in Threads, Retain(t) PROVE JobsShaped'
  <2>1. PICK j : IsInstall(j) /\ job' = [job EXCEPT ![t] = j]
    BY <1>4, InstallSteps DEF GoesOn
  <2>2. Typed
    BY <1>1, <1>4 DEF Retain, ghost
  <2> QED
    BY <2>1, <2>2, OneJobChanged DEF IsJob, Typed
<1>5. ASSUME NEW t \in Threads, SetConfig(t) PROVE JobsShaped'
  <2>1. PICK j : IsInstall(j) /\ job' = [job EXCEPT ![t] = j]
    BY <1>5, InstallSteps DEF GoesOn
  <2>2. job[t].late \in BOOLEAN
    BY <1>5, InstallSteps DEF IsInstall
  <2>3. Typed
    BY <1>5, <2>2 DEF SetConfig, Typed, JobsShaped
  <2> QED
    BY <2>1, <2>3, OneJobChanged DEF IsJob, Typed
<1>6. ASSUME NEW t \in Threads, SetAccounts(t) PROVE JobsShaped'
  <2>1. job' = [job EXCEPT ![t] = Idle] /\ IsJob(Idle)
    BY <1>6 DEF SetAccounts, IsJob
  <2>2. job[t].late \in BOOLEAN
    BY <1>6, InstallSteps DEF IsInstall
  <2>3. Typed
    BY <1>6, <2>2 DEF SetAccounts, Typed, JobsShaped
  <2> QED
    BY <2>1, <2>3, OneJobChanged DEF Typed
<1>7. ASSUME NEW t \in Threads, Pen(t) PROVE JobsShaped'
  <2>1. PICK j : PenMoves(t, j)
    BY <1>7, PenSteps
  <2>2. IsJob(j) /\ job' = [job EXCEPT ![t] = j] /\ Typed
    BY <1>1, <2>1 DEF PenMoves, IsJob, ghost
  <2> QED
    BY <2>2, OneJobChanged DEF Typed
<1>8. ASSUME NEW t \in Threads, Backing(t) PROVE JobsShaped'
  <2>1. /\ job' = [u \in Threads |-> job'[u]]
        /\ \A u \in Threads : job'[u] = job[u] \/ job'[u] = Idle \/ IsCall(job'[u])
    BY <1>8, BackingSteps
  <2>2. Typed
    BY <1>1, <1>8, BackingSteps DEF ghost
  <2> QED
    BY <2>1, <2>2 DEF JobsShaped, IsJob, Typed
<1>9. ASSUME NEW t \in Threads, Write(t) PROVE JobsShaped'
  <2>1. job' = [job EXCEPT ![t] = [at |-> "load"]] /\ IsJob([at |-> "load"])
    BY <1>9 DEF Write, IsJob
  <2>2. Typed
    BY <1>1, <1>9 DEF Write
  <2> QED
    BY <2>1, <2>2, OneJobChanged DEF Typed
<1>10. ASSUME NEW t \in Threads, DeleteBackup(t) PROVE JobsShaped'
  <2>1. Typed
    BY <1>1, <1>10 DEF DeleteBackup
  <2>2. /\ job' = [u \in Threads |-> job'[u]]
        /\ \A u \in Threads : job'[u] = job[u] \/ IsCall(job'[u])
    BY <1>10, DeleteStep
  <2> QED
    BY <2>1, <2>2 DEF JobsShaped, IsJob, Typed
<1>11. ASSUME Poll PROVE JobsShaped'
  <2>1. /\ job' = [job EXCEPT !["watcher"] = [at |-> "load"]] /\ IsJob([at |-> "load"])
        /\ "watcher" \in Threads
    BY <1>11 DEF Poll, IsJob, Threads
  <2>2. Typed
    BY <1>1, <1>11 DEF Poll, ghost
  <2> QED
    BY <2>1, <2>2, OneJobChanged DEF Typed
<1>12. ASSUME Restart PROVE JobsShaped'
  BY <1>12 DEF Restart, JobsShaped, IsJob
<1>13. ASSUME UNCHANGED <<job, overtaken>> PROVE JobsShaped'
  BY <1>13 DEF JobsShaped
<1>14. HandEdit \/ Tick \/ UNCHANGED vars => UNCHANGED <<job, overtaken>>
  BY DEF HandEdit, Tick, vars, ghost
<1> QED
  BY <1>2, <1>3, <1>4, <1>5, <1>6, <1>7, <1>8, <1>9, <1>10, <1>11, <1>12, <1>13, <1>14
     DEF Next, Reload, Console, Pen, Backing, Threads

-----------------------------------------------------------------------------
(* Backups                                                                 *)

(* A step that adds no text to what a job relies on.                       *)
LEMMA KeptAsBefore ==
    ASSUME KeptIsKept, backups' = backups, owed' = owed,
           \A u \in Threads :
              \/ job'[u] = job[u]
              \/ job'[u].at \notin Calls
              \/ job'[u].at # "put" /\ \A text : text \notin job'[u].kept
              \/ /\ job'[u].kept = job[u].kept
                 /\ \/ job'[u].at = "write" /\ job[u].at = "fetch"
                    \/ job'[u].at = "copy" /\ job[u].at = "compose"
    PROVE  KeptIsKept'
<1>1. ASSUME NEW u \in Threads, NEW b, Chosen(u, b)'
      PROVE  Chosen(u, b)
  BY <1>1 DEF Chosen, Calls
<1>2. \A text : Kept(text) => Kept(text)'
  BY <1>1 DEF Kept
<1>3. ASSUME NEW u \in Threads PROVE KeptBy(u)'
  <2>1. KeptBy(u)
    BY DEF KeptIsKept
  <2>2. CASE job'[u] = job[u]
    BY <1>1, <1>2, <2>1, <2>2 DEF KeptBy
  <2>3. CASE \/ job'[u].at \notin Calls
             \/ job'[u].at # "put" /\ \A text : text \notin job'[u].kept
    BY <2>3 DEF KeptBy, Calls
  <2>4. CASE /\ job'[u].kept = job[u].kept
             /\ \/ job'[u].at = "write" /\ job[u].at = "fetch"
                \/ job'[u].at = "copy" /\ job[u].at = "compose"
    BY <1>2, <2>1, <2>4 DEF KeptBy
  <2> QED
    BY <2>2, <2>3, <2>4
<1> QED
  BY <1>2, <1>3 DEF KeptIsKept

(* A thread that writes under the name it has chosen: the others' backups  *)
(* stay.                                                                   *)
LEMMA PuttingKeeps ==
    ASSUME KeptIsKept, NEW t \in Threads, job[t].at = "put", NEW text,
           Putting(job[t].under, text), owed' = owed,
           job'[t].at # "put", \A u \in Threads \ {t} : job'[u] = job[u],
           \/ job'[t].at \notin Calls
           \/ job'[t].at = "write" /\ \A one : one \notin job'[t].kept
           \/ /\ job'[t].at \in {"write", "fetch"} /\ job'[t].kept = job[t].kept
              /\ text = job[t].read
    PROVE  KeptIsKept'
<1> DEFINE name == job[t].under
<1>1. backups' = [b \in DOMAIN backups \cup {name} |-> IF b = name THEN text ELSE backups[b]]
  BY DEF Putting
<1>2. Chosen(t, name)
  BY DEF Chosen
<1>3. ASSUME NEW u \in Threads, NEW b, Chosen(u, b)'
      PROVE  u # t /\ Chosen(u, b)
  BY <1>3 DEF Chosen
<1>4. ASSUME NEW one, Kept(one) PROVE Kept(one)'
  <2>1. PICK b \in DOMAIN backups : backups[b] = one /\ \A u \in Threads : ~Chosen(u, b)
    BY <1>4 DEF Kept
  <2>2. b # name
    BY <1>2, <2>1
  <2>3. b \in DOMAIN backups' /\ backups'[b] = one
    BY <1>1, <2>1, <2>2
  <2> QED
    BY <1>3, <2>1, <2>3 DEF Kept
<1>5. IsFiniteSet(DOMAIN backups) /\ DOMAIN backups' = DOMAIN backups \cup {name}
  BY <1>1 DEF KeptIsKept
<1>6. IsFiniteSet((DOMAIN backups)')
  BY <1>5, FS_AddElement
<1>7. backups' = [b \in DOMAIN backups' |-> backups'[b]]
  BY <1>1
<1>8. ASSUME NEW u \in Threads \ {t} PROVE KeptBy(u)'
  <2>1. KeptBy(u) /\ job'[u] = job[u]
    BY DEF KeptIsKept
  <2>2. job[u].at = "put" => \A one \in job[u].kept : job[u].under # name
    BY <1>2, <2>1 DEF KeptBy
  <2> QED
    BY <1>3, <1>4, <1>5, <2>1, <2>2 DEF KeptBy
<1>9. KeptBy(t)'
  <2>1. CASE job'[t].at \notin Calls
    BY <2>1 DEF KeptBy, Calls
  <2>2. CASE job'[t].at = "write" /\ \A one : one \notin job'[t].kept
    BY <2>2 DEF KeptBy
  <2>3. CASE /\ job'[t].at \in {"write", "fetch"} /\ job'[t].kept = job[t].kept
             /\ text = job[t].read
    <3>1. ASSUME NEW one \in job[t].kept PROVE Kept(one)'
      <4>0. PICK n : n = name
        OBVIOUS
      <4>1. /\ one = text /\ \A u \in Threads \ {t} : ~Chosen(u, n)
        BY <2>3, <4>0 DEF KeptIsKept, KeptBy
      <4>2. n \in DOMAIN backups' /\ backups'[n] = one
        BY <1>1, <4>0, <4>1
      <4>3. \A u \in Threads : ~Chosen(u, n)'
        BY <1>3, <4>1
      <4> QED
        BY <4>2, <4>3 DEF Kept
    <3> QED
      BY <2>3, <3>1 DEF KeptBy
  <2> QED
    BY <2>1, <2>2, <2>3
<1> QED
  BY <1>4, <1>6, <1>7, <1>8, <1>9 DEF KeptIsKept

(* KeptIsKept is kept by every step.                                       *)
LEMMA KeptStaysKept ==
    ASSUME JobsShaped, KeptIsKept, [Next]_vars
    PROVE  KeptIsKept'
<1>1. ASSUME NEW t \in Threads, Load(t) PROVE KeptIsKept'
  <2>1. backups' = backups /\ owed' = owed
    BY <1>1 DEF Load, files
  <2>2. job'[t].at \notin Calls
    BY <1>1, LoadStep DEF Idle, Calls
  <2>3. \A u \in Threads \ {t} : job'[u] = job[u] \/ job'[u].at \notin Calls
    BY <1>1, LoadStep DEF Loaders, Calls, Aged
  <2> QED
    BY <2>1, <2>2, <2>3, KeptAsBefore
<1>2. ASSUME NEW t \in Threads, Build(t) PROVE KeptIsKept'
  <2>1. PICK j : j.at = "retain" /\ job' = [job EXCEPT ![t] = j]
    BY <1>2, BuildStep
  <2>2. backups' = backups /\ owed' = owed
    BY <1>2 DEF Build, files, ghost
  <2>3. \A u \in Threads : job'[u] = job[u] \/ job'[u].at \notin Calls
    BY <2>1, JobAt DEF Calls
  <2> QED
    BY <2>2, <2>3, KeptAsBefore
<1>3. ASSUME NEW t \in Threads, Retain(t) PROVE KeptIsKept'
  <2>1. PICK j : j.at = "config" /\ job' = [job EXCEPT ![t] = j]
    BY <1>3, InstallSteps DEF GoesOn
  <2>2. backups' = backups /\ owed' = owed
    BY <1>3 DEF Retain, files, ghost
  <2>3. \A u \in Threads : job'[u] = job[u] \/ job'[u].at \notin Calls
    BY <2>1, JobAt DEF Calls
  <2> QED
    BY <2>2, <2>3, KeptAsBefore
<1>4. ASSUME NEW t \in Threads, SetConfig(t) PROVE KeptIsKept'
  <2>1. PICK j : j.at = "accounts" /\ job' = [job EXCEPT ![t] = j]
    BY <1>4, InstallSteps DEF GoesOn
  <2>2. backups' = backups /\ owed' = owed
    BY <1>4 DEF SetConfig, files
  <2>3. \A u \in Threads : job'[u] = job[u] \/ job'[u].at \notin Calls
    BY <2>1, JobAt DEF Calls
  <2> QED
    BY <2>2, <2>3, KeptAsBefore
<1>5. ASSUME NEW t \in Threads, SetAccounts(t) \/ (t = "watcher" /\ Poll) PROVE KeptIsKept'
  <2>1. PICK j : j.at \notin Calls /\ job' = [job EXCEPT ![t] = j]
    BY <1>5 DEF SetAccounts, Poll, Idle, Calls
  <2>2. backups' = backups /\ owed' = owed
    BY <1>5 DEF SetAccounts, Poll, files, ghost
  <2>3. \A u \in Threads : job'[u] = job[u] \/ job'[u].at \notin Calls
    BY <2>1, JobAt
  <2> QED
    BY <2>2, <2>3, KeptAsBefore
<1>6. ASSUME NEW t \in Threads, Pen(t) PROVE KeptIsKept'
  <2>1. PICK j : PenMoves(t, j)
    BY <1>6, PenSteps
  <2>2. backups' = backups /\ owed' = owed /\ job' = [job EXCEPT ![t] = j]
    BY <2>1 DEF PenMoves, files, ghost
  <2>3. \/ j.at \notin Calls
        \/ j.at # "put" /\ j.kept = {}
        \/ /\ j.kept = job[t].kept
           /\ \/ j.at = "write" /\ job[t].at = "fetch"
              \/ j.at = "copy" /\ job[t].at = "compose"
    BY <2>1 DEF PenMoves, Idle, Calls
  <2> QED
    BY <2>2, <2>3, JobAt, KeptAsBefore
<1>7. ASSUME NEW t \in Threads, Backing(t) PROVE KeptIsKept'
  <2>1. CASE Copy(t)
    <3>1. backups' = backups /\ owed' = owed
      BY <2>1 DEF Copy, files, ghost
    <3>2. PICK j : /\ j.at = "name" /\ j.read = file.text /\ j.kept = {file.text}
                   /\ job' = [job EXCEPT ![t] = j]
      BY <2>1, CopyStep
    <3>3. job'[t] = j /\ \A u \in Threads \ {t} : job'[u] = job[u]
      BY <3>2, JobAt
    <3>4. \A b : \A u \in Threads : Chosen(u, b)' => Chosen(u, b)
      BY <3>2, <3>3 DEF Chosen
    <3>5. \A text : Kept(text) => Kept(text)'
      BY <3>1, <3>4 DEF Kept
    <3>6. ASSUME NEW u \in Threads \ {t} PROVE KeptBy(u)'
      BY <3>1, <3>3, <3>4, <3>5 DEF KeptIsKept, KeptBy
    <3>7. KeptBy(t)'
      BY <3>2, <3>3 DEF KeptBy
    <3> QED
      BY <3>1, <3>5, <3>6, <3>7 DEF KeptIsKept
  <2>2. CASE ChooseName(t)
    <3> DEFINE name == BackupName(job[t].tag)
    <3>1. backups' = backups /\ owed' = owed
      BY <2>2 DEF ChooseName, files, ghost
    <3>2. name \notin DOMAIN backups
      BY BackupNameIsFree DEF KeptIsKept
    <3>3. /\ job[t].at = "name" /\ job'[t].at = "put" /\ job'[t].under = name
          /\ job'[t].read = job[t].read
          /\ \/ job'[t].kept = {}
             \/ job'[t].kept = job[t].kept /\ \A u \in Threads : ~Chosen(u, name)
          /\ \A u \in Threads \ {t} :
                \/ job'[u] = job[u] /\ ~Chosen(u, name)
                \/ /\ job'[u].at = "put" /\ job[u].at = "put"
                   /\ job'[u].under = job[u].under /\ job'[u].kept = {}
      BY <2>2, ChooseStep
    <3> HIDE DEF name
    <3>4. \A b : \A u \in Threads : Chosen(u, b)' => Chosen(u, b) \/ (u = t /\ b = name)
      BY <3>3 DEF Chosen
    <3>5. ASSUME NEW text, Kept(text) PROVE Kept(text)'
      <4>1. PICK b \in DOMAIN backups : backups[b] = text /\ \A u \in Threads : ~Chosen(u, b)
        BY <3>5 DEF Kept
      <4>2. \A u \in Threads : ~Chosen(u, b)'
        BY <3>2, <3>4, <4>1
      <4> QED
        BY <3>1, <4>1, <4>2 DEF Kept
    <3>6. ASSUME NEW u \in Threads \ {t} PROVE KeptBy(u)'
      <4>1. CASE job'[u] = job[u] /\ ~Chosen(u, name)
        <5>1. KeptBy(u)
          BY DEF KeptIsKept
        <5>2. job[u].at = "put" => job[u].under # name
          BY <4>1 DEF Chosen
        <5> QED
          BY <3>1, <3>4, <3>5, <4>1, <5>1, <5>2 DEF KeptBy
      <4>2. CASE job'[u].at = "put" /\ job'[u].kept = {}
        BY <4>2 DEF KeptBy
      <4> QED
        BY <3>3, <4>1, <4>2
    <3>7. KeptBy(t)'
      <4>1. \A text \in job[t].kept : text = job[t].read
        BY <3>3 DEF KeptIsKept, KeptBy
      <4>2. CASE job'[t].kept = {}
        BY <3>3, <4>2 DEF KeptBy
      <4>3. CASE job'[t].kept = job[t].kept /\ \A u \in Threads : ~Chosen(u, name)
        BY <3>1, <3>2, <3>3, <3>4, <4>1, <4>3 DEF KeptBy
      <4> QED
        BY <3>3, <4>2, <4>3
    <3> QED
      BY <3>1, <3>5, <3>6, <3>7 DEF KeptIsKept
  <2>3. CASE Put(t)
    <3>1. job[t].at = "put" /\ Putting(job[t].under, job[t].read) /\ owed' = owed
      BY <2>3 DEF Put, ghost
    <3>2. PICK j : /\ j.at \in {"write", "fetch"} /\ j.kept = job[t].kept
                   /\ job' = [job EXCEPT ![t] = j]
      BY <2>3, PutStep
    <3>3. job'[t] = j /\ \A u \in Threads \ {t} : job'[u] = job[u]
      BY <3>2, JobAt
    <3> QED
      BY <3>1, <3>2, <3>3, PuttingKeeps
  <2>4. CASE CopyFails(t)
    <3>1. PICK j : /\ j = Idle \/ (j.at = "write" /\ j.kept = {})
                   /\ job' = [job EXCEPT ![t] = j]
      BY <2>4, CopyFailsStep
    <3>2. job'[t] = j /\ \A u \in Threads \ {t} : job'[u] = job[u]
      BY <3>1, JobAt
    <3>3. owed' = owed
      BY <2>4 DEF CopyFails, ghost
    <3>4. j.at \notin Calls \/ (j.at = "write" /\ \A text : text \notin j.kept)
      BY <3>1 DEF Idle, Calls
    <3>5. j.at # "put"
      BY <3>1 DEF Idle
    <3>6. CASE backups' = backups
      BY <3>2, <3>3, <3>4, <3>5, <3>6, KeptAsBefore
    <3>7. CASE job[t].at = "put" /\ Putting(job[t].under, Broken)
      BY <3>2, <3>3, <3>4, <3>5, <3>7, PuttingKeeps
    <3> QED
      BY <2>4, <3>6, <3>7 DEF CopyFails
  <2> QED
    BY <1>7, <2>1, <2>2, <2>3, <2>4 DEF Backing
<1>8. ASSUME NEW t \in Threads, Write(t) PROVE KeptIsKept'
  <2>1. /\ backups' = backups /\ job[t].at = "write"
        /\ owed' = owed \/ owed' = owed \cup (job[t].kept \cap {file.text})
        /\ job' = [job EXCEPT ![t] = [at |-> "load"]]
    BY <1>8 DEF Write
  <2>2. job'[t] = [at |-> "load"] /\ \A u \in Threads \ {t} : job'[u] = job[u]
    BY <2>1, JobAt
  <2>3. \A b : \A u \in Threads : Chosen(u, b)' => Chosen(u, b)
    BY <2>2 DEF Chosen
  <2>4. \A text : Kept(text) => Kept(text)'
    BY <2>1, <2>3 DEF Kept
  <2>5. \A text \in owed' : Kept(text)'
    BY <2>1, <2>4 DEF KeptIsKept, KeptBy
  <2>6. ASSUME NEW u \in Threads PROVE KeptBy(u)'
    <3>1. KeptBy(u) /\ (job'[u] = job[u] \/ job'[u] = [at |-> "load"])
      BY <2>2 DEF KeptIsKept
    <3>2. CASE job'[u] = job[u]
      BY <2>1, <2>3, <2>4, <3>1, <3>2 DEF KeptBy
    <3>3. CASE job'[u] = [at |-> "load"]
      BY <3>3 DEF KeptBy
    <3> QED
      BY <3>1, <3>2, <3>3
  <2> QED
    BY <2>1, <2>5, <2>6 DEF KeptIsKept
<1>9. ASSUME NEW t \in Threads, DeleteBackup(t) PROVE KeptIsKept'
  <2>1. PICK b \in DOMAIN backups :
              /\ backups' = Restrict(backups, DOMAIN backups \ {b})
              /\ owed' = owed \ {backups[b]}
              /\ \A u \in Threads :
                    IF job[u].at \in {"fetch", "write"}
                    THEN /\ job'[u].at = job[u].at
                         /\ job'[u].kept = job[u].kept \ {backups[b]}
                    ELSE job'[u] = job[u]
    BY <1>9, DeleteStep
  <2>2. backups' = [c \in DOMAIN backups \ {b} |-> backups[c]]
    BY <2>1 DEF Restrict
  <2>3. \A c : \A u \in Threads : Chosen(u, c)' => Chosen(u, c)
    BY <2>1 DEF Chosen
  <2>4. \A text : Kept(text) /\ text # backups[b] => Kept(text)'
    BY <2>2, <2>3 DEF Kept
  <2>5. IsFiniteSet(DOMAIN backups) /\ DOMAIN backups' = DOMAIN backups \ {b}
    BY <2>2 DEF KeptIsKept
  <2>6. IsFiniteSet((DOMAIN backups)')
    BY <2>5, FS_RemoveElement
  <2>7. backups' = [c \in DOMAIN backups' |-> backups'[c]]
    BY <2>2
  <2>8. \A text \in owed' : Kept(text)'
    BY <2>1, <2>4 DEF KeptIsKept
  <2>9. ASSUME NEW u \in Threads PROVE KeptBy(u)'
    <3>1. KeptBy(u)
      BY DEF KeptIsKept
    <3>2. CASE job[u].at \in {"fetch", "write"}
      BY <2>1, <2>4, <3>1, <3>2 DEF KeptBy
    <3>3. CASE job[u].at \notin {"fetch", "write"}
      <4>1. job'[u] = job[u]
        BY <2>1, <3>3
      <4> QED
        BY <2>3, <2>5, <3>1, <3>3, <4>1 DEF KeptBy
    <3> QED
      BY <3>2, <3>3
  <2> QED
    BY <2>6, <2>7, <2>8, <2>9 DEF KeptIsKept
<1>10. ASSUME Restart PROVE KeptIsKept'
  <2>1. backups' = backups /\ owed' = owed /\ \A u \in Threads : job'[u] = Idle
    BY <1>10 DEF Restart, files
  <2> QED
    BY <2>1, KeptAsBefore DEF Idle, Calls
<1>11. ASSUME UNCHANGED <<backups, owed, job>> PROVE KeptIsKept'
  BY <1>11, KeptAsBefore
<1>12. HandEdit \/ Tick \/ UNCHANGED vars => UNCHANGED <<backups, owed, job>>
  BY DEF HandEdit, Tick, vars, ghost, files
<1> QED
  BY <1>1, <1>2, <1>3, <1>4, <1>5, <1>6, <1>7, <1>8, <1>9, <1>10, <1>11, <1>12
     DEF Next, Reload, Console, Pen, Backing, Threads

(* JobsShaped and KeptIsKept hold at the start.                            *)
LEMMA KeptAtFirst ==
    ASSUME Init
    PROVE  JobsShaped /\ KeptIsKept
<1>1. IsFiniteSet({})
  BY FS_EmptySet
<1>2. DOMAIN backups = {} /\ backups = [b \in DOMAIN backups |-> backups[b]]
  BY DEF Init
<1> QED
  BY <1>1, <1>2 DEF Init, JobsShaped, IsJob, KeptIsKept, KeptBy, Idle

(* What a call replaced after its safety copy is in a backup until         *)
(* somebody deletes it: restore, toggle and duplicate, configbackup.rs:188.*)
(* Any consoles may copy, restore and delete between the steps of the      *)
(* copy.  A call whose chosen name another thread chose as well before it  *)
(* was written is excepted: of the two copies only the later one is left.  *)
THEOREM ReplacedStaysKept == Spec => []ReplacedIsKept
<1>1. Init => JobsShaped /\ KeptIsKept
  BY KeptAtFirst
<1>2. JobsShaped /\ KeptIsKept /\ [Next]_vars => (JobsShaped /\ KeptIsKept)'
  BY JobsStayShaped, KeptStaysKept
<1>3. KeptIsKept => ReplacedIsKept
  BY DEF KeptIsKept, Kept, ReplacedIsKept
<1> QED
  BY <1>1, <1>2, <1>3, PTL DEF Spec

-----------------------------------------------------------------------------
(* Reloads                                                                 *)

(* A step outside the reloads.                                             *)
Aside ==
    /\ \A u \in Threads :
          \/ job'[u] = job[u]
          \/ job[u].at \notin Loaders /\ job'[u].at \notin Loaders
    /\ cfg' = cfg /\ accounts' = accounts /\ registry' = registry
    /\ overtaken' = overtaken

(* And one that leaves the file and the loads alone as well.               *)
NoNews ==
    /\ \A u \in Threads : job'[u].at = "load" <=> job[u].at = "load"
    /\ file' = file /\ seen' = seen /\ unseen' = unseen

(* Calls, copies and deletions leave the file, the reloads and what they   *)
(* install alone.                                                          *)
LEMMA CallsAreAside ==
    ASSUME JobsShaped, NEW t \in Threads, Pen(t) \/ Backing(t) \/ DeleteBackup(t)
    PROVE  Aside /\ NoNews
<1>1. CASE Pen(t)
  <2>1. PICK j : PenMoves(t, j)
    BY <1>1, PenSteps
  <2>2. /\ job' = [job EXCEPT ![t] = j]
        /\ job[t].at \notin Loaders /\ j.at \notin Loaders
        /\ job[t].at # "load" /\ j.at # "load"
    BY <2>1 DEF PenMoves, IsCall, Idle, Calls, Loaders
  <2>3. /\ cfg' = cfg /\ accounts' = accounts /\ registry' = registry /\ overtaken' = overtaken
        /\ file' = file /\ seen' = seen /\ unseen' = unseen
    BY <2>1 DEF PenMoves, files, live, ghost
  <2> QED
    BY <2>2, <2>3, JobAt DEF Aside, NoNews
<1>2. CASE Backing(t)
  <2>1. \A u \in Threads :
          \/ job'[u] = job[u]
          \/ IsCall(job[u]) /\ (job'[u] = Idle \/ IsCall(job'[u]))
    BY <1>2, BackingSteps
  <2>2. \A j : (j = Idle \/ IsCall(j)) => j.at \notin Loaders /\ j.at # "load"
    BY DEF IsCall, Calls, Loaders, Idle
  <2>3. /\ cfg' = cfg /\ accounts' = accounts /\ registry' = registry /\ overtaken' = overtaken
        /\ file' = file /\ seen' = seen /\ unseen' = unseen
    BY <1>2, BackingSteps DEF live, ghost
  <2>4. \A u \in Threads :
          \/ job'[u] = job[u]
          \/ /\ job[u].at \notin Loaders /\ job'[u].at \notin Loaders
             /\ job[u].at # "load" /\ job'[u].at # "load"
    BY <2>1, <2>2
  <2> QED
    BY <2>3, <2>4 DEF Aside, NoNews
<1>3. CASE DeleteBackup(t)
  <2>1. \A u \in Threads : job'[u] = job[u] \/ (IsCall(job[u]) /\ IsCall(job'[u]))
    BY <1>3, DeleteStep
  <2>2. \A j : IsCall(j) => j.at \notin Loaders /\ j.at # "load"
    BY DEF IsCall, Calls, Loaders
  <2>3. /\ cfg' = cfg /\ accounts' = accounts /\ registry' = registry /\ overtaken' = overtaken
        /\ file' = file /\ seen' = seen /\ unseen' = unseen
    BY <1>3 DEF DeleteBackup, live
  <2>4. \A u \in Threads :
          \/ job'[u] = job[u]
          \/ /\ job[u].at \notin Loaders /\ job'[u].at \notin Loaders
             /\ job[u].at # "load" /\ job'[u].at # "load"
    BY <2>1, <2>2
  <2> QED
    BY <2>3, <2>4 DEF Aside, NoNews
<1> QED
  BY <1>1, <1>2, <1>3

(* A write, an edit by hand and a poll leave a text in the file that is    *)
(* still to be read, or change nothing that runs.                          *)
LEMMA NewsIsAside ==
    ASSUME JobsShaped, (\E t \in Threads : Write(t)) \/ Poll \/ HandEdit
    PROVE  Aside /\ NewsOnFile'
<1>1. ASSUME NEW t \in Threads, Write(t) \/ (t = "watcher" /\ Poll)
      PROVE  Aside /\ NewsOnFile'
  <2>1. /\ job' = [job EXCEPT ![t] = [at |-> "load"]] /\ job[t].at \notin Loaders
        /\ cfg' = cfg /\ accounts' = accounts /\ registry' = registry /\ overtaken' = overtaken
    BY <1>1 DEF Write, Poll, live, ghost, Idle, Loaders
  <2>2. job'[t].at = "load"
    BY <2>1, JobAt
  <2>3. NewsOnFile'
    BY <2>2 DEF NewsOnFile
  <2> QED
    BY <2>1, <2>2, <2>3, JobAt DEF Aside, Loaders
<1>2. CASE HandEdit
  <2>1. Aside
    BY <1>2 DEF HandEdit, Aside, live
  <2>2. PICK text : /\ file' = [text |-> text, at |-> clock]
                    /\ unseen' = (Length(text) = Length(seen.text) /\ clock = seen.at)
    BY <1>2 DEF HandEdit
  <2>3. seen' = seen
    BY <1>2 DEF HandEdit
  <2>4. CASE unseen'
    BY <2>1, <2>4 DEF NewsOnFile
  <2>5. CASE ~unseen'
    <3>1. Signature(file)' = [length |-> Length(text), at |-> clock]
      BY <2>2 DEF Signature
    <3>2. Signature(seen)' = [length |-> Length(seen.text), at |-> seen.at]
      BY <2>3 DEF Signature
    <3> DEFINE l1 == Length(text)
               l2 == Length(seen.text)
               s1 == [length |-> l1, at |-> clock]
               s2 == [length |-> l2, at |-> seen.at]
    <3>3. s1.length = l1 /\ s1.at = clock /\ s2.length = l2 /\ s2.at = seen.at
      OBVIOUS
    <3>4. l1 # l2 \/ clock # seen.at
      BY <2>2, <2>5
    <3> HIDE DEF l1, l2, s1, s2
    <3>5. s1 # s2
      BY <3>3, <3>4
    <3>6. Signature(file)' # Signature(seen)'
      BY <3>1, <3>2, <3>5 DEF s1, s2, l1, l2
    <3> QED
      BY <2>1, <3>6 DEF NewsOnFile
  <2> QED
    BY <2>4, <2>5
<1> QED
  BY <1>1, <1>2 DEF Poll, Threads

(* What the steps outside the reloads keep.                                *)
LEMMA AsideKeeps ==
    ASSUME OneNewest, OneRegistry, Aside
    PROVE  OneNewest' /\ OneRegistry'
<1>1. \A u \in Threads : job'[u].at \in Loaders \/ job[u].at \in Loaders => job'[u] = job[u]
  BY DEF Aside
<1>2. OneNewest'
  BY <1>1 DEF OneNewest, Newest
<1>3. registry' = registry /\ accounts' = accounts /\ overtaken' = overtaken
  BY DEF Aside
<1>4. \A u \in Threads :
        \/ job'[u] = job[u]
        \/ /\ job'[u].at \notin {"retain", "config", "accounts"}
           /\ job[u].at \notin {"retain", "config", "accounts"}
  BY <1>1 DEF Loaders
<1>5. ASSUME ~overtaken.met
      PROVE  /\ \A t, u \in Threads : job'[t].at \in Loaders /\ job'[u].at \in Loaders => t = u
             /\ (\A t \in Threads : job'[t].at \notin {"retain", "config", "accounts"}) =>
                   accounts.rts = registry
             /\ \A t \in Threads :
                   /\ job'[t].at = "retain" =>
                         \A n \in DOMAIN job'[t].rts : n \in DOMAIN registry /\ registry[n] = job'[t].rts[n]
                   /\ job'[t].at \in {"config", "accounts"} => registry = job'[t].rts
  <2>1. \A t, u \in Threads : job'[t].at \in Loaders /\ job'[u].at \in Loaders => t = u
    BY <1>1, <1>5 DEF OneRegistry
  <2>2. (\A t \in Threads : job'[t].at \notin {"retain", "config", "accounts"}) =>
            accounts.rts = registry
    BY <1>4, <1>5 DEF OneRegistry
  <2>3. ASSUME NEW t \in Threads, job'[t].at \in {"retain", "config", "accounts"}
        PROVE  /\ job'[t].at = "retain" =>
                     \A n \in DOMAIN job'[t].rts : n \in DOMAIN registry /\ registry[n] = job'[t].rts[n]
               /\ job'[t].at \in {"config", "accounts"} => registry = job'[t].rts
    BY <1>4, <1>5, <2>3 DEF OneRegistry
  <2> QED
    BY <2>1, <2>2, <2>3
<1> QED
  BY <1>2, <1>3, <1>5 DEF OneRegistry

(* A step that leaves the reloads and the file alone keeps the truth on    *)
(* its way.                                                                *)
LEMMA NoNewsKeeps ==
    ASSUME TruthOnItsWay, Aside, NoNews
    PROVE  TruthOnItsWay'
<1>1. NewsOnFile => NewsOnFile'
  BY DEF NewsOnFile, NoNews, Signature
<1>2. /\ cfg' = cfg /\ accounts' = accounts /\ overtaken' = overtaken /\ file' = file
  BY DEF Aside, NoNews
<1>3. \A u \in Threads : Newest(u)' => Newest(u) /\ job'[u] = job[u]
  BY DEF Aside, Newest
<1>4. \A u \in Threads : Newest(u) => Newest(u)' /\ job'[u] = job[u]
  BY DEF Aside, Newest
<1>5. CASE NewsOnFile
  BY <1>1, <1>5 DEF TruthOnItsWay
<1>6. CASE ~NewsOnFile
  <2>1. \A u \in Threads : Newest(u)' => job'[u].conf = Parse(file.text)
    BY <1>3, <1>6 DEF TruthOnItsWay
  <2>2. \/ \E u \in Threads : Newest(u)' /\ job'[u].at # "accounts"
        \/ overtaken.config
        \/ cfg = Parse(file.text)
    BY <1>4, <1>6 DEF TruthOnItsWay
  <2>3. \/ \E u \in Threads : Newest(u)'
        \/ overtaken.accounts
        \/ accounts.list = Parse(file.text).accounts
    BY <1>4, <1>6 DEF TruthOnItsWay
  <2> QED
    BY <1>2, <2>1, <2>2, <2>3 DEF TruthOnItsWay
<1> QED
  BY <1>5, <1>6

(* The invariant is kept by Load: the newest reload now has the file's     *)
(* text.                                                                   *)
LEMMA LoadKeeps ==
    ASSUME JobsShaped, OneNewest, TruthOnItsWay, OneRegistry, NEW t \in Threads, Load(t)
    PROVE  OneNewest' /\ TruthOnItsWay' /\ OneRegistry'
<1>1. file' = file /\ cfg' = cfg /\ accounts' = accounts /\ registry' = registry
  BY DEF Load, files, live
<1>2. /\ job[t].at = "load"
      /\ ~overtaken'.met =>
            ~overtaken.met /\ \A u \in Threads \ {t} : job[u].at \notin Loaders
  BY LoadStep
<1>3. CASE ~Parses(file.text)
  <2>1. job'[t] = Idle /\ \A u \in Threads \ {t} : job'[u] = job[u]
    BY <1>3, LoadStep
  <2>2. job'[t].at \notin Loaders /\ job[t].at \notin Loaders
    BY <1>2, <2>1 DEF Idle, Loaders
  <2>3. OneNewest'
    BY <2>1, <2>2 DEF OneNewest, Newest
  <2>4. TruthOnItsWay'
    BY <1>1, <1>3 DEF TruthOnItsWay, NewsOnFile
  <2>5. ASSUME ~overtaken'.met PROVE \A u \in Threads : job[u].at \notin Loaders /\ job'[u].at \notin Loaders
    BY <1>2, <2>1, <2>2, <2>5
  <2>6. ASSUME ~overtaken'.met PROVE accounts.rts = registry
    BY <1>2, <2>5, <2>6 DEF OneRegistry, Loaders
  <2>7. OneRegistry'
    BY <1>1, <2>5, <2>6 DEF OneRegistry, Loaders
  <2> QED
    BY <2>3, <2>4, <2>7
<1>4. CASE Parses(file.text)
  <2> DEFINE new == [at |-> "build", conf |-> Parse(file.text), late |-> FALSE]
  <2>1. /\ job'[t] = new
        /\ \A u \in Threads \ {t} : IF job[u].at \in Loaders THEN Aged(job'[u], job[u])
                                   ELSE job'[u] = job[u]
    BY <1>4, LoadStep
  <2>2. new.at = "build" /\ new.conf = Parse(file.text) /\ new.late = FALSE
    OBVIOUS
  <2> HIDE DEF new
  <2>3. \A u \in Threads \ {t} : ~Newest(u)'
    BY <2>1 DEF Newest, Aged
  <2>4. Newest(t)' /\ job'[t].conf = Parse(file.text) /\ job'[t].at # "accounts"
    BY <2>1, <2>2 DEF Newest, Loaders
  <2>5. OneNewest'
    BY <2>3 DEF OneNewest
  <2>6. TruthOnItsWay'
    BY <1>1, <2>3, <2>4 DEF TruthOnItsWay
  <2>7. ASSUME ~overtaken'.met
        PROVE  \A u \in Threads : job[u].at \notin Loaders /\ (u # t => job'[u].at \notin Loaders)
    BY <1>2, <2>1, <2>7 DEF Loaders
  <2>8. ASSUME ~overtaken'.met PROVE accounts.rts = registry
    BY <1>2, <2>7, <2>8 DEF OneRegistry, Loaders
  <2>9. OneRegistry'
    BY <1>1, <2>1, <2>2, <2>7, <2>8 DEF OneRegistry, Loaders
  <2> QED
    BY <2>5, <2>6, <2>9
<1> QED
  BY <1>3, <1>4

(* A reload that goes on, as young as it was.                              *)
LEMMA StageKeeps ==
    ASSUME JobsShaped, OneNewest, NEW t \in Threads, NEW j, job' = [job EXCEPT ![t] = j],
           job[t].at \in Loaders, j.at \in Loaders,
           j.late = job[t].late, j.conf = job[t].conf,
           file' = file, seen' = seen, unseen' = unseen
    PROVE  /\ OneNewest'
           /\ job'[t] = j /\ \A u \in Threads \ {t} : job'[u] = job[u]
           /\ \A u \in Threads : Newest(u)' <=> Newest(u)
           /\ \A u \in Threads : Newest(u)' => job'[u].conf = job[u].conf
           /\ NewsOnFile => NewsOnFile'
<1>1. job'[t] = j /\ \A u \in Threads \ {t} : job'[u] = job[u]
  BY JobAt
<1>2. \A u \in Threads : /\ Newest(u)' <=> Newest(u)
                         /\ job'[u].at = "load" <=> job[u].at = "load"
  BY <1>1 DEF Newest, Loaders
<1>3. \A u \in Threads : Newest(u)' => job'[u].conf = job[u].conf
  BY <1>1
<1>4. NewsOnFile => NewsOnFile'
  BY <1>2 DEF NewsOnFile, Signature
<1>5. OneNewest'
  BY <1>2 DEF OneNewest
<1> QED
  BY <1>1, <1>2, <1>3, <1>4, <1>5

(* The invariant is kept by Build and Retain.                              *)
LEMMA FirstStagesKeep ==
    ASSUME JobsShaped, OneNewest, TruthOnItsWay, OneRegistry, NEW t \in Threads,
           Build(t) \/ Retain(t)
    PROVE  OneNewest' /\ TruthOnItsWay' /\ OneRegistry'
<1>1. /\ file' = file /\ seen' = seen /\ unseen' = unseen
      /\ cfg' = cfg /\ accounts' = accounts /\ overtaken' = overtaken
  BY DEF Build, Retain, files, ghost
<1>2. job[t].at \in {"build", "retain"}
  BY DEF Build, Retain
<1>3. PICK j : /\ j.at \in {"retain", "config"} /\ j.late = job[t].late /\ j.conf = job[t].conf
               /\ job' = [job EXCEPT ![t] = j]
               /\ j.at = "retain" => \A n \in DOMAIN j.rts : n \in DOMAIN registry' /\ registry'[n] = j.rts[n]
               /\ j.at = "config" => Retain(t) /\ j.rts = job[t].rts
  <2>1. CASE Build(t)
    BY <2>1, BuildStep
  <2>2. CASE Retain(t)
    BY <2>2, InstallSteps DEF GoesOn
  <2> QED
    BY <2>1, <2>2
<1>4. job[t].at \in Loaders /\ j.at \in Loaders
  BY <1>2, <1>3 DEF Loaders
<1>5. /\ OneNewest'
      /\ job'[t] = j /\ \A u \in Threads \ {t} : job'[u] = job[u]
      /\ \A u \in Threads : Newest(u)' <=> Newest(u)
      /\ \A u \in Threads : Newest(u)' => job'[u].conf = job[u].conf
      /\ NewsOnFile => NewsOnFile'
  BY <1>1, <1>3, <1>4, StageKeeps
<1>6. TruthOnItsWay'
  <2>1. CASE NewsOnFile
    BY <1>5, <2>1 DEF TruthOnItsWay
  <2>2. CASE ~NewsOnFile
    <3>1. \A u \in Threads : Newest(u)' => job'[u].conf = Parse(file.text)
      BY <1>5, <2>2 DEF TruthOnItsWay
    <3>2. \A u \in Threads : job'[u].at = "accounts" => job[u].at = "accounts"
      BY <1>3, <1>5
    <3>3. \/ \E u \in Threads : Newest(u)' /\ job'[u].at # "accounts"
          \/ overtaken.config
          \/ cfg = Parse(file.text)
      BY <1>5, <2>2, <3>2 DEF TruthOnItsWay
    <3>4. \/ \E u \in Threads : Newest(u)'
          \/ overtaken.accounts
          \/ accounts.list = Parse(file.text).accounts
      BY <1>5, <2>2 DEF TruthOnItsWay
    <3> QED
      BY <1>1, <3>1, <3>3, <3>4 DEF TruthOnItsWay
  <2> QED
    BY <2>1, <2>2
<1>7. ASSUME ~overtaken.met
      PROVE  \A u \in Threads \ {t} : job'[u].at \notin Loaders
  BY <1>4, <1>5, <1>7 DEF OneRegistry
<1>8. ASSUME ~overtaken.met, j.at = "config"
      PROVE  registry' = j.rts
  <2>1. Retain(t) /\ job[t].at = "retain"
    BY <1>3, <1>8 DEF Retain
  <2> DEFINE names == NamesOf(job[t].conf.accounts)
             rts == job[t].rts
  <2>2. registry' = [n \in DOMAIN registry \cap names |-> registry[n]]
    BY <2>1 DEF Retain, Restrict
  <2>3. rts = [n \in names |-> rts[n]]
    BY <2>1, InstallSteps DEF IsInstall
  <2>4. \A n \in DOMAIN rts : n \in DOMAIN registry /\ registry[n] = rts[n]
    BY <1>8, <2>1 DEF OneRegistry
  <2> HIDE DEF names, rts
  <2>5. registry' = rts
    BY <2>2, <2>3, <2>4
  <2> QED
    BY <1>3, <1>8, <2>5 DEF rts
<1>9. OneRegistry'
  <2>1. ASSUME ~overtaken.met
        PROVE  \A u, v \in Threads : job'[u].at \in Loaders /\ job'[v].at \in Loaders => u = v
    BY <1>7, <2>1
  <2>2. ASSUME ~overtaken.met, NEW u \in Threads,
               job'[u].at \in {"retain", "config", "accounts"}
        PROVE  /\ job'[u].at = "retain" =>
                     \A n \in DOMAIN job'[u].rts : n \in DOMAIN registry' /\ registry'[n] = job'[u].rts[n]
               /\ job'[u].at \in {"config", "accounts"} => registry' = job'[u].rts
    <3>1. u = t /\ job'[u] = j
      BY <1>5, <1>7, <2>2 DEF Loaders
    <3> QED
      BY <1>3, <1>8, <2>2, <3>1
  <2>3. job'[t].at \in {"retain", "config", "accounts"}
    BY <1>3, <1>5
  <2> QED
    BY <1>1, <2>1, <2>2, <2>3 DEF OneRegistry
<1> QED
  BY <1>5, <1>6, <1>9

(* The invariant is kept by SetConfig.                                     *)
LEMMA SetConfigKeeps ==
    ASSUME JobsShaped, OneNewest, TruthOnItsWay, OneRegistry, NEW t \in Threads, SetConfig(t)
    PROVE  OneNewest' /\ TruthOnItsWay' /\ OneRegistry'
<1>1. /\ file' = file /\ seen' = seen /\ unseen' = unseen
      /\ accounts' = accounts /\ registry' = registry /\ job[t].at = "config"
  BY DEF SetConfig, files
<1>2. /\ cfg' = job[t].conf /\ overtaken'.config = job[t].late
      /\ overtaken'.accounts = overtaken.accounts /\ overtaken'.met = overtaken.met
  BY DEF SetConfig, JobsShaped
<1>3. PICK j : /\ j.at = "accounts" /\ j.late = job[t].late /\ j.conf = job[t].conf
               /\ j.rts = job[t].rts /\ job' = [job EXCEPT ![t] = j]
  BY InstallSteps DEF GoesOn
<1>4. job[t].at \in Loaders /\ j.at \in Loaders
  BY <1>1, <1>3 DEF Loaders
<1>5. /\ OneNewest'
      /\ job'[t] = j /\ \A u \in Threads \ {t} : job'[u] = job[u]
      /\ \A u \in Threads : Newest(u)' <=> Newest(u)
      /\ \A u \in Threads : Newest(u)' => job'[u].conf = job[u].conf
      /\ NewsOnFile => NewsOnFile'
  BY <1>1, <1>3, <1>4, StageKeeps
<1>6. TruthOnItsWay'
  <2>1. CASE NewsOnFile
    BY <1>5, <2>1 DEF TruthOnItsWay
  <2>2. CASE ~NewsOnFile
    <3>1. \A u \in Threads : Newest(u)' => job'[u].conf = Parse(file.text)
      BY <1>5, <2>2 DEF TruthOnItsWay
    <3>2. job[t].late \in BOOLEAN
      BY InstallSteps DEF IsInstall
    <3>3. overtaken'.config \/ cfg' = Parse(file.text)
      BY <1>2, <1>4, <2>2, <3>2 DEF TruthOnItsWay, Newest
    <3>4. \/ \E u \in Threads : Newest(u)'
          \/ overtaken.accounts
          \/ accounts.list = Parse(file.text).accounts
      BY <1>5, <2>2 DEF TruthOnItsWay
    <3> QED
      BY <1>1, <1>2, <3>1, <3>3, <3>4 DEF TruthOnItsWay
  <2> QED
    BY <2>1, <2>2
<1>7. OneRegistry'
  <2>1. ASSUME ~overtaken.met
        PROVE  \A u \in Threads \ {t} : job'[u].at \notin Loaders
    BY <1>4, <1>5, <2>1 DEF OneRegistry
  <2>2. ASSUME ~overtaken.met
        PROVE  registry = job[t].rts
    BY <1>1, <2>2 DEF OneRegistry
  <2> QED
    BY <1>1, <1>2, <1>3, <1>5, <2>1, <2>2 DEF OneRegistry, Loaders
<1> QED
  BY <1>5, <1>6, <1>7

(* The invariant is kept by SetAccounts, the last stage of a reload.       *)
LEMMA SetAccountsKeeps ==
    ASSUME JobsShaped, OneNewest, TruthOnItsWay, OneRegistry, NEW t \in Threads, SetAccounts(t)
    PROVE  OneNewest' /\ TruthOnItsWay' /\ OneRegistry'
<1>1. /\ file' = file /\ seen' = seen /\ unseen' = unseen
      /\ cfg' = cfg /\ registry' = registry
      /\ job[t].at = "accounts" /\ job' = [job EXCEPT ![t] = Idle]
  BY DEF SetAccounts, files
<1>2. /\ accounts'.list = job[t].conf.accounts /\ accounts'.rts = job[t].rts
      /\ overtaken'.accounts = job[t].late
      /\ overtaken'.config = overtaken.config /\ overtaken'.met = overtaken.met
  BY DEF SetAccounts, JobsShaped
<1>3. job'[t] = Idle /\ \A u \in Threads \ {t} : job'[u] = job[u]
  BY <1>1, JobAt
<1>4. job'[t].at \notin Loaders /\ job[t].at \in Loaders
  BY <1>1, <1>3 DEF Idle, Loaders
<1>5. \A u \in Threads : Newest(u)' <=> Newest(u) /\ u # t
  BY <1>3, <1>4 DEF Newest
<1>6. OneNewest'
  BY <1>5 DEF OneNewest
<1>7. NewsOnFile => NewsOnFile'
  <2>1. \A u \in Threads : job[u].at = "load" => job'[u].at = "load"
    BY <1>1, <1>3
  <2> QED
    BY <1>1, <2>1 DEF NewsOnFile, Signature
<1>8. TruthOnItsWay'
  <2>1. CASE NewsOnFile
    BY <1>7, <2>1 DEF TruthOnItsWay
  <2>2. CASE ~NewsOnFile
    <3>1. \A u \in Threads : Newest(u)' => job'[u].conf = Parse(file.text)
      BY <1>3, <1>5, <2>2 DEF TruthOnItsWay
    <3>2. \/ \E u \in Threads : Newest(u)' /\ job'[u].at # "accounts"
          \/ overtaken.config
          \/ cfg = Parse(file.text)
      BY <1>1, <1>3, <1>5, <2>2 DEF TruthOnItsWay
    <3>3. job[t].late \in BOOLEAN
      BY InstallSteps DEF IsInstall
    <3>4. overtaken'.accounts \/ accounts'.list = Parse(file.text).accounts
      BY <1>2, <1>4, <2>2, <3>3 DEF TruthOnItsWay, Newest
    <3> QED
      BY <1>1, <1>2, <3>1, <3>2, <3>4 DEF TruthOnItsWay
  <2> QED
    BY <2>1, <2>2
<1>9. OneRegistry'
  <2>1. ASSUME ~overtaken.met
        PROVE  \A u \in Threads : job'[u].at \notin Loaders
    BY <1>3, <1>4, <2>1 DEF OneRegistry
  <2>2. ASSUME ~overtaken.met
        PROVE  registry = job[t].rts
    BY <1>1, <2>2 DEF OneRegistry
  <2> QED
    BY <1>1, <1>2, <2>1, <2>2 DEF OneRegistry, Loaders
<1> QED
  BY <1>6, <1>8, <1>9

(* A restart reads the file and ends every job, so the invariant holds     *)
(* after it.                                                               *)
LEMMA RestartKeeps ==
    ASSUME JobsShaped, Restart
    PROVE  OneNewest' /\ TruthOnItsWay' /\ OneRegistry'
<1>1. /\ \A u \in Threads : job'[u] = Idle
      /\ file' = file /\ cfg' = Parse(file.text)
      /\ accounts'.list = Parse(file.text).accounts /\ accounts'.rts = registry'
  BY DEF Restart, files
<1>2. \A u \in Threads : job'[u].at \notin Loaders
  BY <1>1 DEF Idle, Loaders
<1>3. \A u \in Threads : ~Newest(u)'
  BY <1>2 DEF Newest
<1>4. OneRegistry'
  BY <1>1, <1>2 DEF OneRegistry, Loaders
<1> QED
  BY <1>1, <1>3, <1>4 DEF OneNewest, TruthOnItsWay

(* The invariant holds at the start.                                       *)
LEMMA TruthAtFirst ==
    ASSUME Init
    PROVE  OneNewest /\ TruthOnItsWay /\ OneRegistry
<1>1. /\ \A u \in Threads : job[u] = Idle
      /\ cfg = Parse(file.text)
      /\ accounts.list = cfg.accounts /\ accounts.rts = registry
  BY DEF Init
<1>2. \A u \in Threads : job[u].at \notin Loaders
  BY <1>1 DEF Idle, Loaders
<1>3. \A u \in Threads : ~Newest(u)
  BY <1>2 DEF Newest
<1>4. OneRegistry
  BY <1>1, <1>2 DEF OneRegistry, Loaders
<1> QED
  BY <1>1, <1>3, <1>4 DEF OneNewest, TruthOnItsWay

(* The invariant is kept by every step.                                    *)
LEMMA TruthStaysOnItsWay ==
    ASSUME JobsShaped, OneNewest, TruthOnItsWay, OneRegistry, [Next]_vars
    PROVE  OneNewest' /\ TruthOnItsWay' /\ OneRegistry'
<1>1. ASSUME NEW t \in Threads, Reload(t)
      PROVE  OneNewest' /\ TruthOnItsWay' /\ OneRegistry'
  BY <1>1, LoadKeeps, FirstStagesKeep, SetConfigKeeps, SetAccountsKeeps DEF Reload
<1>2. CASE Aside /\ NoNews
  BY <1>2, AsideKeeps, NoNewsKeeps
<1>3. CASE Aside /\ NewsOnFile'
  BY <1>3, AsideKeeps DEF TruthOnItsWay
<1>4. ASSUME NEW t \in Consoles, Console(t)
      PROVE  (Aside /\ NoNews) \/ (Aside /\ NewsOnFile')
  <2>1. t \in Threads
    BY DEF Threads
  <2>2. Pen(t) \/ Backing(t) \/ DeleteBackup(t) \/ Write(t)
    BY <1>4 DEF Console, Pen, Backing
  <2> QED
    BY <2>1, <2>2, CallsAreAside, NewsIsAside
<1>5. Poll \/ HandEdit => Aside /\ NewsOnFile'
  BY NewsIsAside
<1>6. Tick \/ UNCHANGED vars => Aside /\ NoNews
  BY DEF Tick, vars, files, live, ghost, Aside, NoNews
<1> QED
  BY <1>1, <1>2, <1>3, <1>4, <1>5, <1>6, RestartKeeps DEF Next

(* Once every reload is over the live configuration is what the file says, *)
(* and what a live endpoint counts in is in the registry: api.rs:4,        *)
(* AppState::reload and the watcher.                                       *)
THEOREM TheFileIsTheTruth == Spec => []FileIsTruth
<1> DEFINE Inv == JobsShaped /\ OneNewest /\ TruthOnItsWay /\ OneRegistry
<1>1. Init => Inv
  BY KeptAtFirst, TruthAtFirst
<1>2. Inv /\ [Next]_vars => Inv'
  BY JobsStayShaped, TruthStaysOnItsWay
<1>3. Inv => FileIsTruth
  <2> SUFFICES ASSUME Inv, Settled, Parses(file.text), ~unseen, ~Overtaken
               PROVE  /\ cfg = Parse(file.text)
                      /\ accounts.list = cfg.accounts
                      /\ ~overtaken.met => accounts.rts = registry
    BY DEF FileIsTruth
  <2>1. \A t \in Threads : job[t].at = "idle"
    BY DEF Settled, Idle
  <2>2. ~NewsOnFile
    BY <2>1 DEF NewsOnFile, Settled
  <2>3. \A t \in Threads : ~Newest(t)
    BY <2>1 DEF Newest, Loaders
  <2>4. cfg = Parse(file.text) /\ accounts.list = Parse(file.text).accounts
    BY <2>2, <2>3 DEF TruthOnItsWay, Overtaken
  <2>5. ~overtaken.met => accounts.rts = registry
    BY <2>1 DEF OneRegistry
  <2> QED
    BY <2>4, <2>5
<1> QED
  BY <1>1, <1>2, <1>3, PTL DEF Spec

-----------------------------------------------------------------------------
(* What is read and written: from here on the edits and the export, for    *)
(* any configuration that can be live                                      *)

Kinds == {"plans", "fallback"}

-----------------------------------------------------------------------------
(* Lists in parts                                                          *)

(* A list grows entry by entry by those of the kind.                       *)
Gathers(h, list, kind, U) ==
    /\ h \in [0..Len(list) -> Seq(U)]
    /\ h[0] = <<>>
    /\ \A k \in 1..Len(list) :
          h[k] = IF list[k].kind = kind THEN Append(h[k-1], list[k]) ELSE h[k-1]
    /\ OfKind(list, kind) = h[Len(list)]

(* The list of one kind is built from the front, an entry at a time.       *)
LEMMA OfKindGrows ==
    ASSUME NEW U, NEW list \in Seq(U), NEW kind
    PROVE  \E h : Gathers(h, list, kind, U)
<1> DEFINE n == Len(list)
           D == 1..n
           V == Seq(U)
           Step(k, v) == IF list[k].kind = kind THEN Append(v, list[k]) ELSE v
           F == [x \in D \X V |-> Step(x[1], x[2])]
           Solves(g) == g = [t \in SUBSET D |->
                                IF t = {} THEN <<>> ELSE Step(Max(t), g[t \ {Max(t)}])]
           g == CHOOSE g : Solves(g)
           base == <<>>
<1>1. n \in Nat /\ DOMAIN list = D /\ \A k \in D : list[k] \in U
  OBVIOUS
<1>2. base \in V /\ \A k \in D, v \in V : Step(k, v) \in V /\ F[<<k, v>>] = Step(k, v)
  BY <1>1
<1>3. F \in [D \X V -> V]
  BY <1>2
<1> HIDE DEF Step, F, V, base
<1>4. PICK g0 : FoldsPlaces(g0, F, base, V, n)
  <2>1. n \in Nat /\ base \in V /\ F \in [(1..n) \X V -> V]
    BY <1>1, <1>2, <1>3
  <2> HIDE DEF n, Solves, g
  <2> QED
    BY <2>1, FoldOfPlaces, Zenon
<1>5. Solves(g0)
  <2>1. ASSUME NEW t \in SUBSET D
        PROVE  g0[t] = IF t = {} THEN <<>> ELSE Step(Max(t), g0[t \ {Max(t)}])
    BY <1>2, <1>4 DEF base, FoldsPlaces
  <2>2. g0 = [t \in SUBSET D |-> g0[t]]
    BY <1>4 DEF FoldsPlaces
  <2> QED
    BY <2>1, <2>2
<1>6. Solves(g)
  <2> HIDE DEF Solves
  <2> QED
    BY <1>5
<1>7. OfKind(list, kind) = g[D]
  BY <1>1 DEF OfKind, FoldLeft, MapThenFoldSet, Step
<1>8. g[{}] = base /\ \A t \in SUBSET D : t # {} => g[t] = Step(Max(t), g[t \ {Max(t)}])
  <2> HIDE DEF g, D
  <2> QED
    BY <1>6 DEF base
<1> HIDE DEF g
<1>9. \A t \in SUBSET D : t # {} /\ g[t \ {Max(t)}] \in V =>
          g[t] = F[<<Max(t), g[t \ {Max(t)}]>>]
  <2>1. \A t \in SUBSET D : t # {} => Max(t) \in D
    BY <1>1, LastPlace
  <2> QED
    BY <1>2, <1>8, <2>1
<1>10. PICK h : FromPlaceToPlace(h, g, F, base, V, n)
  <2>1. n \in Nat /\ base \in V /\ F \in [(1..n) \X V -> V]
    BY <1>1, <1>2, <1>3
  <2>2. StepsAmong(g, F, base, V, n)
    BY <1>8, <1>9 DEF StepsAmong
  <2> HIDE DEF n, Solves
  <2> QED
    BY <2>1, <2>2, FoldSteps, Zenon
<1>11. ASSUME NEW k \in D PROVE h[k] = Step(k, h[k-1])
  <2>1. k - 1 \in 0..n
    BY <1>1
  <2>2. h[k-1] \in V
    BY <1>10, <2>1 DEF FromPlaceToPlace
  <2>3. h[k] = F[<<k, h[k-1]>>]
    BY <1>10 DEF FromPlaceToPlace
  <2> QED
    BY <1>2, <2>2, <2>3
<1>12. h \in [0..n -> V] /\ h[0] = <<>> /\ h[n] = g[D]
  BY <1>10 DEF FromPlaceToPlace, base
<1>13. h \in [0..n -> Seq(U)]
  BY <1>12 DEF V
<1> QED
  BY <1>7, <1>11, <1>12, <1>13 DEF Step, Gathers

(* What is appended comes last.                                            *)
LEMMA AppendedAt ==
    ASSUME NEW U, NEW s \in Seq(U), NEW e \in U
    PROVE  /\ Append(s, e) \in Seq(U) /\ Len(Append(s, e)) = Len(s) + 1 /\ Len(s) \in Nat
           /\ Append(s, e) # <<>> /\ DOMAIN Append(s, e) = 1..(Len(s) + 1)
           /\ Append(s, e)[Len(s) + 1] = e
           /\ \A i \in DOMAIN s : Append(s, e)[i] = s[i]
           /\ \A i \in DOMAIN Append(s, e) :
                 \/ i \in DOMAIN s /\ Append(s, e)[i] = s[i]
                 \/ i = Len(s) + 1 /\ Append(s, e)[i] = e
<1>1. Len(s) \in Nat /\ DOMAIN s = 1..Len(s) /\ \A i \in DOMAIN s : s[i] \in U
  OBVIOUS
<1>2. Append(s, e) \in Seq(U) /\ Len(Append(s, e)) = Len(s) + 1
  OBVIOUS
<1>3. DOMAIN Append(s, e) = 1..(Len(s) + 1) /\ Append(s, e)[Len(s) + 1] = e
  BY <1>1, <1>2
<1>4. \A i \in DOMAIN s : Append(s, e)[i] = s[i]
  BY <1>1
<1>5. Append(s, e) # <<>>
  BY <1>1, <1>2
<1>6. \A i \in 1..(Len(s) + 1) : i \in 1..Len(s) \/ i = Len(s) + 1
  BY <1>1
<1> QED
  BY <1>1, <1>2, <1>3, <1>4, <1>5, <1>6

(* What is of one kind has that kind, and is there when the list has some. *)
LEMMA OfKindIsRight ==
    ASSUME NEW U, NEW list \in Seq(U), NEW kind
    PROVE  /\ OfKind(list, kind) \in Seq(U)
           /\ \A i \in DOMAIN OfKind(list, kind) : OfKind(list, kind)[i].kind = kind
           /\ \A i \in DOMAIN list : list[i].kind = kind => OfKind(list, kind) # <<>>
<1> DEFINE n == Len(list)
<1>1. n \in Nat /\ DOMAIN list = 1..n /\ \A k \in 1..n : list[k] \in U
  OBVIOUS
<1>0. PICK h : Gathers(h, list, kind, U)
  BY OfKindGrows
<1>2. /\ h \in [0..n -> Seq(U)] /\ h[0] = <<>>
      /\ \A k \in 1..n :
            h[k] = IF list[k].kind = kind THEN Append(h[k-1], list[k]) ELSE h[k-1]
      /\ OfKind(list, kind) = h[n]
  BY <1>0 DEF Gathers
<1> DEFINE Right(k) == /\ \A i \in DOMAIN h[k] : h[k][i].kind = kind
                       /\ \A i \in 1..k : list[i].kind = kind => h[k] # <<>>
           Good == {k \in 0..n : Right(k)}
<1>3. 0 \in Good
  <2>1. 0 \in 0..n /\ DOMAIN h[0] = {} /\ 1..0 = {}
    BY <1>1, <1>2
  <2> QED
    BY <2>1
<1>4. ASSUME NEW k \in 1..n, k - 1 \in Good PROVE k \in Good
  <2>1. k \in 0..n /\ k - 1 \in 0..n /\ h[k-1] \in Seq(U) /\ list[k] \in U
    BY <1>1, <1>2
  <2>2. Right(k-1)
    BY <1>4
  <2>3. CASE list[k].kind = kind
    <3> DEFINE s == h[k-1]
    <3>1. h[k] = Append(s, list[k])
      BY <1>2, <2>3
    <3>2. s \in Seq(U) /\ \A i \in DOMAIN s : s[i].kind = kind
      BY <2>1, <2>2
    <3> HIDE DEF s
    <3>3. /\ Append(s, list[k]) # <<>>
          /\ \A i \in DOMAIN Append(s, list[k]) :
                \/ i \in DOMAIN s /\ Append(s, list[k])[i] = s[i]
                \/ Append(s, list[k])[i] = list[k]
      BY <2>1, <3>2, AppendedAt
    <3>4. Right(k)
      BY <2>3, <3>1, <3>2, <3>3
    <3> QED
      BY <2>1, <3>4
  <2>4. CASE list[k].kind # kind
    <3>1. h[k] = h[k-1]
      BY <1>2, <2>4
    <3>2. \A i \in 1..k : i = k \/ i \in 1..(k-1)
      BY <1>1
    <3>3. Right(k)
      BY <2>2, <2>4, <3>1, <3>2
    <3> QED
      BY <2>1, <3>3
  <2> QED
    BY <2>3, <2>4
<1>5. \A k \in 0..n : k \in Good
  <2> HIDE DEF Good, n
  <2> QED
    BY <1>1, <1>3, <1>4, InductionUpTo
<1>6. Right(n)
  <2>1. n \in 0..n
    BY <1>1
  <2> QED
    BY <1>5, <2>1
<1>7. OfKind(list, kind) \in Seq(U)
  <2>1. n \in 0..n
    BY <1>1
  <2> QED
    BY <1>2, <2>1
<1> QED
  BY <1>1, <1>2, <1>6, <1>7

(* The first so many entries and the next one.                             *)
LEMMA OneMore ==
    ASSUME NEW U, NEW n \in Nat, NEW f, \A i \in 1..(n+1) : f[i] \in U
    PROVE  /\ [i \in 1..n |-> f[i]] \in Seq(U)
           /\ Append([i \in 1..n |-> f[i]], f[n+1]) = [i \in 1..(n+1) |-> f[i]]
<1> DEFINE s == [i \in 1..n |-> f[i]]
           t == [i \in 1..(n+1) |-> f[i]]
<1>1. s \in Seq(U) /\ t \in Seq(U)
  OBVIOUS
<1>2. Len(s) = n /\ DOMAIN s = 1..n /\ DOMAIN t = 1..(n+1)
      /\ (\A i \in 1..n : s[i] = f[i]) /\ (\A i \in 1..(n+1) : t[i] = f[i])
  BY <1>1
<1> HIDE DEF s, t
<1>3. Append(s, f[n+1]) = t
  BY <1>1, <1>2
<1> QED
  BY <1>1, <1>3 DEF s, t

(* The plans first, and then the fallbacks.                                *)
PartedAt(list, m) ==
    m \in 0..Len(list) /\ \A i \in DOMAIN list :
                             list[i].kind = IF i <= m THEN "plans" ELSE "fallback"

(* The two kinds of a list in parts are its two parts.                     *)
LEMMA PartsApart ==
    ASSUME NEW U, NEW list \in Seq(U), NEW m, PartedAt(list, m)
    PROVE  /\ OfKind(list, "plans") = [i \in 1..m |-> list[i]]
           /\ OfKind(list, "fallback") = [i \in 1..(Len(list) - m) |-> list[m + i]]
<1> DEFINE n == Len(list)
<1>1. n \in Nat /\ m \in Nat /\ m <= n /\ DOMAIN list = 1..n /\ \A k \in 1..n : list[k] \in U
  BY DEF PartedAt
<1>2. \A k \in 1..n : list[k].kind = IF k <= m THEN "plans" ELSE "fallback"
  BY <1>1 DEF PartedAt
<1>3. OfKind(list, "plans") = [i \in 1..m |-> list[i]]
  <2>a. PICK h : Gathers(h, list, "plans", U)
    BY OfKindGrows
  <2>1. /\ h \in [0..n -> Seq(U)] /\ h[0] = <<>>
        /\ \A k \in 1..n :
              h[k] = IF list[k].kind = "plans" THEN Append(h[k-1], list[k]) ELSE h[k-1]
        /\ OfKind(list, "plans") = h[n]
    BY <2>a DEF Gathers
  <2> DEFINE many(k) == IF k <= m THEN k ELSE m
             Good == {k \in 0..n : h[k] = [i \in 1..many(k) |-> list[i]]}
  <2> HIDE DEF n
  <2>2. 0 \in Good
    <3>1. 0 \in 0..n /\ many(0) = 0 /\ 1..0 = {}
      BY <1>1
    <3>2. [i \in 1..0 |-> list[i]] = <<>>
      BY <3>1
    <3> QED
      BY <2>1, <3>1, <3>2
  <2>3. ASSUME NEW k \in 1..n, k - 1 \in Good PROVE k \in Good
    <3>1. k \in 0..n /\ k - 1 \in Nat /\ k \in Nat /\ (k - 1) + 1 = k
      BY <1>1
    <3>2. h[k-1] = [i \in 1..many(k-1) |-> list[i]]
      BY <2>3
    <3>3. CASE k <= m
      <4>1. many(k-1) = k - 1 /\ many(k) = k
        BY <1>1, <3>1, <3>3
      <4>2. h[k] = Append([i \in 1..(k-1) |-> list[i]], list[k])
        BY <1>2, <2>1, <3>2, <3>3, <4>1
      <4>3. \A i \in 1..((k-1)+1) : list[i] \in U
        BY <1>1, <3>1
      <4>4. Append([i \in 1..(k-1) |-> list[i]], list[(k-1)+1]) =
               [i \in 1..((k-1)+1) |-> list[i]]
        BY <3>1, <4>3, OneMore
      <4> QED
        BY <3>1, <4>1, <4>2, <4>4
    <3>4. CASE ~(k <= m)
      <4>1. many(k-1) = m /\ many(k) = m
        BY <1>1, <3>1, <3>4
      <4>2. list[k].kind # "plans"
        BY <1>2, <3>4
      <4>3. h[k] = h[k-1]
        BY <2>1, <4>2
      <4> QED
        BY <3>1, <3>2, <4>1, <4>3
    <3> QED
      BY <3>3, <3>4
  <2>4. \A k \in 0..n : k \in Good
    <3> HIDE DEF Good
    <3> QED
      BY <1>1, <2>2, <2>3, InductionUpTo
  <2>5. n \in 0..n /\ many(n) = m
    BY <1>1
  <2> QED
    BY <2>1, <2>4, <2>5
<1>4. OfKind(list, "fallback") = [i \in 1..(n - m) |-> list[m + i]]
  <2>a. PICK h : Gathers(h, list, "fallback", U)
    BY OfKindGrows
  <2>1. /\ h \in [0..n -> Seq(U)] /\ h[0] = <<>>
        /\ \A k \in 1..n :
              h[k] = IF list[k].kind = "fallback" THEN Append(h[k-1], list[k]) ELSE h[k-1]
        /\ OfKind(list, "fallback") = h[n]
    BY <2>a DEF Gathers
  <2> DEFINE many(k) == IF k <= m THEN 0 ELSE k - m
             f == [i \in 1..(n - m) |-> list[m + i]]
             Good == {k \in 0..n : h[k] = [i \in 1..many(k) |-> f[i]]}
  <2> HIDE DEF n
  <2>0. \A i \in 1..(n - m) : f[i] = list[m + i] /\ f[i] \in U
    BY <1>1
  <2> HIDE DEF f
  <2>2. 0 \in Good
    <3>1. 0 \in 0..n /\ many(0) = 0 /\ 1..0 = {}
      BY <1>1
    <3>2. [i \in 1..0 |-> f[i]] = <<>>
      BY <3>1
    <3> QED
      BY <2>1, <3>1, <3>2
  <2>3. ASSUME NEW k \in 1..n, k - 1 \in Good PROVE k \in Good
    <3>1. k \in 0..n /\ k - 1 \in Nat /\ k \in Nat
      BY <1>1
    <3>2. h[k-1] = [i \in 1..many(k-1) |-> f[i]]
      BY <2>3
    <3>3. CASE ~(k <= m)
      <4> DEFINE l == k - m - 1
      <4>1. l \in Nat /\ many(k-1) = l /\ many(k) = l + 1
            /\ l + 1 \in 1..(n - m) /\ m + (l + 1) = k
        BY <1>1, <3>1, <3>3
      <4>2. list[k].kind = "fallback"
        BY <1>2, <3>3
      <4>3. list[k] = f[l+1]
        BY <2>0, <4>1
      <4> HIDE DEF l, many
      <4>4. h[k] = Append([i \in 1..l |-> f[i]], f[l+1])
        BY <2>1, <3>2, <4>1, <4>2, <4>3
      <4>5. \A i \in 1..(l+1) : f[i] \in U
        BY <1>1, <2>0, <4>1
      <4>6. Append([i \in 1..l |-> f[i]], f[l+1]) = [i \in 1..(l+1) |-> f[i]]
        BY <4>1, <4>5, OneMore
      <4> QED
        BY <3>1, <4>1, <4>4, <4>6
    <3>4. CASE k <= m
      <4>1. many(k-1) = 0 /\ many(k) = 0
        BY <1>1, <3>1, <3>4
      <4>2. list[k].kind # "fallback"
        BY <1>2, <3>4
      <4>3. h[k] = h[k-1]
        BY <2>1, <4>2
      <4> QED
        BY <3>1, <3>2, <4>1, <4>3
    <3> QED
      BY <3>3, <3>4
  <2>4. \A k \in 0..n : k \in Good
    <3> HIDE DEF Good
    <3> QED
      BY <1>1, <2>2, <2>3, InductionUpTo
  <2>5. n \in 0..n /\ many(n) = n - m
    BY <1>1
  <2>6. h[n] = [i \in 1..(n - m) |-> f[i]]
    BY <2>4, <2>5
  <2>7. [i \in 1..(n - m) |-> f[i]] = [i \in 1..(n - m) |-> list[m + i]]
    BY <2>0
  <2> QED
    BY <2>1, <2>6, <2>7
<1> QED
  BY <1>3, <1>4

-----------------------------------------------------------------------------
(* Names and accounts                                                      *)

Names(B) == [base : B, copies : Nat, n : Seq(Nat)]

(* A suffix makes another name of a name.                                  *)
LEMMA SuffixedNames ==
    ASSUME NEW B, NEW want \in Names(B), NEW k \in Nat
    PROVE  /\ Suffixed(want, k) = [base |-> want.base, copies |-> want.copies,
                                   n |-> Append(want.n, k)]
           /\ Suffixed(want, k) \in Names(B) /\ Suffixed(want, k) # NoName
           /\ \A l \in Nat : Suffixed(want, k) = Suffixed(want, l) => k = l
<1>1. want = [base |-> want.base, copies |-> want.copies, n |-> want.n] /\ want.n \in Seq(Nat)
      /\ want.copies \in Nat /\ want.base \in B
  BY DEF Names
<1>2. ASSUME NEW l \in Nat
      PROVE  Suffixed(want, l) = [base |-> want.base, copies |-> want.copies,
                                  n |-> Append(want.n, l)]
  <2> DEFINE x == Append(want.n, l)
  <2>1. Suffixed(want, l) = [want EXCEPT !.n = x]
    BY DEF Suffixed
  <2> HIDE DEF x
  <2>2. [want EXCEPT !.n = x] = [base |-> want.base, copies |-> want.copies, n |-> x]
    BY <1>1
  <2> QED
    BY <2>1, <2>2 DEF x
<1>3. \A l \in Nat : /\ Append(want.n, l) \in Seq(Nat) /\ Append(want.n, l) # <<>>
                     /\ Append(want.n, l)[Len(want.n) + 1] = l
  BY <1>1, AppendedAt
<1>4. Suffixed(want, k) \in Names(B)
  <2> DEFINE x == Append(want.n, k)
  <2>1. Suffixed(want, k) = [base |-> want.base, copies |-> want.copies, n |-> x]
    BY <1>2
  <2>2. x \in Seq(Nat)
    BY <1>3
  <2> HIDE DEF x
  <2> QED
    BY <1>1, <2>1, <2>2 DEF Names
<1>5. Suffixed(want, k) # NoName
  <2>1. Suffixed(want, k).n = Append(want.n, k)
    BY <1>2
  <2>2. NoName.n = <<>>
    BY DEF NoName, Name
  <2> QED
    BY <1>3, <2>1, <2>2
<1>6. ASSUME NEW l \in Nat, Suffixed(want, k) = Suffixed(want, l) PROVE k = l
  <2>1. Append(want.n, k) = Append(want.n, l)
    <3>1. Suffixed(want, k).n = Append(want.n, k) /\ Suffixed(want, l).n = Append(want.n, l)
      BY <1>2
    <3> QED
      BY <1>6, <3>1
  <2> QED
    BY <1>3, <2>1
<1> QED
  BY <1>2, <1>4, <1>5, <1>6

(* A free name is found among the first few.                               *)
LEMMA FreeNameIsFree ==
    ASSUME NEW B, NEW want \in Names(B), NEW used, IsFiniteSet(used)
    PROVE  /\ FreeName(want, used) \in Names(B)
           /\ FreeName(want, used) \notin used
           /\ want \notin used => FreeName(want, used) = want
           /\ want # NoName => FreeName(want, used) # NoName
<1> DEFINE c    == Cardinality(used)
           A    == 2..c + 2
           free == {n \in A : Suffixed(want, n) \notin used}
<1>1. c \in Nat /\ A \in SUBSET Nat
  BY FS_CardinalityType
<1>2. free # {}
  <2> SUFFICES ASSUME \A n \in A : Suffixed(want, n) \in used
               PROVE  FALSE
    OBVIOUS
  <2> DEFINE f == [n \in A |-> Suffixed(want, n)]
  <2>1. \A m, n \in A : f[m] = f[n] => m = n
    BY <1>1, SuffixedNames
  <2>2. f \in [A -> used]
    OBVIOUS
  <2>3. \A k \in Nat : IsFiniteSet(2..k + 2) /\ Cardinality(2..k + 2) = k + 1
    BY FS_Interval
  <2> HIDE DEF A, f
  <2>4. f \in Injection(A, used)
    BY <2>1, <2>2 DEF Injection, IsInjective
  <2>5. Cardinality(A) <= c
    BY <2>4, FS_Injection
  <2>6. Cardinality(A) = c + 1
    BY <1>1, <2>3 DEF A
  <2> QED
    BY <1>1, <2>5, <2>6
<1>3. free \in SUBSET Nat
  BY <1>1
<1> HIDE DEF free
<1>4. Min(free) \in free
  BY <1>2, <1>3, MinIsLeast
<1>5. CASE want \in used
  <2>1. FreeName(want, used) = Suffixed(want, Min(free))
    BY <1>5 DEF FreeName, free
  <2>2. Min(free) \in Nat /\ Suffixed(want, Min(free)) \notin used
    BY <1>3, <1>4 DEF free
  <2> QED
    BY <1>5, <2>1, <2>2, SuffixedNames
<1>6. CASE want \notin used
  BY <1>6 DEF FreeName
<1> QED
  BY <1>5, <1>6

(* What a live endpoint is, and a list of them.                            *)
IsAccount(a) == IsEntry(a) /\ a.order \in Nat

IsList(l) == l \in Seq(ToSet(l)) /\ \A i \in DOMAIN l : IsAccount(l[i])

AccountsOf(B, K, E) ==
    [name : Names(B), kind : Kinds, key : K, on : BOOLEAN, order : Nat, extra : E, drop : Nat]

(* A sequence of accounts is a list, and has finitely many names.          *)
LEMMA ListsOfAccounts ==
    ASSUME NEW B, NEW K, NEW E, \A k \in K : IsKey(k), NEW l \in Seq(AccountsOf(B, K, E))
    PROVE  IsList(l) /\ IsFiniteSet(NamesOf(l))
<1>1. Len(l) \in Nat /\ DOMAIN l = 1..Len(l) /\ \A i \in DOMAIN l : l[i] \in AccountsOf(B, K, E)
  OBVIOUS
<1>2. ASSUME NEW a \in AccountsOf(B, K, E) PROVE IsAccount(a)
  <2>1. a.name \in Names(B) /\ a.kind \in Kinds /\ a.key \in K /\ a.on \in BOOLEAN
        /\ a.order \in Nat /\ a.drop \in Nat
    BY DEF AccountsOf
  <2>2. a = [name |-> a.name, kind |-> a.kind, key |-> a.key, on |-> a.on,
             order |-> a.order, extra |-> a.extra, drop |-> a.drop]
    BY DEF AccountsOf
  <2>3. IsName(a.name)
    BY <2>1 DEF Names, IsName
  <2> QED
    BY <2>1, <2>2, <2>3 DEF IsAccount, IsEntry, Kinds
<1>3. l \in Seq(ToSet(l))
  <2>1. \A i \in 1..Len(l) : l[i] \in ToSet(l)
    BY <1>1 DEF ToSet
  <2> QED
    BY <2>1
<1>4. IsFiniteSet(NamesOf(l))
  <2>1. IsFiniteSet(1..Len(l))
    BY <1>1, FS_Interval
  <2> DEFINE f == [i \in 1..Len(l) |-> l[i].name]
  <2>2. f \in Surjection(1..Len(l), NamesOf(l))
    BY <1>1 DEF NamesOf, Surjection
  <2> HIDE DEF f
  <2> QED
    BY <2>1, <2>2, FS_Surjection
<1> QED
  BY <1>1, <1>2, <1>3, <1>4 DEF IsList

-----------------------------------------------------------------------------
(* Reading                                                                 *)

EnterAll(es, drop) == FoldLeft(LAMBDA done, e : Entered(done, e, drop), <<>>, es)

Want(e) == IF e.name = NoName THEN Name(e.key) ELSE e.name

(* One entry read is one account more, with a name of its own.             *)
LEMMA EnteredIsOneMore ==
    ASSUME NEW B, NEW K, NEW E, \A k \in K : IsKey(k), K \subseteq B,
           NEW e \in AccountsOf(B, K, E), NEW done \in Seq(AccountsOf(B, K, E)),
           NEW drop \in Nat
    PROVE  \E a \in AccountsOf(B, K, E) :
              /\ Entered(done, e, drop) = Append(done, a)
              /\ a = [name |-> a.name, kind |-> e.kind, key |-> e.key, on |-> e.on,
                      order |-> e.order, extra |-> e.extra, drop |-> drop + e.drop]
              /\ a.name \notin NamesOf(done) /\ a.name # NoName
              /\ Want(e) \notin NamesOf(done) => a.name = Want(e)
<1> DEFINE want == Want(e)
           name == FreeName(want, NamesOf(done))
           a == [name |-> name, kind |-> e.kind, key |-> e.key, on |-> e.on,
                 order |-> e.order, extra |-> e.extra, drop |-> drop + e.drop]
<1>1. e.name \in Names(B) /\ e.kind \in Kinds /\ e.key \in K /\ e.on \in BOOLEAN
      /\ e.order \in Nat /\ e.extra \in E /\ e.drop \in Nat
  BY DEF AccountsOf
<1>2. IsFiniteSet(NamesOf(done))
  BY ListsOfAccounts
<1>3. want \in Names(B) /\ want # NoName
  <2>1. CASE e.name = NoName
    <3>1. e.key \in B /\ e.key # ""
      BY <1>1 DEF IsKey
    <3>2. want = [base |-> e.key, copies |-> 0, n |-> <<>>]
      BY <2>1 DEF Want, Name
    <3>3. NoName.base = ""
      BY DEF NoName, Name
    <3>4. want.base # NoName.base
      <4>1. want.base = e.key
        BY <3>2
      <4>2. e.key # NoName.base
        BY <3>1, <3>3
      <4> HIDE DEF want
      <4> QED
        BY <4>1, <4>2
    <3>5. 0 \in Nat /\ <<>> \in Seq(Nat)
      OBVIOUS
    <3> HIDE DEF want
    <3>6. want \in Names(B)
      BY <3>1, <3>2, <3>5 DEF Names
    <3> QED
      BY <3>4, <3>6
  <2>2. CASE e.name # NoName
    BY <1>1, <2>2 DEF Want
  <2> QED
    BY <2>1, <2>2
<1> HIDE DEF want
<1>4. /\ name \in Names(B) /\ name \notin NamesOf(done) /\ name # NoName
      /\ want \notin NamesOf(done) => name = want
  BY <1>2, <1>3, FreeNameIsFree
<1>5. Entered(done, e, drop) = Append(done, a)
  BY DEF Entered, want, Want
<1> HIDE DEF name
<1>6. a \in AccountsOf(B, K, E)
  BY <1>1, <1>4 DEF AccountsOf
<1> QED
  BY <1>4, <1>5, <1>6 DEF want

(* What is read of the first k entries.                                    *)
ReadSoFar(l, es, drop, k) ==
    /\ IsList(l) /\ Len(l) = k
    /\ \A i \in 1..k :
          /\ l[i] = [name |-> l[i].name, kind |-> es[i].kind, key |-> es[i].key,
                     on |-> es[i].on, order |-> es[i].order, extra |-> es[i].extra,
                     drop |-> drop + es[i].drop]
          /\ l[i].name # NoName
          /\ \A j \in 1..k : l[i].name = l[j].name => i = j
    /\ (\A i, j \in 1..k : es[i].name # NoName /\ (es[i].name = es[j].name => i = j)) =>
          \A i \in 1..k : l[i].name = es[i].name

(* The entries are read one by one, each to an account of its own name.    *)
LEMMA ReadOneByOne ==
    ASSUME NEW es, IsList(es), NEW drop \in Nat
    PROVE  ReadSoFar(EnterAll(es, drop), es, drop, Len(es))
<1> DEFINE n == Len(es)
           D == 1..n
           K == {es[i].key : i \in D}
           B == {es[i].name.base : i \in D} \cup K
           E == {es[i].extra : i \in D}
           U == AccountsOf(B, K, E)
           V == Seq(U)
           F == [x \in D \X V |-> Entered(x[2], es[x[1]], drop)]
           Solves(g) == g = [t \in SUBSET D |->
                                IF t = {} THEN <<>>
                                 ELSE Entered(g[t \ {Max(t)}], es[Max(t)], drop)]
           g == CHOOSE g : Solves(g)
           base == <<>>
<1>1. n \in Nat /\ DOMAIN es = D /\ \A i \in D : IsAccount(es[i])
  BY DEF IsList
<1>2. (\A k \in K : IsKey(k)) /\ K \subseteq B
  BY <1>1 DEF IsAccount, IsEntry
<1>3. ASSUME NEW i \in D PROVE es[i] \in U
  <2>1. IsName(es[i].name) /\ es[i].name.base \in B /\ es[i].key \in K /\ es[i].extra \in E
    BY <1>1 DEF IsAccount, IsEntry
  <2>2. es[i].name \in Names(B)
    BY <2>1 DEF IsName, Names
  <2>3. /\ es[i] = [name |-> es[i].name, kind |-> es[i].kind, key |-> es[i].key,
                    on |-> es[i].on, order |-> es[i].order, extra |-> es[i].extra,
                    drop |-> es[i].drop]
        /\ es[i].kind \in Kinds /\ es[i].on \in BOOLEAN /\ es[i].order \in Nat
        /\ es[i].drop \in Nat
    BY <1>1 DEF IsAccount, IsEntry, Kinds
  <2> HIDE DEF B, K, E
  <2> QED
    BY <2>1, <2>2, <2>3 DEF AccountsOf
<1> HIDE DEF K, B, E
<1>4. base \in V
  OBVIOUS
<1>5. ASSUME NEW v \in V, NEW k \in D
      PROVE  /\ Entered(v, es[k], drop) \in V
             /\ \E a \in U :
                  /\ Entered(v, es[k], drop) = Append(v, a)
                  /\ a = [name |-> a.name, kind |-> es[k].kind, key |-> es[k].key,
                          on |-> es[k].on, order |-> es[k].order, extra |-> es[k].extra,
                          drop |-> drop + es[k].drop]
                  /\ a.name \notin NamesOf(v) /\ a.name # NoName
                  /\ Want(es[k]) \notin NamesOf(v) => a.name = Want(es[k])
  <2>1. PICK a \in U :
          /\ Entered(v, es[k], drop) = Append(v, a)
          /\ a = [name |-> a.name, kind |-> es[k].kind, key |-> es[k].key,
                  on |-> es[k].on, order |-> es[k].order, extra |-> es[k].extra,
                  drop |-> drop + es[k].drop]
          /\ a.name \notin NamesOf(v) /\ a.name # NoName
          /\ Want(es[k]) \notin NamesOf(v) => a.name = Want(es[k])
    BY <1>2, <1>3, EnteredIsOneMore
  <2>2. Append(v, a) \in V
    OBVIOUS
  <2> QED
    BY <2>1, <2>2
<1>6. F \in [D \X V -> V] /\ \A k \in D, v \in V : F[<<k, v>>] = Entered(v, es[k], drop)
  BY <1>5
<1> HIDE DEF F, V, base
<1>7. PICK g0 : FoldsPlaces(g0, F, base, V, n)
  <2>1. n \in Nat /\ base \in V /\ F \in [(1..n) \X V -> V]
    BY <1>1, <1>4, <1>6
  <2> HIDE DEF n, Solves, g
  <2> QED
    BY <2>1, FoldOfPlaces, Zenon
<1>8. Solves(g0)
  <2>1. ASSUME NEW t \in SUBSET D
        PROVE  g0[t] = IF t = {} THEN <<>> ELSE Entered(g0[t \ {Max(t)}], es[Max(t)], drop)
    BY <1>6, <1>7 DEF base, FoldsPlaces
  <2>2. g0 = [t \in SUBSET D |-> g0[t]]
    BY <1>7 DEF FoldsPlaces
  <2> QED
    BY <2>1, <2>2
<1>9. Solves(g)
  <2> HIDE DEF Solves
  <2> QED
    BY <1>8
<1>10. EnterAll(es, drop) = g[D]
  BY <1>1 DEF EnterAll, FoldLeft, MapThenFoldSet
<1>11. g[{}] = base /\ \A t \in SUBSET D :
           t # {} => g[t] = Entered(g[t \ {Max(t)}], es[Max(t)], drop)
  <2> HIDE DEF g, D
  <2> QED
    BY <1>9 DEF base
<1> HIDE DEF g
<1>12. \A t \in SUBSET D : t # {} /\ g[t \ {Max(t)}] \in V =>
          g[t] = F[<<Max(t), g[t \ {Max(t)}]>>]
  <2>1. \A t \in SUBSET D : t # {} => Max(t) \in D
    BY <1>1, LastPlace
  <2> QED
    BY <1>6, <1>11, <2>1
<1>13. PICK h : FromPlaceToPlace(h, g, F, base, V, n)
  <2>1. n \in Nat /\ base \in V /\ F \in [(1..n) \X V -> V]
    BY <1>1, <1>4, <1>6
  <2>2. StepsAmong(g, F, base, V, n)
    BY <1>11, <1>12 DEF StepsAmong
  <2> HIDE DEF n, Solves
  <2> QED
    BY <2>1, <2>2, FoldSteps, Zenon
<1>14. h \in [0..n -> V] /\ h[0] = <<>> /\ h[n] = EnterAll(es, drop)
  BY <1>10, <1>13 DEF FromPlaceToPlace, base
<1>15. ASSUME NEW k \in D PROVE h[k] = Entered(h[k-1], es[k], drop) /\ h[k-1] \in V
  <2>1. k - 1 \in 0..n
    BY <1>1
  <2>2. h[k-1] \in V
    BY <1>14, <2>1
  <2>3. h[k] = F[<<k, h[k-1]>>]
    BY <1>13 DEF FromPlaceToPlace
  <2> QED
    BY <1>6, <2>2, <2>3
<1> DEFINE Good == {k \in 0..n : ReadSoFar(h[k], es, drop, k)}
<1>16. 0 \in Good
  <2>1. 0 \in 0..n /\ 1..0 = {} /\ Len(h[0]) = 0 /\ h[0] \in V
    BY <1>1, <1>14
  <2>2. IsList(h[0])
    BY <1>2, <2>1, ListsOfAccounts DEF V
  <2> QED
    BY <2>1, <2>2 DEF ReadSoFar
<1>17. ASSUME NEW k \in 1..n, k - 1 \in Good PROVE k \in Good
  <2> DEFINE v == h[k-1]
  <2>1. v \in V /\ h[k] = Entered(v, es[k], drop) /\ ReadSoFar(v, es, drop, k - 1)
    BY <1>15, <1>17
  <2> HIDE DEF v
  <2>2. PICK a \in U :
          /\ h[k] = Append(v, a)
          /\ a = [name |-> a.name, kind |-> es[k].kind, key |-> es[k].key,
                  on |-> es[k].on, order |-> es[k].order, extra |-> es[k].extra,
                  drop |-> drop + es[k].drop]
          /\ a.name \notin NamesOf(v) /\ a.name # NoName
          /\ Want(es[k]) \notin NamesOf(v) => a.name = Want(es[k])
    BY <1>5, <2>1
  <2>3. h[k] \in V /\ k \in 0..n
    BY <1>1, <1>14
  <2>4. v \in Seq(U) /\ Len(v) = k - 1 /\ DOMAIN v = 1..(k-1)
    BY <2>1 DEF V, ReadSoFar
  <2>5. /\ Len(h[k]) = k /\ h[k][k] = a
        /\ \A i \in 1..(k-1) : h[k][i] = v[i]
    BY <1>1, <2>2, <2>4, AppendedAt
  <2>6. IsList(h[k])
    BY <1>2, <2>3, ListsOfAccounts DEF V
  <2>7. \A i \in 1..k : i \in 1..(k-1) \/ i = k
    BY <1>1
  <2>8. \A i \in 1..(k-1) : v[i].name # a.name
    BY <2>2, <2>4 DEF NamesOf
  <2>9. ASSUME NEW i \in 1..k
        PROVE  /\ h[k][i] = [name |-> h[k][i].name, kind |-> es[i].kind, key |-> es[i].key,
                             on |-> es[i].on, order |-> es[i].order, extra |-> es[i].extra,
                             drop |-> drop + es[i].drop]
               /\ h[k][i].name # NoName
               /\ \A j \in 1..k : h[k][i].name = h[k][j].name => i = j
    <3>1. CASE i = k
      BY <2>2, <2>5, <2>7, <2>8, <3>1
    <3>2. CASE i \in 1..(k-1)
      <4>1. /\ v[i] = [name |-> v[i].name, kind |-> es[i].kind, key |-> es[i].key,
                       on |-> es[i].on, order |-> es[i].order, extra |-> es[i].extra,
                       drop |-> drop + es[i].drop]
            /\ v[i].name # NoName
            /\ \A j \in 1..(k-1) : v[i].name = v[j].name => i = j
        BY <2>1, <3>2 DEF ReadSoFar
      <4> QED
        BY <2>5, <2>7, <2>8, <3>2, <4>1
    <3> QED
      BY <2>7, <3>1, <3>2
  <2>10. ASSUME \A i, j \in 1..k : es[i].name # NoName /\ (es[i].name = es[j].name => i = j),
                NEW i \in 1..k
         PROVE  h[k][i].name = es[i].name
    <3>1. \A j \in 1..(k-1) : j \in 1..k /\ j # k
      BY <1>1
    <3>2. \A j \in 1..(k-1) : v[j].name = es[j].name
      BY <2>1, <2>10, <3>1 DEF ReadSoFar
    <3>3. k \in 1..k
      BY <1>1
    <3>4. Want(es[k]) = es[k].name
      BY <2>10, <3>3 DEF Want
    <3>5. es[k].name \notin NamesOf(v)
      BY <2>4, <2>10, <3>1, <3>2, <3>3 DEF NamesOf
    <3> QED
      BY <2>2, <2>5, <2>7, <3>2, <3>4, <3>5
  <2>11. ReadSoFar(h[k], es, drop, k)
    BY <2>5, <2>6, <2>9, <2>10 DEF ReadSoFar
  <2> QED
    BY <2>3, <2>11
<1>18. \A k \in 0..n : k \in Good
  <2> HIDE DEF Good, n
  <2> QED
    BY <1>1, <1>16, <1>17, InductionUpTo
<1>19. n \in 0..n
  BY <1>1
<1> QED
  BY <1>14, <1>18, <1>19

Placed(e, i) == [e EXCEPT !.order = IF @ = NoOrder THEN i - 1 ELSE @]

(* An entry in its place has an order, its own if it had one.              *)
LEMMA PlacedHasOrder ==
    ASSUME NEW e, IsEntry(e), NEW i \in Nat \ {0}
    PROVE  IsAccount(Placed(e, i)) /\ Placed(e, i).kind = e.kind
           /\ (e.order \in Nat => Placed(e, i) = e)
<1> DEFINE o == IF e.order = NoOrder THEN i - 1 ELSE e.order
           p == [name |-> e.name, kind |-> e.kind, key |-> e.key, on |-> e.on,
                 order |-> o, extra |-> e.extra, drop |-> e.drop]
<1>1. e = [name |-> e.name, kind |-> e.kind, key |-> e.key, on |-> e.on,
           order |-> e.order, extra |-> e.extra, drop |-> e.drop]
      /\ e.order \in Nat \cup {NoOrder}
  BY DEF IsEntry
<1>2. o \in Nat /\ (e.order \in Nat => o = e.order)
  <2>1. i - 1 \in Nat
    OBVIOUS
  <2> QED
    BY <1>1, <2>1 DEF NoOrder
<1>3. Placed(e, i) = [e EXCEPT !.order = o]
  BY DEF Placed
<1> HIDE DEF o
<1>4. [e EXCEPT !.order = o] = p
  BY <1>1
<1>5. IsAccount(p) /\ p.kind = e.kind
  BY <1>2 DEF IsAccount, IsEntry
<1>6. ASSUME e.order \in Nat PROVE p = e
  BY <1>1, <1>2, <1>6
<1> QED
  BY <1>3, <1>4, <1>5, <1>6

(* A section lists accounts of its kind.                                   *)
LEMMA SectionOfKind ==
    ASSUME NEW text, IsText(text), NEW kind
    PROVE  LET s == Section(text, kind)
           IN  /\ s \in Seq(ToSet(s)) /\ DOMAIN s = 1..Len(s) /\ Len(s) \in Nat
               /\ \A i \in DOMAIN s : IsAccount(s[i]) /\ s[i].kind = kind
               /\ \A i \in DOMAIN text.entries : text.entries[i].kind = kind => s # <<>>
<1> DEFINE list == text.entries
           U == ToSet(list)
           mine == OfKind(list, kind)
           s == Section(text, kind)
<1>1. list \in Seq(U) /\ \A e \in U : IsEntry(e)
  BY DEF IsText
<1>2. /\ mine \in Seq(U)
      /\ \A i \in DOMAIN mine : mine[i].kind = kind
      /\ \A i \in DOMAIN list : list[i].kind = kind => mine # <<>>
  <2> HIDE DEF U, list
  <2> QED
    BY <1>1, OfKindIsRight
<1>3. s = [i \in DOMAIN mine |-> Placed(mine[i], i)]
  BY DEF Section, Placed
<1> HIDE DEF mine, s, U, list
<1>4. Len(mine) \in Nat /\ DOMAIN mine = 1..Len(mine) /\ \A i \in DOMAIN mine : mine[i] \in U
  BY <1>2
<1>5. ASSUME NEW i \in 1..Len(mine)
      PROVE  s[i] = Placed(mine[i], i) /\ IsAccount(s[i]) /\ s[i].kind = kind
  <2>1. i \in Nat \ {0} /\ mine[i] \in U /\ mine[i].kind = kind
    BY <1>2, <1>4
  <2>2. s[i] = Placed(mine[i], i)
    BY <1>3, <1>4
  <2> QED
    BY <1>1, <2>1, <2>2, PlacedHasOrder
<1>6. DOMAIN s = 1..Len(mine) /\ \A i \in 1..Len(mine) : s[i] \in ToSet(s)
  BY <1>3, <1>4 DEF ToSet
<1>7. s \in Seq(ToSet(s)) /\ Len(s) = Len(mine)
  <2>1. s = [i \in 1..Len(mine) |-> s[i]]
    BY <1>3, <1>4
  <2> QED
    BY <1>4, <1>6, <2>1
<1>8. mine # <<>> => s # <<>>
  BY <1>2, <1>4, <1>7
<1> QED
  BY <1>2, <1>4, <1>5, <1>6, <1>7, <1>8 DEF s, list

(* One list after another.                                                 *)
LEMMA OneAfterOther ==
    ASSUME NEW U, NEW a \in Seq(U), NEW b \in Seq(U)
    PROVE  /\ Len(a) \in Nat /\ Len(b) \in Nat /\ DOMAIN a = 1..Len(a) /\ DOMAIN b = 1..Len(b)
           /\ a \o b \in Seq(U) /\ Len(a \o b) = Len(a) + Len(b)
           /\ DOMAIN (a \o b) = 1..(Len(a) + Len(b))
           /\ \A i \in DOMAIN (a \o b) :
                 (a \o b)[i] = IF i <= Len(a) THEN a[i] ELSE b[i - Len(a)]
           /\ \A i \in DOMAIN (a \o b) : i <= Len(a) => i \in DOMAIN a
           /\ \A i \in DOMAIN (a \o b) : i > Len(a) => i - Len(a) \in DOMAIN b
OBVIOUS

InSections(text) == Section(text, "plans") \o Section(text, "fallback")

(* The sections of a text, one after the other.                            *)
LEMMA SectionsAreRead ==
    ASSUME NEW text, IsText(text)
    PROVE  LET es == InSections(text)
           IN  /\ IsList(es) /\ PartedAt(es, Len(Section(text, "plans")))
               /\ text.entries # <<>> => es # <<>>
<1> DEFINE a == Section(text, "plans")
           b == Section(text, "fallback")
           U == ToSet(a) \cup ToSet(b)
           es == InSections(text)
<1>1. /\ a \in Seq(ToSet(a)) /\ DOMAIN a = 1..Len(a) /\ Len(a) \in Nat
      /\ \A i \in DOMAIN a : IsAccount(a[i]) /\ a[i].kind = "plans"
      /\ \A i \in DOMAIN text.entries : text.entries[i].kind = "plans" => a # <<>>
  BY SectionOfKind
<1>2. /\ b \in Seq(ToSet(b)) /\ DOMAIN b = 1..Len(b) /\ Len(b) \in Nat
      /\ \A i \in DOMAIN b : IsAccount(b[i]) /\ b[i].kind = "fallback"
      /\ \A i \in DOMAIN text.entries : text.entries[i].kind = "fallback" => b # <<>>
  BY SectionOfKind
<1>3. es = a \o b
  BY DEF InSections
<1> HIDE DEF a, b, es
<1>4. a \in Seq(U) /\ b \in Seq(U)
  BY <1>1, <1>2
<1> HIDE DEF U
<1>5. /\ es \in Seq(U) /\ Len(es) = Len(a) + Len(b) /\ DOMAIN es = 1..(Len(a) + Len(b))
      /\ \A i \in DOMAIN es : es[i] = IF i <= Len(a) THEN a[i] ELSE b[i - Len(a)]
      /\ \A i \in DOMAIN es : i <= Len(a) => i \in DOMAIN a
      /\ \A i \in DOMAIN es : i > Len(a) => i - Len(a) \in DOMAIN b
  BY <1>3, <1>4, OneAfterOther
<1>6. ASSUME NEW i \in DOMAIN es
      PROVE  IsAccount(es[i]) /\ es[i].kind = IF i <= Len(a) THEN "plans" ELSE "fallback"
  <2>1. CASE i <= Len(a)
    BY <1>1, <1>5, <2>1
  <2>2. CASE ~(i <= Len(a))
    <3>1. i > Len(a)
      BY <1>1, <1>2, <1>5, <2>2
    <3> QED
      BY <1>2, <1>5, <2>2, <3>1
  <2> QED
    BY <2>1, <2>2
<1>7. es \in Seq(ToSet(es))
  <2>1. \A i \in 1..Len(es) : es[i] \in ToSet(es)
    BY <1>5 DEF ToSet
  <2> QED
    BY <1>5, <2>1
<1>8. IsList(es)
  BY <1>6, <1>7 DEF IsList
<1>9. PartedAt(es, Len(a))
  BY <1>1, <1>2, <1>5, <1>6 DEF PartedAt
<1>10. ASSUME text.entries # <<>> PROVE es # <<>>
  <2>1. text.entries \in Seq(ToSet(text.entries)) /\ \A e \in ToSet(text.entries) : IsEntry(e)
    BY DEF IsText
  <2>2. 1 \in DOMAIN text.entries
    BY <1>10, <2>1
  <2>3. text.entries[1].kind \in {"plans", "fallback"}
    <3>1. text.entries[1] \in ToSet(text.entries)
      BY <2>2 DEF ToSet
    <3> QED
      BY <2>1, <3>1 DEF IsEntry
  <2>4. a # <<>> \/ b # <<>>
    BY <1>1, <1>2, <2>2, <2>3
  <2>5. Len(a) # 0 \/ Len(b) # 0
    BY <1>4, <2>4
  <2> QED
    BY <1>1, <1>2, <1>5, <2>5
<1> QED
  BY <1>8, <1>9, <1>10 DEF a, es

(* The plans and the fallbacks of a list that has them in this order.      *)
LEMMA PartsJoined ==
    ASSUME NEW U, NEW list \in Seq(U), NEW m, PartedAt(list, m)
    PROVE  OfKind(list, "plans") \o OfKind(list, "fallback") = list
<1> DEFINE n == Len(list)
           a == OfKind(list, "plans")
           b == OfKind(list, "fallback")
           c == a \o b
<1>1. n \in Nat /\ m \in Nat /\ m <= n /\ DOMAIN list = 1..n /\ \A i \in 1..n : list[i] \in U
  BY DEF PartedAt
<1>2. a = [i \in 1..m |-> list[i]] /\ b = [i \in 1..(n - m) |-> list[m + i]]
  BY PartsApart
<1> HIDE DEF a, b, n
<1>3. a \in Seq(U) /\ b \in Seq(U) /\ Len(a) = m /\ Len(b) = n - m
  <2>1. \A i \in 1..m : list[i] \in U
    BY <1>1
  <2>2. \A i \in 1..(n - m) : list[m + i] \in U
    BY <1>1
  <2>3. n - m \in Nat
    BY <1>1
  <2> QED
    BY <1>1, <1>2, <2>1, <2>2, <2>3
<1>4. /\ c \in Seq(U) /\ Len(c) = n /\ DOMAIN c = 1..n
      /\ \A i \in 1..n : c[i] = IF i <= m THEN a[i] ELSE b[i - m]
  BY <1>1, <1>3, OneAfterOther
<1>5. ASSUME NEW i \in 1..n PROVE c[i] = list[i]
  <2>1. CASE i <= m
    BY <1>1, <1>2, <1>4, <2>1
  <2>2. CASE ~(i <= m)
    <3>1. i - m \in 1..(n - m) /\ m + (i - m) = i
      BY <1>1, <2>2
    <3>2. b[i - m] = list[m + (i - m)]
      BY <1>2, <3>1
    <3> HIDE DEF c
    <3> QED
      BY <1>4, <2>2, <3>1, <3>2
  <2> QED
    BY <2>1, <2>2
<1> HIDE DEF c
<1>6. c = list
  BY <1>1, <1>4, <1>5 DEF n
<1> QED
  BY <1>6 DEF a, b, c

(* Accounts written in their order are read in it.                         *)
LEMMA SectionsAsWritten ==
    ASSUME NEW text, IsText(text), IsList(text.entries), NEW m, PartedAt(text.entries, m)
    PROVE  InSections(text) = text.entries
<1> DEFINE list == text.entries
           U == ToSet(list)
<1>1. list \in Seq(U) /\ \A e \in U : IsAccount(e)
  BY DEF IsList, ToSet
<1>2. ASSUME NEW kind PROVE Section(text, kind) = OfKind(list, kind)
  <2> DEFINE mine == OfKind(list, kind)
  <2>1. Section(text, kind) = [i \in DOMAIN mine |-> Placed(mine[i], i)]
    BY DEF Section, Placed
  <2>2. mine \in Seq(U)
    <3> HIDE DEF U, list
    <3> QED
      BY <1>1, OfKindIsRight
  <2> HIDE DEF mine, U, list
  <2>3. \A i \in DOMAIN mine : mine[i] \in U /\ i \in Nat \ {0}
    BY <2>2
  <2>4. ASSUME NEW i \in DOMAIN mine PROVE Placed(mine[i], i) = mine[i]
    BY <1>1, <2>3, PlacedHasOrder DEF IsAccount
  <2>5. mine = [i \in DOMAIN mine |-> mine[i]]
    BY <2>2
  <2>6. Section(text, kind) = mine
    BY <2>1, <2>4, <2>5
  <2> QED
    BY <2>6 DEF mine, list
<1>3. OfKind(list, "plans") \o OfKind(list, "fallback") = list
  <2>1. PartedAt(list, m)
    OBVIOUS
  <2> HIDE DEF U, list
  <2> QED
    BY <1>1, <2>1, PartsJoined
<1>4. Section(text, "plans") = OfKind(list, "plans")
      /\ Section(text, "fallback") = OfKind(list, "fallback")
  BY <1>2
<1>5. InSections(text) = OfKind(list, "plans") \o OfKind(list, "fallback")
  BY <1>4 DEF InSections
<1> QED
  BY <1>3, <1>5 DEF list

(* What the process can have for a configuration.                          *)
Parted(list) == \E m \in 0..Len(list) : PartedAt(list, m)

OwnNames(list) ==
    \A i, j \in DOMAIN list :
        list[i].name # NoName /\ (list[i].name = list[j].name => i = j)

IsConf(c) ==
    /\ c = [options |-> c.options, drop |-> c.drop, accounts |-> c.accounts]
    /\ c.drop \in Nat
    /\ IsList(c.accounts) /\ c.accounts # <<>>
    /\ Parted(c.accounts) /\ OwnNames(c.accounts)
    /\ \A i \in DOMAIN c.accounts : c.drop <= c.accounts[i].drop

(* What parsing gives, field by field.                                     *)
LEMMA ParseFields ==
    ASSUME NEW text
    PROVE  /\ Parse(text) = [options |-> text.options, drop |-> text.drop,
                             accounts |-> Accounts(text)]
           /\ Parse(text).options = text.options /\ Parse(text).drop = text.drop
           /\ Parse(text).accounts = Accounts(text)
           /\ Accounts(text) = EnterAll(InSections(text), text.drop)
BY DEF Parse, Accounts, EnterAll, InSections

(* Whatever the text, every account read of it has a name of its own, and  *)
(* the plans come before the fallbacks.                                    *)
LEMMA ParseIsConf ==
    ASSUME NEW text, IsText(text), text.entries # <<>>
    PROVE  IsConf(Parse(text))
<1> DEFINE es == InSections(text)
           l == Accounts(text)
           m == Len(Section(text, "plans"))
           n == Len(es)
<1>1. IsList(es) /\ PartedAt(es, m) /\ es # <<>>
  BY SectionsAreRead
<1>2. text.drop \in Nat
  BY DEF IsText
<1>3. l = EnterAll(es, text.drop)
  BY ParseFields
<1> HIDE DEF es, l, m
<1>4. ReadSoFar(l, es, text.drop, n)
  BY <1>1, <1>2, <1>3, ReadOneByOne
<1>5. es \in Seq(ToSet(es)) /\ \A i \in DOMAIN es : IsAccount(es[i])
  BY <1>1 DEF IsList
<1>6. n \in Nat /\ n # 0 /\ DOMAIN es = 1..n
  BY <1>1, <1>5
<1>7. IsList(l) /\ Len(l) = n /\ l \in Seq(ToSet(l)) /\ DOMAIN l = 1..n
  BY <1>4, <1>6 DEF ReadSoFar, IsList
<1>8. \A i \in 1..n : es[i].drop \in Nat
  BY <1>5, <1>6 DEF IsAccount, IsEntry
<1>9. ASSUME NEW i \in 1..n
      PROVE  /\ l[i].kind = es[i].kind /\ l[i].drop = text.drop + es[i].drop
             /\ l[i].name # NoName /\ \A j \in 1..n : l[i].name = l[j].name => i = j
  <2>1. /\ l[i] = [name |-> l[i].name, kind |-> es[i].kind, key |-> es[i].key,
                   on |-> es[i].on, order |-> es[i].order, extra |-> es[i].extra,
                   drop |-> text.drop + es[i].drop]
        /\ l[i].name # NoName /\ \A j \in 1..n : l[i].name = l[j].name => i = j
    BY <1>4 DEF ReadSoFar
  <2>2. l[i].kind = es[i].kind /\ l[i].drop = text.drop + es[i].drop
    BY <2>1
  <2> QED
    BY <2>1, <2>2
<1>10. OwnNames(l)
  BY <1>7, <1>9 DEF OwnNames
<1>11. PartedAt(l, m) /\ m \in 0..Len(l)
  BY <1>1, <1>6, <1>7, <1>9 DEF PartedAt
<1>12. \A i \in 1..n : text.drop <= l[i].drop
  BY <1>2, <1>8, <1>9
<1>13. l # <<>>
  BY <1>6, <1>7
<1>14. Parted(l)
  BY <1>11 DEF Parted
<1>15. /\ Parse(text) = [options |-> text.options, drop |-> text.drop, accounts |-> l]
       /\ Parse(text).options = text.options /\ Parse(text).drop = text.drop
       /\ Parse(text).accounts = l
  BY ParseFields DEF l
<1> QED
  BY <1>2, <1>7, <1>10, <1>12, <1>13, <1>14, <1>15 DEF IsConf

(* A text that lists accounts in their order, each with a name of its own, *)
(* is read as it is written.                                               *)
LEMMA ParseAsWritten ==
    ASSUME NEW text, IsText(text), IsList(text.entries), Parted(text.entries),
           OwnNames(text.entries)
    PROVE  /\ DOMAIN Parse(text).accounts = DOMAIN text.entries
           /\ Parse(text).accounts \in Seq(ToSet(Parse(text).accounts))
           /\ \A i \in DOMAIN text.entries :
                 LET e == text.entries[i]
                 IN  Parse(text).accounts[i] =
                        [name |-> e.name, kind |-> e.kind, key |-> e.key, on |-> e.on,
                         order |-> e.order, extra |-> e.extra, drop |-> text.drop + e.drop]
<1> DEFINE es == text.entries
           l == Accounts(text)
           n == Len(es)
<1>1. PICK m \in 0..Len(es) : PartedAt(es, m)
  BY DEF Parted
<1>2. InSections(text) = es
  BY <1>1, SectionsAsWritten
<1>3. text.drop \in Nat
  BY DEF IsText
<1>4. l = EnterAll(es, text.drop)
  BY <1>2, ParseFields
<1>5. IsList(es) /\ OwnNames(es)
  OBVIOUS
<1> HIDE DEF es, l
<1>6. ReadSoFar(l, es, text.drop, n)
  BY <1>3, <1>4, <1>5, ReadOneByOne
<1>7. n \in Nat /\ DOMAIN es = 1..n
  BY <1>5 DEF IsList
<1>8. l \in Seq(ToSet(l)) /\ Len(l) = n /\ DOMAIN l = 1..n
  BY <1>6, <1>7 DEF ReadSoFar, IsList
<1>9. \A i, j \in 1..n : es[i].name # NoName /\ (es[i].name = es[j].name => i = j)
  BY <1>5, <1>7 DEF OwnNames
<1>10. \A i \in 1..n : l[i].name = es[i].name
  BY <1>6, <1>9 DEF ReadSoFar
<1>11. \A i \in 1..n :
          l[i] = [name |-> es[i].name, kind |-> es[i].kind, key |-> es[i].key, on |-> es[i].on,
                  order |-> es[i].order, extra |-> es[i].extra, drop |-> text.drop + es[i].drop]
  BY <1>6, <1>10 DEF ReadSoFar
<1>12. Parse(text).accounts = l
  BY ParseFields DEF l
<1> QED
  BY <1>7, <1>8, <1>11, <1>12 DEF es

-----------------------------------------------------------------------------
(* The console's document                                                  *)

IsRow(r) ==
    /\ r = [name |-> r.name, renamedFrom |-> r.renamedFrom, kind |-> r.kind, key |-> r.key,
            on |-> r.on, extra |-> r.extra, drop |-> r.drop, brief |-> r.brief]
    /\ IsName(r.name) /\ r.kind \in Kinds /\ (r.key = Unchanged \/ IsKey(r.key))
    /\ r.on \in BOOLEAN /\ r.drop \in Nat

IsDoc(d) ==
    /\ d = [options |-> d.options, drop |-> d.drop, rows |-> d.rows]
    /\ d.drop \in Nat
    /\ d.rows \in Seq(ToSet(d.rows)) /\ \A r \in ToSet(d.rows) : IsRow(r)

HasKeys(d, old) == \A r \in ToSet(d.rows) : IsKey(Key(r, old))

(* A live endpoint is found by its name.                                   *)
LEMMA FoundByName ==
    ASSUME NEW conf, NEW name \in NamesOf(conf.accounts)
    PROVE  /\ \E i \in DOMAIN conf.accounts : conf.accounts[i].name = name
                                              /\ AccountNamed(conf, name) = conf.accounts[i]
           /\ OwnNames(conf.accounts) =>
                 \A i \in DOMAIN conf.accounts :
                    conf.accounts[i].name = name => AccountNamed(conf, name) = conf.accounts[i]
<1> DEFINE l == conf.accounts
           at == CHOOSE i \in DOMAIN l : l[i].name = name
<1>1. at \in DOMAIN l /\ l[at].name = name
  BY DEF NamesOf
<1>2. AccountNamed(conf, name) = l[at]
  BY DEF AccountNamed
<1> HIDE DEF at
<1> QED
  BY <1>1, <1>2 DEF OwnNames

(* The placeholder stands for a key, or for none.                          *)
LEMMA KeyIsKey ==
    ASSUME NEW old, IsConf(old), NEW r, IsRow(r)
    PROVE  Key(r, old) = NoKey \/ IsKey(Key(r, old))
<1>1. \A i \in DOMAIN old.accounts : IsKey(old.accounts[i].key)
  BY DEF IsConf, IsList, IsAccount, IsEntry
<1>2. ASSUME NEW name \in NamesOf(old.accounts) PROVE IsKey(AccountNamed(old, name).key)
  BY <1>1, FoundByName
<1>3. r.key = Unchanged \/ IsKey(r.key)
  BY DEF IsRow
<1> QED
  BY <1>2, <1>3 DEF Key

(* What is written for a row.                                              *)
LEMMA EntryOfRow ==
    ASSUME NEW r, IsRow(r), NEW old, IsKey(Key(r, old)), NEW k \in Nat
    PROVE  /\ IsAccount(EndpointYaml(r, k, old))
           /\ EndpointYaml(r, k, old) =
                 [name |-> r.name, kind |-> r.kind, key |-> Key(r, old), on |-> r.on,
                  order |-> 10 * k, extra |-> Extra(r, old) \ {"headers"}, drop |-> 0]
<1> DEFINE key == Key(r, old)
           x == Extra(r, old) \ {"headers"}
           e == [name |-> r.name, kind |-> r.kind, key |-> key, on |-> r.on,
                 order |-> 10 * k, extra |-> x, drop |-> 0]
<1>1. EndpointYaml(r, k, old) = e
  BY DEF EndpointYaml
<1> HIDE DEF key, x
<1>2. /\ e.name = r.name /\ e.kind = r.kind /\ e.key = key /\ e.on = r.on
      /\ e.order = 10 * k /\ e.extra = x /\ e.drop = 0
  OBVIOUS
<1>3. e = [name |-> e.name, kind |-> e.kind, key |-> e.key, on |-> e.on,
           order |-> e.order, extra |-> e.extra, drop |-> e.drop]
  OBVIOUS
<1>4. IsName(r.name) /\ r.kind \in {"plans", "fallback"} /\ IsKey(key) /\ r.on \in BOOLEAN
      /\ 10 * k \in Nat
  BY DEF IsRow, Kinds, key
<1> HIDE DEF e
<1>5. IsAccount(e)
  BY <1>2, <1>3, <1>4 DEF IsAccount, IsEntry
<1> QED
  BY <1>1, <1>5 DEF e, key, x

Written(doc, old, kind) ==
    [i \in DOMAIN Rows(doc, kind) |-> EndpointYaml(Rows(doc, kind)[i], i, old)]

(* What is written for the rows of one kind.                               *)
LEMMA WrittenOfKind ==
    ASSUME NEW doc, IsDoc(doc), NEW old, HasKeys(doc, old), NEW kind
    PROVE  LET w == Written(doc, old, kind)
           IN  /\ w \in Seq(ToSet(w)) /\ DOMAIN w = 1..Len(w) /\ Len(w) \in Nat
               /\ \A i \in DOMAIN w : IsAccount(w[i]) /\ w[i].kind = kind
<1> DEFINE U == ToSet(doc.rows)
           mine == Rows(doc, kind)
           w == Written(doc, old, kind)
<1>1. doc.rows \in Seq(U) /\ \A r \in U : IsRow(r) /\ IsKey(Key(r, old))
  BY DEF IsDoc, HasKeys
<1>2. mine \in Seq(U) /\ \A i \in DOMAIN mine : mine[i].kind = kind
  <2> HIDE DEF U
  <2> QED
    BY <1>1, OfKindIsRight DEF Rows
<1>3. w = [i \in DOMAIN mine |-> EndpointYaml(mine[i], i, old)]
  BY DEF Written
<1> HIDE DEF U, mine, w
<1>4. Len(mine) \in Nat /\ DOMAIN mine = 1..Len(mine) /\ \A i \in DOMAIN mine : mine[i] \in U
  BY <1>2
<1>5. ASSUME NEW i \in 1..Len(mine) PROVE IsAccount(w[i]) /\ w[i].kind = kind
  <2>1. w[i] = EndpointYaml(mine[i], i, old) /\ i \in Nat
    BY <1>3, <1>4
  <2>2. IsRow(mine[i]) /\ IsKey(Key(mine[i], old)) /\ mine[i].kind = kind
    BY <1>1, <1>2, <1>4
  <2>3. /\ IsAccount(EndpointYaml(mine[i], i, old))
        /\ EndpointYaml(mine[i], i, old) =
              [name |-> mine[i].name, kind |-> mine[i].kind, key |-> Key(mine[i], old),
               on |-> mine[i].on, order |-> 10 * i,
               extra |-> Extra(mine[i], old) \ {"headers"}, drop |-> 0]
    BY <2>1, <2>2, EntryOfRow
  <2> DEFINE x == Extra(mine[i], old) \ {"headers"}
  <2> HIDE DEF x
  <2>4. EndpointYaml(mine[i], i, old) =
              [name |-> mine[i].name, kind |-> mine[i].kind, key |-> Key(mine[i], old),
               on |-> mine[i].on, order |-> 10 * i, extra |-> x, drop |-> 0]
    BY <2>3 DEF x
  <2> QED
    BY <2>1, <2>2, <2>3, <2>4
<1>6. DOMAIN w = 1..Len(mine) /\ \A i \in 1..Len(mine) : w[i] \in ToSet(w)
  BY <1>3, <1>4 DEF ToSet
<1>7. w \in Seq(ToSet(w)) /\ Len(w) = Len(mine)
  <2>1. w = [i \in 1..Len(mine) |-> w[i]]
    BY <1>3, <1>4
  <2> QED
    BY <1>4, <1>6, <2>1
<1> QED
  BY <1>4, <1>5, <1>6, <1>7 DEF w

(* One section's accounts after the other's.                               *)
LEMMA TwoSections ==
    ASSUME NEW a, NEW b,
           a \in Seq(ToSet(a)), \A i \in DOMAIN a : IsAccount(a[i]) /\ a[i].kind = "plans",
           b \in Seq(ToSet(b)), \A i \in DOMAIN b : IsAccount(b[i]) /\ b[i].kind = "fallback"
    PROVE  /\ IsList(a \o b) /\ PartedAt(a \o b, Len(a))
           /\ Len(a \o b) = Len(a) + Len(b)
<1> DEFINE U == ToSet(a) \cup ToSet(b)
           es == a \o b
<1>1. a \in Seq(U) /\ b \in Seq(U)
  OBVIOUS
<1> HIDE DEF U, es
<1>2. /\ Len(a) \in Nat /\ Len(b) \in Nat
      /\ es \in Seq(U) /\ Len(es) = Len(a) + Len(b) /\ DOMAIN es = 1..(Len(a) + Len(b))
      /\ \A i \in DOMAIN es : es[i] = IF i <= Len(a) THEN a[i] ELSE b[i - Len(a)]
      /\ \A i \in DOMAIN es : i <= Len(a) => i \in DOMAIN a
      /\ \A i \in DOMAIN es : i > Len(a) => i - Len(a) \in DOMAIN b
  BY <1>1, OneAfterOther DEF es
<1>3. ASSUME NEW i \in DOMAIN es
      PROVE  IsAccount(es[i]) /\ es[i].kind = IF i <= Len(a) THEN "plans" ELSE "fallback"
  <2>1. CASE i <= Len(a)
    BY <1>2, <2>1
  <2>2. CASE ~(i <= Len(a))
    <3>1. i > Len(a)
      BY <1>2, <2>2
    <3> QED
      BY <1>2, <2>2, <3>1
  <2> QED
    BY <2>1, <2>2
<1>4. es \in Seq(ToSet(es))
  <2>1. \A i \in 1..Len(es) : es[i] \in ToSet(es)
    BY <1>2 DEF ToSet
  <2> QED
    BY <1>2, <2>1
<1>5. IsList(es)
  BY <1>3, <1>4 DEF IsList
<1>6. PartedAt(es, Len(a))
  BY <1>2, <1>3 DEF PartedAt
<1> QED
  BY <1>2, <1>5, <1>6 DEF es

(* What a document is written as is a text.                                *)
LEMMA SavedIsText ==
    ASSUME NEW doc, IsDoc(doc), NEW old, HasKeys(doc, old)
    PROVE  LET text == TextOf(doc, old)
           IN  /\ IsText(text) /\ IsList(text.entries) /\ Parted(text.entries)
               /\ text.drop = doc.drop
               /\ text.entries = Written(doc, old, "plans") \o Written(doc, old, "fallback")
<1> DEFINE a == Written(doc, old, "plans")
           b == Written(doc, old, "fallback")
           es == a \o b
           text == TextOf(doc, old)
           o == (doc.options \ {"stream_off", "quiet"}) \cup (old.options \cap {"dump"})
<1>1. text = [options |-> o, drop |-> doc.drop, entries |-> es]
  BY DEF TextOf, Written
<1>2. /\ a \in Seq(ToSet(a)) /\ \A i \in DOMAIN a : IsAccount(a[i]) /\ a[i].kind = "plans"
      /\ b \in Seq(ToSet(b)) /\ \A i \in DOMAIN b : IsAccount(b[i]) /\ b[i].kind = "fallback"
      /\ Len(a) \in Nat /\ Len(b) \in Nat
  BY WrittenOfKind
<1> HIDE DEF a, b, o, text
<1>3. IsList(es) /\ PartedAt(es, Len(a)) /\ Len(es) = Len(a) + Len(b)
  BY <1>2, TwoSections
<1> HIDE DEF es
<1>4. text.entries = es /\ text.drop = doc.drop /\ text.options = o
  BY <1>1
<1>5. Parted(es)
  <2>1. Len(a) \in 0..Len(es)
    BY <1>2, <1>3
  <2> QED
    BY <1>3, <2>1 DEF Parted
<1>6. doc.drop \in Nat
  BY DEF IsDoc
<1>7. es \in Seq(ToSet(es)) /\ \A e \in ToSet(es) : IsEntry(e)
  BY <1>3 DEF IsList, IsAccount, ToSet
<1>8. IsText(text)
  BY <1>1, <1>4, <1>6, <1>7 DEF IsText
<1> QED
  BY <1>3, <1>4, <1>5, <1>8 DEF text, es, a, b

(* Rows in their order are written in it.                                  *)
LEMMA SavedInOrder ==
    ASSUME NEW doc, IsDoc(doc), NEW old, HasKeys(doc, old), Parted(doc.rows)
    PROVE  LET es == TextOf(doc, old).entries
           IN  /\ DOMAIN es = DOMAIN doc.rows
               /\ \A i \in DOMAIN es : \E k \in Nat : es[i] = EndpointYaml(doc.rows[i], k, old)
<1> DEFINE rows == doc.rows
           U == ToSet(rows)
           n == Len(rows)
           a == Written(doc, old, "plans")
           b == Written(doc, old, "fallback")
           es == TextOf(doc, old).entries
<1>1. PICK m \in 0..n : PartedAt(rows, m)
  BY DEF Parted
<1>2. rows \in Seq(U) /\ n \in Nat /\ m \in Nat /\ m <= n /\ DOMAIN rows = 1..n
  <2>1. rows \in Seq(U)
    BY DEF IsDoc
  <2> QED
    BY <1>1, <2>1
<1>3. /\ Rows(doc, "plans") = [i \in 1..m |-> rows[i]]
      /\ Rows(doc, "fallback") = [i \in 1..(n - m) |-> rows[m + i]]
  <2>1. Rows(doc, "plans") = OfKind(rows, "plans")
        /\ Rows(doc, "fallback") = OfKind(rows, "fallback")
    BY DEF Rows
  <2>2. rows \in Seq(U) /\ PartedAt(rows, m)
    BY <1>1, <1>2
  <2> HIDE DEF U, rows
  <2>3. /\ OfKind(rows, "plans") = [i \in 1..m |-> rows[i]]
        /\ OfKind(rows, "fallback") = [i \in 1..(n - m) |-> rows[m + i]]
    BY <2>2, PartsApart
  <2> QED
    BY <2>1, <2>3
<1>4. /\ a \in Seq(ToSet(a)) /\ DOMAIN a = 1..Len(a) /\ Len(a) \in Nat
      /\ b \in Seq(ToSet(b)) /\ DOMAIN b = 1..Len(b) /\ Len(b) \in Nat
  BY WrittenOfKind
<1>5. /\ DOMAIN a = 1..m
      /\ \A i \in 1..m : a[i] = EndpointYaml(rows[i], i, old)
  <2> DEFINE p == Rows(doc, "plans")
  <2>1. DOMAIN p = 1..m /\ \A i \in 1..m : p[i] = rows[i]
    BY <1>3
  <2>2. a = [i \in DOMAIN p |-> EndpointYaml(p[i], i, old)]
    BY DEF Written
  <2> HIDE DEF p, a, rows
  <2> QED
    BY <2>1, <2>2
<1>6. /\ DOMAIN b = 1..(n - m)
      /\ \A i \in 1..(n - m) : b[i] = EndpointYaml(rows[m + i], i, old)
  <2> DEFINE p == Rows(doc, "fallback")
  <2>1. DOMAIN p = 1..(n - m) /\ \A i \in 1..(n - m) : p[i] = rows[m + i]
    BY <1>3
  <2>2. b = [i \in DOMAIN p |-> EndpointYaml(p[i], i, old)]
    BY DEF Written
  <2> HIDE DEF p, b, rows
  <2> QED
    BY <2>1, <2>2
<1>7. es = a \o b
  BY SavedIsText
<1> HIDE DEF a, b, es, rows, n, U
<1>8. Len(a) = m /\ Len(b) = n - m
  <2>1. m \in Nat /\ n - m \in Nat
    BY <1>2
  <2>2. \A k, l \in Nat : 1..k = 1..l => k = l
    OBVIOUS
  <2>3. 1..Len(a) = 1..m /\ 1..Len(b) = 1..(n - m)
    BY <1>4, <1>5, <1>6
  <2> QED
    BY <1>4, <2>1, <2>2, <2>3
<1> DEFINE V == ToSet(a) \cup ToSet(b)
<1>9. a \in Seq(V) /\ b \in Seq(V)
  BY <1>4
<1> HIDE DEF V
<1>10. /\ DOMAIN es = 1..n
       /\ \A i \in 1..n : es[i] = IF i <= m THEN a[i] ELSE b[i - m]
  <2>1. m + (n - m) = n
    BY <1>2
  <2> DEFINE ab == a \o b
  <2>2. /\ DOMAIN ab = 1..(Len(a) + Len(b))
        /\ \A i \in DOMAIN ab : ab[i] = IF i <= Len(a) THEN a[i] ELSE b[i - Len(a)]
    BY <1>9, OneAfterOther
  <2>3. es = ab /\ Len(a) = m /\ Len(a) + Len(b) = n
    BY <1>7, <1>8, <2>1
  <2> HIDE DEF ab
  <2> QED
    BY <2>2, <2>3
<1>11. ASSUME NEW i \in 1..n PROVE \E k \in Nat : es[i] = EndpointYaml(rows[i], k, old)
  <2>1. CASE i <= m
    <3>1. i \in 1..m /\ i \in Nat
      BY <1>2, <2>1
    <3> QED
      BY <1>5, <1>10, <2>1, <3>1
  <2>2. CASE ~(i <= m)
    <3>1. i - m \in 1..(n - m) /\ i - m \in Nat /\ m + (i - m) = i
      BY <1>2, <2>2
    <3>2. es[i] = EndpointYaml(rows[i], i - m, old)
      BY <1>6, <1>10, <2>2, <3>1
    <3> QED
      BY <3>1, <3>2
  <2> QED
    BY <2>1, <2>2
<1> QED
  BY <1>2, <1>10, <1>11 DEF es, rows

IsRows(rows) == rows \in Seq(ToSet(rows)) /\ \A i \in DOMAIN rows : IsRow(rows[i])

(* A document with other rows is a document.                               *)
LEMMA DocOfRows ==
    ASSUME NEW doc, IsDoc(doc)
    PROVE  /\ IsRows(doc.rows)
           /\ \A rows : IsRows(rows) => IsDoc([doc EXCEPT !.rows = rows])
           /\ \A rows : [doc EXCEPT !.rows = rows].rows = rows
           /\ \A rows : [doc EXCEPT !.rows = rows].drop = doc.drop
<1>1. /\ doc = [options |-> doc.options, drop |-> doc.drop, rows |-> doc.rows]
      /\ doc.drop \in Nat
      /\ doc.rows \in Seq(ToSet(doc.rows)) /\ \A r \in ToSet(doc.rows) : IsRow(r)
  BY DEF IsDoc
<1>2. IsRows(doc.rows)
  BY <1>1 DEF IsRows, ToSet
<1>3. ASSUME NEW rows
      PROVE  [doc EXCEPT !.rows = rows] =
                [options |-> doc.options, drop |-> doc.drop, rows |-> rows]
  BY <1>1
<1>4. ASSUME NEW rows, IsRows(rows)
      PROVE  IsDoc([options |-> doc.options, drop |-> doc.drop, rows |-> rows])
  <2>1. \A r \in ToSet(rows) : IsRow(r)
    BY <1>4 DEF IsRows, ToSet
  <2> QED
    BY <1>1, <1>4, <2>1 DEF IsDoc, IsRows
<1>5. ASSUME NEW rows
      PROVE  /\ [doc EXCEPT !.rows = rows].rows = rows
             /\ [doc EXCEPT !.rows = rows].drop = doc.drop
  BY <1>3
<1>6. ASSUME NEW rows, IsRows(rows) PROVE IsDoc([doc EXCEPT !.rows = rows])
  <2>1. IsDoc([options |-> doc.options, drop |-> doc.drop, rows |-> rows])
    BY <1>4, <1>6
  <2> QED
    BY <1>3, <2>1
<1>7. \A rows : IsRows(rows) => IsDoc([doc EXCEPT !.rows = rows])
  BY <1>6
<1> QED
  BY <1>2, <1>5, <1>7

(* A list of rows is one from its rows.                                    *)
LEMMA RowsOf ==
    ASSUME NEW n \in Nat, NEW rows, rows = [i \in 1..n |-> rows[i]],
           \A i \in 1..n : IsRow(rows[i])
    PROVE  IsRows(rows) /\ Len(rows) = n /\ DOMAIN rows = 1..n
<1>1. DOMAIN rows = 1..n
  OBVIOUS
<1>2. \A i \in 1..n : rows[i] \in ToSet(rows)
  BY <1>1 DEF ToSet
<1>3. rows \in Seq(ToSet(rows)) /\ Len(rows) = n
  BY <1>1, <1>2
<1> QED
  BY <1>1, <1>3 DEF IsRows

(* What is shown of an endpoint.                                           *)
LEMMA RowIsRow ==
    ASSUME NEW a, IsAccount(a)
    PROVE  /\ IsRow(Row(a)) /\ Row(a).key = Unchanged
           /\ Row(a) = [name |-> a.name, renamedFrom |-> NoName, kind |-> a.kind,
                        key |-> Unchanged, on |-> IsEnabled(a),
                        extra |-> a.extra \ {"anthropic_url"}, drop |-> a.drop, brief |-> FALSE]
           /\ IsRow([Row(a) EXCEPT !.key = a.key])
           /\ [Row(a) EXCEPT !.key = a.key] =
                 [name |-> a.name, renamedFrom |-> NoName, kind |-> a.kind,
                  key |-> a.key, on |-> IsEnabled(a),
                  extra |-> a.extra \ {"anthropic_url"}, drop |-> a.drop, brief |-> FALSE]
<1> DEFINE x == a.extra \ {"anthropic_url"}
           on == IsEnabled(a)
           no == FALSE
           r(k) == [name |-> a.name, renamedFrom |-> NoName, kind |-> a.kind, key |-> k,
                    on |-> on, extra |-> x, drop |-> a.drop, brief |-> no]
<1>1. IsName(a.name) /\ a.kind \in Kinds /\ IsKey(a.key) /\ a.drop \in Nat /\ on \in BOOLEAN
  <2>1. IsName(a.name) /\ a.kind \in Kinds /\ IsKey(a.key) /\ a.drop \in Nat
    BY DEF IsAccount, IsEntry, Kinds
  <2>2. on \in BOOLEAN
    BY DEF IsEnabled
  <2> QED
    BY <2>1, <2>2
<1>2. Row(a) = r(Unchanged)
  BY DEF Row
<1> HIDE DEF x, on, no
<1>3. ASSUME NEW k, k = Unchanged \/ IsKey(k) PROVE IsRow(r(k))
  <2>1. /\ r(k).name = a.name /\ r(k).kind = a.kind /\ r(k).key = k /\ r(k).on = on
        /\ r(k).drop = a.drop
    OBVIOUS
  <2>2. r(k) = [name |-> r(k).name, renamedFrom |-> r(k).renamedFrom, kind |-> r(k).kind,
                key |-> r(k).key, on |-> r(k).on, extra |-> r(k).extra, drop |-> r(k).drop,
                brief |-> r(k).brief]
    OBVIOUS
  <2> HIDE DEF r
  <2> QED
    BY <1>1, <1>3, <2>1, <2>2 DEF IsRow
<1>4. [r(Unchanged) EXCEPT !.key = a.key] = r(a.key)
  OBVIOUS
<1>5. r(Unchanged).key = Unchanged
  OBVIOUS
<1> QED
  BY <1>1, <1>2, <1>3, <1>4, <1>5 DEF x, on, no

(* The document that is shown, and the one that lists of accounts are      *)
(* written through.                                                        *)
LEMMA ShownIsDoc ==
    ASSUME NEW conf, IsConf(conf)
    PROVE  /\ IsDoc(Shown(conf)) /\ Shown(conf).drop = conf.drop
           /\ Shown(conf).rows = [i \in DOMAIN conf.accounts |-> Row(conf.accounts[i])]
           /\ Len(Shown(conf).rows) = Len(conf.accounts) /\ Len(conf.accounts) \in Nat \ {0}
           /\ DOMAIN conf.accounts = 1..Len(conf.accounts)
<1> DEFINE l == conf.accounts
           rows == [i \in DOMAIN l |-> Row(l[i])]
           o == conf.options \ {"dump"}
           d == [options |-> o, drop |-> conf.drop, rows |-> rows]
<1>1. /\ l \in Seq(ToSet(l)) /\ l # <<>> /\ conf.drop \in Nat
      /\ \A i \in DOMAIN l : IsAccount(l[i])
  BY DEF IsConf, IsList
<1>2. DOMAIN l = 1..Len(l) /\ Len(l) \in Nat \ {0}
  BY <1>1
<1>3. Shown(conf) = d
  BY DEF Shown
<1> HIDE DEF l, o
<1>4. rows = [i \in 1..Len(l) |-> rows[i]] /\ \A i \in 1..Len(l) : IsRow(rows[i])
  BY <1>1, <1>2, RowIsRow
<1> HIDE DEF rows
<1>5. IsRows(rows) /\ Len(rows) = Len(l)
  BY <1>2, <1>4, RowsOf
<1>6. IsDoc(d)
  <2>1. rows \in Seq(ToSet(rows)) /\ \A r \in ToSet(rows) : IsRow(r)
    BY <1>5 DEF IsRows, ToSet
  <2>2. d.options = o /\ d.drop = conf.drop /\ d.rows = rows
    OBVIOUS
  <2> QED
    BY <1>1, <2>1, <2>2 DEF IsDoc
<1> QED
  BY <1>2, <1>3, <1>5, <1>6 DEF l, rows

(* A list under the live sections is a document with its real keys.        *)
LEMMA PersistDocIsDoc ==
    ASSUME NEW conf, IsConf(conf), NEW list, IsList(list)
    PROVE  LET doc == PersistDoc(list, conf)
           IN  /\ IsDoc(doc) /\ HasKeys(doc, conf) /\ DOMAIN doc.rows = DOMAIN list
               /\ doc.drop = conf.drop
               /\ \A i \in DOMAIN list :
                     doc.rows[i] = [name |-> list[i].name, renamedFrom |-> NoName,
                                    kind |-> list[i].kind, key |-> list[i].key,
                                    on |-> IsEnabled(list[i]),
                                    extra |-> list[i].extra \ {"anthropic_url"},
                                    drop |-> list[i].drop, brief |-> FALSE]
<1> DEFINE rows == [i \in DOMAIN list |-> [Row(list[i]) EXCEPT !.key = list[i].key]]
           doc == PersistDoc(list, conf)
           n == Len(list)
<1>1. list \in Seq(ToSet(list)) /\ n \in Nat /\ DOMAIN list = 1..n
      /\ \A i \in 1..n : IsAccount(list[i])
  BY DEF IsList
<1>2. doc = [Shown(conf) EXCEPT !.rows = rows]
  BY DEF PersistDoc
<1>3. ASSUME NEW i \in 1..n
      PROVE  /\ IsRow(rows[i])
             /\ rows[i] = [name |-> list[i].name, renamedFrom |-> NoName,
                           kind |-> list[i].kind, key |-> list[i].key,
                           on |-> IsEnabled(list[i]),
                           extra |-> list[i].extra \ {"anthropic_url"},
                           drop |-> list[i].drop, brief |-> FALSE]
  <2>1. rows[i] = [Row(list[i]) EXCEPT !.key = list[i].key]
    BY <1>1
  <2> HIDE DEF rows
  <2> QED
    BY <1>1, <2>1, RowIsRow
<1>4. rows = [i \in 1..n |-> rows[i]]
  BY <1>1
<1> HIDE DEF rows, doc, n
<1>5. IsRows(rows) /\ DOMAIN rows = 1..n
  BY <1>1, <1>3, <1>4, RowsOf
<1>6. IsDoc(Shown(conf)) /\ Shown(conf).drop = conf.drop
  BY ShownIsDoc
<1>7. IsDoc(doc) /\ doc.rows = rows /\ doc.drop = conf.drop
  BY <1>2, <1>5, <1>6, DocOfRows
<1>8. ASSUME NEW i \in 1..n PROVE IsKey(Key(rows[i], conf))
  <2>1. rows[i].key = list[i].key /\ IsKey(list[i].key)
    <3>1. IsKey(list[i].key)
      BY <1>1 DEF IsAccount, IsEntry
    <3>2. rows[i] = [name |-> list[i].name, renamedFrom |-> NoName,
                     kind |-> list[i].kind, key |-> list[i].key,
                     on |-> IsEnabled(list[i]),
                     extra |-> list[i].extra \ {"anthropic_url"},
                     drop |-> list[i].drop, brief |-> FALSE]
      BY <1>3
    <3>3. rows[i].key = list[i].key
      BY <3>2
    <3> QED
      BY <3>1, <3>3
  <2>2. rows[i].key # Unchanged
    BY <2>1 DEF IsKey
  <2>3. Key(rows[i], conf) = rows[i].key
    BY <2>2 DEF Key
  <2> QED
    BY <2>1, <2>3
<1>9. HasKeys(doc, conf)
  BY <1>5, <1>7, <1>8 DEF HasKeys, ToSet
<1> QED
  BY <1>1, <1>3, <1>5, <1>7, <1>9 DEF doc

(* A document with another row in one place is a document.                 *)
LEMMA WithRow ==
    ASSUME NEW doc, IsDoc(doc), NEW i \in DOMAIN doc.rows, NEW row, IsRow(row)
    PROVE  /\ IsDoc(With(doc, i, row))
           /\ With(doc, i, row).rows = [doc.rows EXCEPT ![i] = row]
           /\ With(doc, i, row).drop = doc.drop
<1> DEFINE rows == [doc.rows EXCEPT ![i] = row]
           n == Len(doc.rows)
<1>1. /\ doc = [options |-> doc.options, drop |-> doc.drop, rows |-> doc.rows]
      /\ doc.rows \in Seq(ToSet(doc.rows)) /\ \A r \in ToSet(doc.rows) : IsRow(r)
  BY DEF IsDoc
<1>2. With(doc, i, row) = [doc EXCEPT !.rows = rows]
  BY <1>1 DEF With
<1>3. n \in Nat /\ DOMAIN doc.rows = 1..n /\ \A j \in 1..n : IsRow(doc.rows[j])
  BY <1>1 DEF ToSet
<1>4. rows = [j \in 1..n |-> rows[j]] /\ \A j \in 1..n : IsRow(rows[j])
  BY <1>3
<1> HIDE DEF rows, n
<1>5. IsRows(rows)
  BY <1>3, <1>4, RowsOf
<1> QED
  BY <1>2, <1>5, DocOfRows DEF rows

(* A row with other fields.                                                *)
RowWith(r, name, from, key, brief) ==
    [name |-> name, renamedFrom |-> from, kind |-> r.kind, key |-> key, on |-> r.on,
     extra |-> r.extra, drop |-> r.drop, brief |-> brief]

(* A row with another name, key or brevity is a row.                       *)
LEMMA RowWithIsRow ==
    ASSUME NEW r, IsRow(r), NEW name, IsName(name), NEW from,
           NEW key, key = Unchanged \/ IsKey(key), NEW brief
    PROVE  IsRow(RowWith(r, name, from, key, brief))
<1> DEFINE w == RowWith(r, name, from, key, brief)
<1>1. /\ w.name = name /\ w.renamedFrom = from /\ w.kind = r.kind /\ w.key = key
      /\ w.on = r.on /\ w.extra = r.extra /\ w.drop = r.drop /\ w.brief = brief
  BY DEF RowWith
<1>2. w = [name |-> name, renamedFrom |-> from, kind |-> r.kind, key |-> key, on |-> r.on,
           extra |-> r.extra, drop |-> r.drop, brief |-> brief]
  BY DEF RowWith
<1> HIDE DEF w
<1>3. w = [name |-> w.name, renamedFrom |-> w.renamedFrom, kind |-> w.kind, key |-> w.key,
           on |-> w.on, extra |-> w.extra, drop |-> w.drop, brief |-> w.brief]
  BY <1>1, <1>2
<1>4. IsRow(w)
  BY <1>1, <1>3 DEF IsRow
<1> QED
  BY <1>4 DEF w

(* What the editor changes of a row.                                       *)
LEMMA EditedRow ==
    ASSUME NEW r, IsRow(r), NEW name, NEW from, NEW key, NEW brief
    PROVE  /\ [r EXCEPT !.name = name, !.renamedFrom = from] =
                  RowWith(r, name, from, r.key, r.brief)
           /\ [r EXCEPT !.name = name, !.key = key] =
                  RowWith(r, name, r.renamedFrom, key, r.brief)
           /\ [r EXCEPT !.key = key] = RowWith(r, r.name, r.renamedFrom, key, r.brief)
           /\ [r EXCEPT !.brief = brief] = RowWith(r, r.name, r.renamedFrom, r.key, brief)
<1>1. /\ r = [name |-> r.name, renamedFrom |-> r.renamedFrom, kind |-> r.kind, key |-> r.key,
              on |-> r.on, extra |-> r.extra, drop |-> r.drop, brief |-> r.brief]
      /\ r.kind \in Kinds /\ r.on \in BOOLEAN /\ r.drop \in Nat
  BY DEF IsRow
<1>2. ASSUME NEW n, NEW f, NEW k, NEW b
      PROVE  /\ [RowWith(r, n, f, k, b) EXCEPT !.name = name] = RowWith(r, name, f, k, b)
             /\ [RowWith(r, n, f, k, b) EXCEPT !.renamedFrom = from] = RowWith(r, n, from, k, b)
             /\ [RowWith(r, n, f, k, b) EXCEPT !.key = key] = RowWith(r, n, f, key, b)
             /\ [RowWith(r, n, f, k, b) EXCEPT !.brief = brief] = RowWith(r, n, f, k, brief)
  BY DEF RowWith
<1>3. r = RowWith(r, r.name, r.renamedFrom, r.key, r.brief)
  BY <1>1 DEF RowWith
<1>4. /\ [r EXCEPT !.name = name] = RowWith(r, name, r.renamedFrom, r.key, r.brief)
      /\ [r EXCEPT !.key = key] = RowWith(r, r.name, r.renamedFrom, key, r.brief)
      /\ [r EXCEPT !.brief = brief] = RowWith(r, r.name, r.renamedFrom, r.key, brief)
  <2> DEFINE w == RowWith(r, r.name, r.renamedFrom, r.key, r.brief)
  <2>1. /\ [w EXCEPT !.name = name] = RowWith(r, name, r.renamedFrom, r.key, r.brief)
        /\ [w EXCEPT !.key = key] = RowWith(r, r.name, r.renamedFrom, key, r.brief)
        /\ [w EXCEPT !.brief = brief] = RowWith(r, r.name, r.renamedFrom, r.key, brief)
    BY <1>2
  <2>2. w = r
    BY <1>3
  <2> HIDE DEF w
  <2> QED
    BY <2>1, <2>2
<1>5. [r EXCEPT !.name = name, !.renamedFrom = from] = RowWith(r, name, from, r.key, r.brief)
  <2> DEFINE w == [r EXCEPT !.name = name]
  <2>1. w = RowWith(r, name, r.renamedFrom, r.key, r.brief)
    BY <1>4
  <2> HIDE DEF w
  <2>2. [w EXCEPT !.renamedFrom = from] = RowWith(r, name, from, r.key, r.brief)
    BY <1>2, <2>1
  <2> QED
    BY <2>2 DEF w
<1>6. [r EXCEPT !.name = name, !.key = key] = RowWith(r, name, r.renamedFrom, key, r.brief)
  <2> DEFINE w == [r EXCEPT !.name = name]
  <2>1. w = RowWith(r, name, r.renamedFrom, r.key, r.brief)
    BY <1>4
  <2> HIDE DEF w
  <2>2. [w EXCEPT !.key = key] = RowWith(r, name, r.renamedFrom, key, r.brief)
    BY <1>2, <2>1
  <2> QED
    BY <2>2 DEF w
<1> QED
  BY <1>4, <1>5, <1>6

(* Two names exchanged, in place.                                          *)
LEMMA NamesExchanged ==
    ASSUME NEW doc, IsDoc(doc), NEW i \in DOMAIN doc.rows, NEW j \in DOMAIN doc.rows
    PROVE  LET ri == doc.rows[i]
               rj == doc.rows[j]
               new == WithNames(doc, i, j)
           IN  /\ IsDoc(new) /\ new.drop = doc.drop
               /\ new.rows = [[doc.rows EXCEPT
                                ![i] = RowWith(ri, rj.name, ri.name, ri.key, ri.brief)] EXCEPT
                                ![j] = RowWith(rj, ri.name, rj.name, rj.key, rj.brief)]
<1> DEFINE ri == doc.rows[i]
           rj == doc.rows[j]
           a == Renamed(ri, rj.name)
           b == Renamed(rj, ri.name)
           one == With(doc, i, a)
<1>1. IsRow(ri) /\ IsRow(rj)
  BY DEF IsDoc, ToSet
<1>2. /\ IsName(ri.name) /\ (ri.key = Unchanged \/ IsKey(ri.key))
      /\ IsName(rj.name) /\ (rj.key = Unchanged \/ IsKey(rj.key))
  BY <1>1 DEF IsRow
<1>3. WithNames(doc, i, j) = With(one, j, b)
  BY DEF WithNames
<1>4. /\ a = RowWith(ri, rj.name, ri.name, ri.key, ri.brief)
      /\ b = RowWith(rj, ri.name, rj.name, rj.key, rj.brief)
  <2> HIDE DEF ri, rj
  <2> QED
    BY <1>1, EditedRow DEF Renamed
<1> HIDE DEF ri, rj, a, b
<1>5. IsRow(a) /\ IsRow(b)
  BY <1>1, <1>2, <1>4, RowWithIsRow
<1>6. IsDoc(one) /\ one.rows = [doc.rows EXCEPT ![i] = a] /\ one.drop = doc.drop
  BY <1>5, WithRow
<1>7. j \in DOMAIN one.rows
  BY <1>6 DEF IsDoc
<1> HIDE DEF one
<1>8. /\ IsDoc(With(one, j, b)) /\ With(one, j, b).rows = [one.rows EXCEPT ![j] = b]
      /\ With(one, j, b).drop = one.drop
  BY <1>5, <1>6, <1>7, WithRow
<1>9. With(one, j, b).rows = [[doc.rows EXCEPT ![i] = a] EXCEPT ![j] = b]
  BY <1>6, <1>8
<1> QED
  BY <1>3, <1>4, <1>6, <1>8, <1>9 DEF ri, rj

(* What an editor may send is a document.                                  *)
LEMMA EditedIsDoc ==
    ASSUME IsConf(cfg), NEW edited \in EditedDocs
    PROVE  IsDoc(edited)
<1> DEFINE doc == Shown(cfg)
           r == doc.rows
           last == Len(r)
<1>1. IsDoc(doc) /\ last \in Nat \ {0}
  BY ShownIsDoc
<1>2. /\ doc = [options |-> doc.options, drop |-> doc.drop, rows |-> r]
      /\ r \in Seq(ToSet(r)) /\ \A x \in ToSet(r) : IsRow(x)
  BY <1>1 DEF IsDoc
<1>3. DOMAIN r = 1..last /\ 1 \in DOMAIN r /\ last \in DOMAIN r
      /\ \A i \in DOMAIN r : IsRow(r[i])
  BY <1>1, <1>2 DEF ToSet
<1>4. \A i \in DOMAIN r : IsName(r[i].name) /\ (r[i].key = Unchanged \/ IsKey(r[i].key))
  BY <1>3 DEF IsRow
<1>5. (\A n \in NewNames : IsName(n)) /\ (\A k \in NewKeys : IsKey(k))
  BY ConfigStoreAssumption
<1>6. \/ edited = [doc EXCEPT !.drop = 0]
      \/ edited = With(doc, 1, [r[1] EXCEPT !.brief = TRUE])
      \/ edited = With(With(doc, 1, r[last]), last, r[1])
      \/ edited = WithNames(doc, 1, last)
      \/ edited = [doc EXCEPT !.rows = Front(@)]
      \/ \E n \in NewNames : edited = With(doc, 1, Renamed(r[1], n))
      \/ \E k \in NewKeys : edited = With(doc, 1, Rekeyed(r[1], k))
      \/ \E n \in NewNames, k \in NewKeys : edited = WithNew(doc, n, k)
  <2> DEFINE a1 == [doc EXCEPT !.drop = 0]
             a2 == With(doc, 1, [r[1] EXCEPT !.brief = TRUE])
             a3 == With(With(doc, 1, r[last]), last, r[1])
             a4 == WithNames(doc, 1, last)
             a5 == [doc EXCEPT !.rows = Front(@)]
             b(n) == With(doc, 1, Renamed(r[1], n))
             c(k) == With(doc, 1, Rekeyed(r[1], k))
             d(n, k) == WithNew(doc, n, k)
             Few == {a1, a2, a3, a4, a5}
             Names1 == {b(n) : n \in NewNames}
             Keys1 == {c(k) : k \in NewKeys}
             News1 == {d(n, k) : n \in NewNames, k \in NewKeys}
  <2>1. edited \in Few \cup Names1 \cup Keys1 \cup News1
    BY SMT DEF EditedDocs
  <2> HIDE DEF a1, a2, a3, a4, a5, b, c, d
  <2>2. edited \in Few =>
           edited = a1 \/ edited = a2 \/ edited = a3 \/ edited = a4 \/ edited = a5
    OBVIOUS
  <2>3. edited \in Names1 => \E n \in NewNames : edited = b(n)
    OBVIOUS
  <2>4. edited \in Keys1 => \E k \in NewKeys : edited = c(k)
    OBVIOUS
  <2>5. edited \in News1 => \E n \in NewNames, k \in NewKeys : edited = d(n, k)
    OBVIOUS
  <2> HIDE DEF Few, Names1, Keys1, News1
  <2>6. \/ edited = a1 \/ edited = a2 \/ edited = a3 \/ edited = a4 \/ edited = a5
        \/ \E n \in NewNames : edited = b(n)
        \/ \E k \in NewKeys : edited = c(k)
        \/ \E n \in NewNames, k \in NewKeys : edited = d(n, k)
    BY <2>1, <2>2, <2>3, <2>4, <2>5
  <2> QED
    BY Zenon, <2>6 DEF a1, a2, a3, a4, a5, b, c, d
<1> HIDE DEF doc
<1>7. ASSUME NEW a, IsRow(a) PROVE IsDoc(With(doc, 1, a))
  BY <1>1, <1>3, <1>7, WithRow
<1>8. CASE edited = [doc EXCEPT !.drop = 0]
  <2>1. edited = [options |-> doc.options, drop |-> 0, rows |-> r]
    BY <1>2, <1>8
  <2> HIDE DEF r
  <2> QED
    BY <1>2, <2>1 DEF IsDoc
<1>9. CASE edited = With(doc, 1, [r[1] EXCEPT !.brief = TRUE])
  <2> DEFINE x == [r[1] EXCEPT !.brief = TRUE]
  <2>1. x = RowWith(r[1], r[1].name, r[1].renamedFrom, r[1].key, TRUE)
    BY <1>3, EditedRow
  <2> HIDE DEF x
  <2>2. IsRow(x)
    BY <1>3, <1>4, <2>1, RowWithIsRow
  <2> QED
    BY <1>7, <1>9, <2>2 DEF x
<1>10. CASE edited = With(With(doc, 1, r[last]), last, r[1])
  <2>1. /\ IsDoc(With(doc, 1, r[last]))
        /\ With(doc, 1, r[last]).rows = [r EXCEPT ![1] = r[last]]
    BY <1>1, <1>3, WithRow
  <2>2. last \in DOMAIN With(doc, 1, r[last]).rows
    BY <1>2, <1>3, <2>1
  <2> QED
    BY <1>3, <1>10, <2>1, <2>2, WithRow
<1>11. CASE edited = WithNames(doc, 1, last)
  BY <1>1, <1>3, <1>11, NamesExchanged
<1>12. CASE edited = [doc EXCEPT !.rows = Front(@)]
  <2> DEFINE f == Front(r)
  <2>1. edited = [doc EXCEPT !.rows = f]
    BY <1>12
  <2>2. f = [i \in 1..(last - 1) |-> f[i]] /\ last - 1 \in Nat
        /\ \A i \in 1..(last - 1) : f[i] = r[i] /\ i \in DOMAIN r
    BY <1>1, <1>2, <1>3 DEF Front
  <2> HIDE DEF f
  <2>3. \A i \in 1..(last - 1) : IsRow(f[i])
    BY <1>3, <2>2
  <2>4. IsRows(f)
    BY <2>2, <2>3, RowsOf
  <2> QED
    BY <1>1, <2>1, <2>4, DocOfRows
<1>13. ASSUME NEW n \in NewNames, edited = With(doc, 1, Renamed(r[1], n))
       PROVE  IsDoc(edited)
  <2>1. Renamed(r[1], n) = RowWith(r[1], n, r[1].name, r[1].key, r[1].brief)
    BY <1>3, EditedRow DEF Renamed
  <2>2. IsRow(Renamed(r[1], n))
    BY <1>3, <1>4, <1>5, <2>1, RowWithIsRow
  <2> QED
    BY <1>7, <1>13, <2>2
<1>14. ASSUME NEW k \in NewKeys, edited = With(doc, 1, Rekeyed(r[1], k))
       PROVE  IsDoc(edited)
  <2>1. Rekeyed(r[1], k) = RowWith(r[1], r[1].name, r[1].renamedFrom, k, r[1].brief)
    BY <1>3, EditedRow DEF Rekeyed
  <2>2. IsRow(Rekeyed(r[1], k))
    BY <1>3, <1>4, <1>5, <2>1, RowWithIsRow
  <2> QED
    BY <1>7, <1>14, <2>2
<1>15. ASSUME NEW n \in NewNames, NEW k \in NewKeys, edited = WithNew(doc, n, k)
       PROVE  IsDoc(edited)
  <2> DEFINE x == [r[1] EXCEPT !.name = n, !.key = k]
             longer == Append(r, x)
             U == ToSet(r) \cup {x}
  <2>1. x = RowWith(r[1], n, r[1].renamedFrom, k, r[1].brief)
    BY <1>3, EditedRow
  <2>2. edited = [doc EXCEPT !.rows = longer]
    BY <1>15 DEF WithNew
  <2> HIDE DEF x
  <2>3. IsRow(x)
    BY <1>3, <1>5, <2>1, RowWithIsRow
  <2>4. r \in Seq(U) /\ x \in U
    BY <1>2
  <2> HIDE DEF U
  <2>5. /\ longer \in Seq(U) /\ Len(longer) = last + 1 /\ DOMAIN longer = 1..(last + 1)
        /\ \A i \in DOMAIN longer : (i \in DOMAIN r /\ longer[i] = r[i]) \/ longer[i] = x
    BY <2>4, AppendedAt
  <2> HIDE DEF longer
  <2>6. longer = [i \in 1..(last + 1) |-> longer[i]]
        /\ \A i \in 1..(last + 1) : IsRow(longer[i])
    BY <1>3, <2>3, <2>5
  <2>7. last + 1 \in Nat
    BY <1>1
  <2>8. IsRows(longer)
    <3> HIDE DEF last
    <3> QED
      BY <2>6, <2>7, RowsOf
  <2> QED
    BY <1>1, <2>2, <2>8, DocOfRows
<1> HIDE DEF r, last
<1> QED
  BY Zenon, <1>6, <1>8, <1>9, <1>10, <1>11, <1>12, <1>13, <1>14, <1>15

-----------------------------------------------------------------------------
(* The export                                                              *)

(* Accounts by their places make a list.                                   *)
LEMMA ListOf ==
    ASSUME NEW n \in Nat, NEW l, l = [i \in 1..n |-> l[i]], \A i \in 1..n : IsAccount(l[i])
    PROVE  IsList(l) /\ Len(l) = n /\ DOMAIN l = 1..n
<1>1. DOMAIN l = 1..n /\ \A i \in 1..n : l[i] \in ToSet(l)
  BY DEF ToSet
<1>2. l \in Seq(ToSet(l)) /\ Len(l) = n
  BY <1>1
<1> QED
  BY <1>1, <1>2 DEF IsList

(* What the export writes for an account.                                  *)
LEMMA EntryOfAccount ==
    ASSUME NEW a, IsAccount(a), NEW conf
    PROVE  /\ IsAccount(AccountToYaml(a, conf))
           /\ AccountToYaml(a, conf).name = a.name /\ AccountToYaml(a, conf).kind = a.kind
           /\ AccountToYaml(a, conf).key = a.key /\ AccountToYaml(a, conf).order = a.order
           /\ AccountToYaml(a, conf).drop = OwnDrop(a, conf)
<1> DEFINE e == AccountToYaml(a, conf)
           x == a.extra \cap (IF a.kind = "fallback"
                              THEN {"anthropic_url", "headers", "never"}
                              ELSE {"anthropic_url", "headers"})
           d == OwnDrop(a, conf)
           true == TRUE
<1>1. /\ IsName(a.name) /\ a.kind \in {"plans", "fallback"} /\ IsKey(a.key)
      /\ a.order \in Nat /\ a.drop \in Nat
  BY DEF IsAccount, IsEntry
<1>2. d \in Nat
  BY <1>1 DEF OwnDrop
<1>3. e = [name |-> a.name, kind |-> a.kind, key |-> a.key, on |-> true, order |-> a.order,
           extra |-> x, drop |-> d]
  BY DEF AccountToYaml
<1>4. true \in BOOLEAN
  OBVIOUS
<1> HIDE DEF x, d, e, true
<1>5. /\ e.name = a.name /\ e.kind = a.kind /\ e.key = a.key /\ e.on = true
      /\ e.order = a.order /\ e.extra = x /\ e.drop = d
  BY <1>3
<1>6. e = [name |-> e.name, kind |-> e.kind, key |-> e.key, on |-> e.on,
           order |-> e.order, extra |-> e.extra, drop |-> e.drop]
  BY <1>3, <1>5
<1>7. IsAccount(e)
  BY <1>1, <1>2, <1>4, <1>5, <1>6 DEF IsAccount, IsEntry
<1> QED
  BY <1>5, <1>7 DEF e, d

(* The export is a text, with an entry for every account in its place.     *)
LEMMA BuiltIsText ==
    ASSUME NEW conf, IsConf(conf)
    PROVE  LET text == BuildDoc(conf)
           IN  /\ IsText(text) /\ text.entries # <<>> /\ IsList(text.entries)
               /\ Parted(text.entries) /\ OwnNames(text.entries)
               /\ text.drop = conf.drop /\ text.options = conf.options
               /\ DOMAIN text.entries = DOMAIN conf.accounts
               /\ \A i \in DOMAIN conf.accounts :
                     text.entries[i] = AccountToYaml(conf.accounts[i], conf)
<1> DEFINE list == conf.accounts
           n == Len(list)
           all == OfKind(list, "plans") \o OfKind(list, "fallback")
           es == [i \in DOMAIN all |-> AccountToYaml(all[i], conf)]
           text == BuildDoc(conf)
<1>1. /\ list \in Seq(ToSet(list)) /\ \A i \in DOMAIN list : IsAccount(list[i])
      /\ list # <<>> /\ Parted(list) /\ OwnNames(list) /\ conf.drop \in Nat
  BY DEF IsConf, IsList
<1>2. n \in Nat /\ DOMAIN list = 1..n /\ 1 \in 1..n
  BY <1>1
<1>3. PICK m \in 0..n : PartedAt(list, m)
  BY <1>1 DEF Parted
<1>4. all = list
  <2> DEFINE U == ToSet(list)
  <2>1. list \in Seq(U)
    BY <1>1
  <2> HIDE DEF U, list
  <2> QED
    BY <1>3, <2>1, PartsJoined
<1>5. text = [options |-> conf.options, drop |-> conf.drop, entries |-> es]
  BY DEF BuildDoc
<1> HIDE DEF all
<1>6. es = [i \in 1..n |-> AccountToYaml(list[i], conf)]
  BY <1>2, <1>4
<1> HIDE DEF list, n, es, text
<1>7. \A i \in 1..n : es[i] = AccountToYaml(list[i], conf)
  BY <1>6
<1>8. \A i \in 1..n : /\ IsAccount(es[i])
                      /\ es[i].name = list[i].name /\ es[i].kind = list[i].kind
  BY <1>1, <1>2, <1>7, EntryOfAccount
<1>9. IsList(es) /\ Len(es) = n /\ DOMAIN es = 1..n
  <2>1. es = [i \in 1..n |-> es[i]]
    BY <1>6
  <2> QED
    BY <1>2, <1>8, <2>1, ListOf
<1>10. es # <<>>
  BY <1>2, <1>9
<1>11. Parted(es)
  <2>1. PartedAt(es, m)
    BY <1>2, <1>3, <1>8, <1>9 DEF PartedAt
  <2> QED
    BY <1>3, <1>9, <2>1 DEF Parted
<1>12. OwnNames(es)
  BY <1>1, <1>2, <1>8, <1>9 DEF OwnNames
<1>13. text.options = conf.options /\ text.drop = conf.drop /\ text.entries = es
  BY <1>5
<1>14. es \in Seq(ToSet(es)) /\ \A e \in ToSet(es) : IsEntry(e)
  BY <1>9 DEF IsList, IsAccount, ToSet
<1>15. IsText(text)
  BY <1>1, <1>5, <1>13, <1>14 DEF IsText
<1> QED
  BY <1>2, <1>7, <1>9, <1>10, <1>11, <1>12, <1>13, <1>15 DEF text, list

(* What the export reads back as.                                          *)
LEMMA BuiltReadsBack ==
    ASSUME NEW conf, IsConf(conf)
    PROVE  LET back == Parse(BuildDoc(conf))
           IN  /\ back.options = conf.options /\ back.drop = conf.drop
               /\ NamesOf(back.accounts) = NamesOf(conf.accounts)
               /\ \A i \in DOMAIN conf.accounts :
                     LET a == conf.accounts[i]
                         b == AccountNamed(back, a.name)
                     IN  b.key = a.key /\ b.kind = a.kind /\ b.order = a.order
                         /\ b.drop <= a.drop /\ (a.drop > 0) = (b.drop > 0)
<1> DEFINE text == BuildDoc(conf)
           back == Parse(text)
           list == conf.accounts
           read == back.accounts
<1>1. /\ IsText(text) /\ text.entries # <<>> /\ IsList(text.entries)
      /\ Parted(text.entries) /\ OwnNames(text.entries)
      /\ text.drop = conf.drop /\ text.options = conf.options
      /\ DOMAIN text.entries = DOMAIN list
      /\ \A i \in DOMAIN list : text.entries[i] = AccountToYaml(list[i], conf)
  BY BuiltIsText
<1>2. /\ conf.drop \in Nat /\ OwnNames(list)
      /\ \A i \in DOMAIN list : IsAccount(list[i]) /\ conf.drop <= list[i].drop
  BY DEF IsConf, IsList
<1> HIDE DEF text
<1>3. back.options = conf.options /\ back.drop = conf.drop
  BY <1>1, ParseFields
<1>4. IsConf(back)
  BY <1>1, ParseIsConf
<1>5. OwnNames(read)
  BY <1>4 DEF IsConf
<1>6. /\ DOMAIN read = DOMAIN list
      /\ \A i \in DOMAIN list :
            LET e == text.entries[i]
            IN  read[i] = [name |-> e.name, kind |-> e.kind, key |-> e.key, on |-> e.on,
                           order |-> e.order, extra |-> e.extra, drop |-> text.drop + e.drop]
  <2> HIDE DEF list
  <2> QED
    BY <1>1, ParseAsWritten
<1> HIDE DEF back, read, list
<1>7. ASSUME NEW i \in DOMAIN list
      PROVE  /\ read[i].name = list[i].name /\ read[i].key = list[i].key
             /\ read[i].kind = list[i].kind /\ read[i].order = list[i].order
             /\ read[i].drop = conf.drop + OwnDrop(list[i], conf)
  <2> DEFINE e == AccountToYaml(list[i], conf)
  <2>1. /\ e.name = list[i].name /\ e.kind = list[i].kind
        /\ e.key = list[i].key /\ e.order = list[i].order
        /\ e.drop = OwnDrop(list[i], conf)
    BY <1>2, EntryOfAccount
  <2>2. text.entries[i] = e
    BY <1>1
  <2> HIDE DEF e
  <2>3. read[i] = [name |-> e.name, kind |-> e.kind, key |-> e.key, on |-> e.on,
                   order |-> e.order, extra |-> e.extra, drop |-> text.drop + e.drop]
    BY <1>6, <2>2
  <2> QED
    BY <1>1, <2>1, <2>3
<1>8. NamesOf(read) = NamesOf(list)
  BY <1>6, <1>7 DEF NamesOf
<1>9. ASSUME NEW i \in DOMAIN list
      PROVE  LET a == list[i]
                 b == AccountNamed(back, a.name)
             IN  b.key = a.key /\ b.kind = a.kind /\ b.order = a.order
                 /\ b.drop <= a.drop /\ (a.drop > 0) = (b.drop > 0)
  <2> DEFINE a == list[i]
             b == AccountNamed(back, a.name)
  <2>1. a.name \in NamesOf(read) /\ i \in DOMAIN read /\ read[i].name = a.name
    BY <1>6, <1>7, <1>8 DEF NamesOf
  <2>2. b = read[i]
    BY <1>5, <2>1, FoundByName DEF read
  <2>3. a.drop \in Nat /\ conf.drop \in Nat /\ conf.drop <= a.drop
    BY <1>2 DEF IsAccount, IsEntry
  <2>4. b.drop = conf.drop + OwnDrop(a, conf)
    BY <1>7, <2>2
  <2> HIDE DEF b, a
  <2>5. b.drop <= a.drop /\ (a.drop > 0) = (b.drop > 0)
    BY <2>3, <2>4 DEF OwnDrop
  <2>6. b.key = a.key /\ b.kind = a.kind /\ b.order = a.order
    BY <1>7, <2>2 DEF a
  <2> QED
    BY <2>5, <2>6 DEF a, b
<1> QED
  BY <1>3, <1>8, <1>9 DEF back, read, list, text

-----------------------------------------------------------------------------
(* Lists with a change                                                     *)

(* What InsertAt does, place by place.                                     *)
LEMMA InsertedAt ==
    ASSUME NEW U, NEW s \in Seq(U), NEW e \in U, NEW i \in DOMAIN s
    PROVE  LET t == InsertAt(s, i + 1, e)
           IN  /\ t \in Seq(U) /\ Len(s) \in Nat /\ DOMAIN s = 1..Len(s)
               /\ Len(t) = Len(s) + 1 /\ DOMAIN t = 1..(Len(s) + 1)
               /\ \A k \in 1..(Len(s) + 1) :
                     t[k] = IF k <= i THEN s[k] ELSE IF k = i + 1 THEN e ELSE s[k - 1]
<1> DEFINE n == Len(s)
           a == SubSeq(s, 1, i)
           b == SubSeq(s, i + 1, n)
           t == InsertAt(s, i + 1, e)
           m == a \o <<e>>
<1>1. n \in Nat /\ DOMAIN s = 1..n /\ i \in 1..n /\ i \in Nat
  OBVIOUS
<1>2. a \in Seq(U) /\ Len(a) = i /\ \A k \in 1..i : a[k] = s[k]
  BY <1>1
<1>3. b \in Seq(U) /\ Len(b) = n - i /\ \A k \in 1..(n - i) : b[k] = s[i + k]
  BY <1>1
<1>4. t = m \o b
  <2>1. (i + 1) - 1 = i
    BY <1>1
  <2> QED
    BY <2>1 DEF InsertAt
<1>5. <<e>> \in Seq(U) /\ Len(<<e>>) = 1 /\ <<e>>[1] = e
  OBVIOUS
<1> HIDE DEF a, b, t
<1>6. /\ m \in Seq(U) /\ Len(m) = i + 1
      /\ \A k \in 1..(i + 1) : m[k] = IF k <= i THEN s[k] ELSE e
  BY <1>1, <1>2, <1>5
<1> HIDE DEF m
<1>7. t \in Seq(U) /\ Len(t) = n + 1
  <2>1. m \o b \in Seq(U) /\ Len(m \o b) = Len(m) + Len(b)
    BY <1>3, <1>6, OneAfterOther
  <2>2. (i + 1) + (n - i) = n + 1
    BY <1>1
  <2> QED
    BY <1>3, <1>4, <1>6, <2>1, <2>2
<1>8. ASSUME NEW k \in 1..(n + 1)
      PROVE  t[k] = IF k <= i THEN s[k] ELSE IF k = i + 1 THEN e ELSE s[k - 1]
  <2>1. k \in 1..(Len(m) + Len(b)) /\ t[k] = IF k <= i + 1 THEN m[k] ELSE b[k - (i + 1)]
    BY <1>1, <1>3, <1>4, <1>6
  <2>2. CASE k <= i + 1
    <3>1. k \in 1..(i + 1)
      BY <1>1, <2>2
    <3>2. ~(k <= i) => k = i + 1
      BY <1>1, <3>1
    <3> QED
      BY <1>6, <2>1, <2>2, <3>1, <3>2
  <2>3. CASE ~(k <= i + 1)
    <3>1. k - (i + 1) \in 1..(n - i) /\ i + (k - (i + 1)) = k - 1 /\ ~(k <= i) /\ k # i + 1
      BY <1>1, <2>3
    <3> QED
      BY <1>3, <2>1, <2>3, <3>1
  <2> QED
    BY <2>2, <2>3
<1> QED
  BY <1>1, <1>7, <1>8 DEF t

(* An account with another switch, or another name.                        *)
LEMMA AccountWith ==
    ASSUME NEW a, IsAccount(a), NEW on, NEW name
    PROVE  /\ on \in BOOLEAN =>
                  IsAccount([a EXCEPT !.on = on])
           /\ [a EXCEPT !.on = on] =
                  [name |-> a.name, kind |-> a.kind, key |-> a.key, on |-> on,
                   order |-> a.order, extra |-> a.extra, drop |-> a.drop]
           /\ IsName(name) =>
                  IsAccount([a EXCEPT !.name = name])
           /\ [a EXCEPT !.name = name] =
                  [name |-> name, kind |-> a.kind, key |-> a.key, on |-> a.on,
                   order |-> a.order, extra |-> a.extra, drop |-> a.drop]
<1>1. /\ a = [name |-> a.name, kind |-> a.kind, key |-> a.key, on |-> a.on,
              order |-> a.order, extra |-> a.extra, drop |-> a.drop]
      /\ IsName(a.name) /\ a.kind \in {"plans", "fallback"} /\ IsKey(a.key)
      /\ a.on \in BOOLEAN /\ a.order \in Nat /\ a.drop \in Nat
  BY DEF IsAccount, IsEntry
<1>2. [a EXCEPT !.on = on] =
          [name |-> a.name, kind |-> a.kind, key |-> a.key, on |-> on,
           order |-> a.order, extra |-> a.extra, drop |-> a.drop]
  BY <1>1
<1>3. [a EXCEPT !.name = name] =
          [name |-> name, kind |-> a.kind, key |-> a.key, on |-> a.on,
           order |-> a.order, extra |-> a.extra, drop |-> a.drop]
  BY <1>1
<1>4. ASSUME NEW b, NEW n, IsName(n), NEW o \in BOOLEAN,
             b = [name |-> n, kind |-> a.kind, key |-> a.key, on |-> o,
                  order |-> a.order, extra |-> a.extra, drop |-> a.drop]
      PROVE  IsAccount(b)
  <2>1. /\ b.name = n /\ b.kind = a.kind /\ b.key = a.key /\ b.on = o
        /\ b.order = a.order /\ b.extra = a.extra /\ b.drop = a.drop
    BY <1>4
  <2>2. b = [name |-> b.name, kind |-> b.kind, key |-> b.key, on |-> b.on,
             order |-> b.order, extra |-> b.extra, drop |-> b.drop]
    BY <1>4, <2>1
  <2> QED
    BY <1>1, <1>4, <2>1, <2>2 DEF IsAccount, IsEntry
<1> DEFINE b == [a EXCEPT !.on = on]
           c == [a EXCEPT !.name = name]
<1>5. on \in BOOLEAN => IsAccount(b)
  <2>1. b = [name |-> a.name, kind |-> a.kind, key |-> a.key, on |-> on,
             order |-> a.order, extra |-> a.extra, drop |-> a.drop]
    BY <1>2
  <2> HIDE DEF b
  <2> QED
    BY <1>1, <1>4, <2>1
<1>6. IsName(name) => IsAccount(c)
  <2>1. c = [name |-> name, kind |-> a.kind, key |-> a.key, on |-> a.on,
             order |-> a.order, extra |-> a.extra, drop |-> a.drop]
    BY <1>3
  <2> HIDE DEF c
  <2> QED
    BY <1>1, <1>4, <2>1
<1> QED
  BY <1>2, <1>3, <1>5, <1>6

(* The list of a configuration whose endpoint is switched on or off.       *)
LEMMA ToggledIsList ==
    ASSUME NEW conf, IsConf(conf), NEW i \in DOMAIN conf.accounts, NEW enabled \in BOOLEAN
    PROVE  LET old == conf.accounts
               l == Toggled(conf, i, enabled)
           IN  /\ IsList(l) /\ l # <<>> /\ Parted(l) /\ OwnNames(l) /\ DOMAIN l = DOMAIN old
               /\ \A k \in DOMAIN old :
                     l[k] = [name |-> old[k].name, kind |-> old[k].kind, key |-> old[k].key,
                             on |-> IF k = i THEN enabled ELSE old[k].on,
                             order |-> old[k].order, extra |-> old[k].extra,
                             drop |-> old[k].drop]
<1> DEFINE old == conf.accounts
           n == Len(old)
           l == Toggled(conf, i, enabled)
           b == [old[i] EXCEPT !.on = enabled]
<1>1. /\ old \in Seq(ToSet(old)) /\ \A k \in DOMAIN old : IsAccount(old[k])
      /\ Parted(old) /\ OwnNames(old) /\ old # <<>>
  BY DEF IsConf, IsList
<1>2. n \in Nat /\ DOMAIN old = 1..n /\ 1 \in 1..n
  BY <1>1
<1>3. l = [old EXCEPT ![i] = b]
  BY DEF Toggled
<1>4. /\ IsAccount(b)
      /\ b = [name |-> old[i].name, kind |-> old[i].kind, key |-> old[i].key, on |-> enabled,
              order |-> old[i].order, extra |-> old[i].extra, drop |-> old[i].drop]
  <2> DEFINE a == old[i]
  <2>1. IsAccount(a)
    BY <1>1
  <2> HIDE DEF a
  <2> QED
    BY <2>1, AccountWith DEF a
<1>5. \A k \in DOMAIN old :
         old[k] = [name |-> old[k].name, kind |-> old[k].kind, key |-> old[k].key,
                   on |-> old[k].on, order |-> old[k].order, extra |-> old[k].extra,
                   drop |-> old[k].drop]
  BY <1>1 DEF IsAccount, IsEntry
<1> HIDE DEF b, l, old
<1>6. /\ l = [k \in 1..n |-> l[k]] /\ l[i] = b
      /\ \A k \in 1..n : k # i => l[k] = old[k]
  BY <1>1, <1>2, <1>3 DEF old
<1>7. IsList(l) /\ Len(l) = n /\ DOMAIN l = 1..n
  <2>1. \A k \in 1..n : IsAccount(l[k])
    BY <1>1, <1>2, <1>4, <1>6
  <2> HIDE DEF n
  <2> QED
    BY <1>2, <1>6, <2>1, ListOf
<1>8. l # <<>>
  BY <1>2, <1>7
<1>9. ASSUME NEW k \in 1..n
      PROVE  l[k] = [name |-> old[k].name, kind |-> old[k].kind, key |-> old[k].key,
                     on |-> IF k = i THEN enabled ELSE old[k].on,
                     order |-> old[k].order, extra |-> old[k].extra, drop |-> old[k].drop]
  <2>1. CASE k = i
    BY <1>4, <1>6, <2>1
  <2>2. CASE k # i
    BY <1>2, <1>5, <1>6, <2>2
  <2> QED
    BY <2>1, <2>2
<1>10. \A k \in 1..n : l[k].name = old[k].name /\ l[k].kind = old[k].kind
  BY <1>4, <1>6
<1>11. Parted(l)
  BY <1>1, <1>2, <1>7, <1>10 DEF Parted, PartedAt
<1>12. OwnNames(l)
  BY <1>1, <1>2, <1>7, <1>10 DEF OwnNames
<1> QED
  BY <1>2, <1>7, <1>8, <1>9, <1>11, <1>12 DEF l, old

(* The list with a copy of an endpoint after it.                           *)
LEMMA DuplicatedIsList ==
    ASSUME NEW conf, IsConf(conf), NEW i \in DOMAIN conf.accounts, NEW base, IsName(base)
    PROVE  LET l == Duplicated(conf, i, base)
           IN  /\ IsList(l) /\ l # <<>> /\ Parted(l) /\ (base # NoName => OwnNames(l))
               /\ Plain(conf.accounts) => Plain(l)
<1> DEFINE old == conf.accounts
           n == Len(old)
           name == FreeName(base, NamesOf(old))
           a == old[i]
           b == [a EXCEPT !.name = name]
           l == Duplicated(conf, i, base)
           U == ToSet(old) \cup {b}
<1>1. /\ old \in Seq(ToSet(old)) /\ \A k \in DOMAIN old : IsAccount(old[k])
      /\ Parted(old) /\ OwnNames(old) /\ old # <<>>
  BY DEF IsConf, IsList
<1>2. n \in Nat /\ DOMAIN old = 1..n /\ i \in 1..n /\ i \in Nat
  BY <1>1
<1>3. IsFiniteSet(NamesOf(old))
  <2>1. IsFiniteSet(1..n)
    BY <1>2, FS_Interval
  <2> DEFINE f == [k \in 1..n |-> old[k].name]
  <2>2. f \in Surjection(1..n, NamesOf(old))
    BY <1>2 DEF NamesOf, Surjection
  <2> HIDE DEF f, n
  <2> QED
    BY <2>1, <2>2, FS_Surjection
<1>4. IsName(name) /\ name \notin NamesOf(old) /\ (base # NoName => name # NoName)
  <2> DEFINE B == {base.base}
             used == NamesOf(old)
  <2>1. base \in Names(B)
    BY DEF IsName, Names
  <2> HIDE DEF B, used
  <2>2. /\ FreeName(base, used) \in Names(B) /\ FreeName(base, used) \notin used
        /\ (base # NoName => FreeName(base, used) # NoName)
    BY <1>3, <2>1, FreeNameIsFree DEF used
  <2>3. \A x \in Names(B) : IsName(x)
    BY DEF IsName, Names
  <2> QED
    BY <2>2, <2>3 DEF used
<1> HIDE DEF name
<1>5. /\ IsAccount(b) /\ b.name = name /\ b.kind = a.kind
      /\ b.extra = a.extra /\ b.drop = a.drop
  <2>1. IsAccount(a)
    BY <1>1
  <2> HIDE DEF a
  <2>2. /\ IsAccount(b)
        /\ b = [name |-> name, kind |-> a.kind, key |-> a.key, on |-> a.on,
                order |-> a.order, extra |-> a.extra, drop |-> a.drop]
    BY <1>4, <2>1, AccountWith
  <2> DEFINE x == a.extra
             on == a.on
  <2> HIDE DEF b, x, on
  <2>3. b = [name |-> name, kind |-> a.kind, key |-> a.key, on |-> on,
             order |-> a.order, extra |-> x, drop |-> a.drop]
    BY <2>2 DEF x, on
  <2>4. b.name = name /\ b.kind = a.kind /\ b.extra = x /\ b.drop = a.drop
    BY <2>3
  <2> QED
    BY <2>2, <2>4 DEF x
<1>6. l = InsertAt(old, i + 1, b)
  BY DEF Duplicated, name
<1>7. old \in Seq(U) /\ b \in U
  BY <1>1
<1> HIDE DEF U, b, l
<1>8. /\ l \in Seq(U) /\ Len(l) = n + 1 /\ DOMAIN l = 1..(n + 1)
      /\ \A k \in 1..(n + 1) :
            l[k] = IF k <= i THEN old[k] ELSE IF k = i + 1 THEN b ELSE old[k - 1]
  <2> DEFINE x == InsertAt(old, i + 1, b)
  <2>1. i \in DOMAIN old
    OBVIOUS
  <2> HIDE DEF old
  <2>2. /\ x \in Seq(U) /\ Len(x) = n + 1 /\ DOMAIN x = 1..(n + 1)
        /\ \A k \in 1..(n + 1) :
              x[k] = IF k <= i THEN old[k] ELSE IF k = i + 1 THEN b ELSE old[k - 1]
    BY <1>7, <2>1, InsertedAt
  <2> HIDE DEF x
  <2>3. l = x
    BY <1>6 DEF x
  <2> QED
    BY <2>2, <2>3
<1>9. ASSUME NEW k \in 1..(n + 1)
      PROVE  \/ k <= i /\ k \in 1..n /\ l[k] = old[k]
             \/ k = i + 1 /\ l[k] = b
             \/ k > i + 1 /\ k - 1 \in 1..n /\ l[k] = old[k - 1]
  <2>1. CASE k <= i
    BY <1>2, <1>8, <2>1
  <2>2. CASE k = i + 1
    <3>1. ~(k <= i)
      BY <1>2, <2>2
    <3> QED
      BY <1>8, <2>2, <3>1
  <2>3. CASE k > i + 1
    <3>1. ~(k <= i) /\ k # i + 1 /\ k - 1 \in 1..n
      BY <1>2, <2>3
    <3> QED
      BY <1>8, <2>3, <3>1
  <2> QED
    BY <1>2, <2>1, <2>2, <2>3
<1> HIDE DEF n, a, old
<1>10. IsList(l)
  <2>1. \A k \in 1..(n + 1) : IsAccount(l[k])
    BY <1>1, <1>2, <1>5, <1>9
  <2>2. n + 1 \in Nat /\ l = [k \in 1..(n + 1) |-> l[k]]
    BY <1>2, <1>8
  <2> QED
    BY <2>1, <2>2, ListOf
<1>11. l # <<>>
  BY <1>2, <1>8
<1>12. Parted(l)
  <2>1. PICK m \in 0..n : PartedAt(old, m)
    BY <1>1 DEF Parted, n
  <2>2. \A k \in 1..n : old[k].kind = IF k <= m THEN "plans" ELSE "fallback"
    BY <1>2, <2>1 DEF PartedAt
  <2>3. b.kind = IF i <= m THEN "plans" ELSE "fallback"
    BY <1>2, <1>5, <2>2 DEF a
  <2> DEFINE p == IF i <= m THEN m + 1 ELSE m
  <2>4. ASSUME NEW k \in 1..(n + 1) PROVE l[k].kind = IF k <= p THEN "plans" ELSE "fallback"
    <3>1. CASE k <= i /\ k \in 1..n /\ l[k] = old[k]
      <4>1. (k <= p) <=> (k <= m)
        BY <1>2, <2>1, <3>1
      <4> QED
        BY <2>2, <3>1, <4>1
    <3>2. CASE k = i + 1 /\ l[k] = b
      <4>1. (k <= p) <=> (i <= m)
        BY <1>2, <2>1, <3>2
      <4> QED
        BY <2>3, <3>2, <4>1
    <3>3. CASE k > i + 1 /\ k - 1 \in 1..n /\ l[k] = old[k - 1]
      <4>1. (k <= p) <=> (k - 1 <= m)
        BY <1>2, <2>1, <3>3
      <4> QED
        BY <2>2, <3>3, <4>1
    <3> QED
      BY <1>9, <3>1, <3>2, <3>3
  <2>5. p \in 0..Len(l)
    BY <1>2, <1>8, <2>1
  <2> HIDE DEF p
  <2>6. PartedAt(l, p)
    BY <1>8, <2>4, <2>5 DEF PartedAt
  <2> QED
    BY <2>5, <2>6 DEF Parted
<1>13. ASSUME base # NoName PROVE OwnNames(l)
  <2>1. \A k \in 1..n : old[k].name # name /\ old[k].name # NoName
    BY <1>1, <1>2, <1>4 DEF NamesOf, OwnNames
  <2>2. \A j, k \in 1..n : old[j].name = old[k].name => j = k
    BY <1>1, <1>2 DEF OwnNames
  <2>3. ASSUME NEW j \in 1..(n + 1), NEW k \in 1..(n + 1)
        PROVE  l[j].name # NoName /\ (l[j].name = l[k].name => j = k)
    <3>1. l[j].name # NoName
      BY <1>4, <1>5, <1>9, <1>13, <2>1
    <3>2. ASSUME l[j].name = l[k].name PROVE j = k
      <4>1. \/ j <= i /\ j \in 1..n /\ l[j] = old[j]
            \/ j = i + 1 /\ l[j] = b
            \/ j > i + 1 /\ j - 1 \in 1..n /\ l[j] = old[j - 1]
        BY <1>9
      <4>2. \/ k <= i /\ k \in 1..n /\ l[k] = old[k]
            \/ k = i + 1 /\ l[k] = b
            \/ k > i + 1 /\ k - 1 \in 1..n /\ l[k] = old[k - 1]
        BY <1>9
      <4>3. CASE l[j] = b
        BY <1>5, <2>1, <3>2, <4>1, <4>2, <4>3
      <4>4. CASE l[k] = b
        BY <1>5, <2>1, <3>2, <4>1, <4>2, <4>4
      <4>5. CASE l[j] # b /\ l[k] # b
        BY <1>2, <2>2, <3>2, <4>1, <4>2, <4>5
      <4> QED
        BY <4>3, <4>4, <4>5
    <3> QED
      BY <3>1, <3>2
  <2> QED
    BY <1>8, <2>3 DEF OwnNames
<1>14. ASSUME Plain(old) PROVE Plain(l)
  <2>1. \A k \in 1..n : old[k].drop = 0 /\ "headers" \notin old[k].extra
    BY <1>2, <1>14 DEF Plain
  <2>2. b.drop = 0 /\ "headers" \notin b.extra
    BY <1>2, <1>5, <2>1 DEF a
  <2>3. \A k \in 1..(n + 1) : l[k].drop = 0 /\ "headers" \notin l[k].extra
    BY <1>9, <2>1, <2>2
  <2> QED
    BY <1>8, <2>3 DEF Plain
<1> QED
  BY <1>10, <1>11, <1>12, <1>13, <1>14 DEF l, old

-----------------------------------------------------------------------------
(* What is saved reads back                                                *)

(* The accounts that are read from what rows are written as.               *)
ReadFrom(rows, old, list) ==
    /\ DOMAIN list = DOMAIN rows
    /\ \A i \in DOMAIN rows :
          /\ list[i].name = rows[i].name /\ list[i].kind = rows[i].kind
          /\ list[i].key = Key(rows[i], old) /\ list[i].on = rows[i].on
          /\ list[i].extra = rows[i].extra \ {"headers"}

(* A document with its keys reads back as its rows.                        *)
LEMMA SavedReadsBack ==
    ASSUME NEW doc, IsDoc(doc), NEW old, HasKeys(doc, old),
           Parted(doc.rows), OwnNames(doc.rows),
           \A i \in DOMAIN doc.rows : doc.rows[i].brief = FALSE
    PROVE  ReadFrom(doc.rows, old, Parse(TextOf(doc, old)).accounts)
<1> DEFINE text == TextOf(doc, old)
           es == text.entries
           rows == doc.rows
           back == Parse(text).accounts
<1>1. IsText(text) /\ IsList(es) /\ Parted(es)
  BY SavedIsText
<1>2. DOMAIN es = DOMAIN rows
      /\ \A i \in DOMAIN es : \E k \in Nat : es[i] = EndpointYaml(rows[i], k, old)
  BY SavedInOrder
<1>3. \A i \in DOMAIN rows : IsRow(rows[i]) /\ IsKey(Key(rows[i], old))
  BY DEF IsDoc, HasKeys, ToSet
<1> HIDE DEF text, rows
<1>4. ASSUME NEW i \in DOMAIN rows
      PROVE  /\ es[i].name = rows[i].name /\ es[i].kind = rows[i].kind
             /\ es[i].key = Key(rows[i], old) /\ es[i].on = rows[i].on
             /\ es[i].extra = rows[i].extra \ {"headers"}
  <2> DEFINE r == rows[i]
  <2>1. PICK k \in Nat : es[i] = EndpointYaml(r, k, old)
    BY <1>2
  <2>2. IsRow(r) /\ IsKey(Key(r, old))
    BY <1>3
  <2>3. r.brief = FALSE
    BY DEF rows
  <2> HIDE DEF r
  <2>4. EndpointYaml(r, k, old) =
           [name |-> r.name, kind |-> r.kind, key |-> Key(r, old), on |-> r.on,
            order |-> 10 * k, extra |-> Extra(r, old) \ {"headers"}, drop |-> 0]
    BY <2>2, EntryOfRow
  <2>5. Extra(r, old) = r.extra
    BY <2>3 DEF Extra
  <2> DEFINE x == Extra(r, old) \ {"headers"}
             key == Key(r, old)
  <2> HIDE DEF x, key
  <2>6. es[i] = [name |-> r.name, kind |-> r.kind, key |-> key, on |-> r.on,
                 order |-> 10 * k, extra |-> x, drop |-> 0]
    BY <2>1, <2>4 DEF x, key
  <2>7. /\ es[i].name = r.name /\ es[i].kind = r.kind /\ es[i].key = key
        /\ es[i].on = r.on /\ es[i].extra = x
    BY <2>6
  <2> QED
    BY <2>5, <2>7 DEF x, key, r
<1>5. OwnNames(es)
  <2>1. \A i, j \in DOMAIN rows :
           rows[i].name # NoName /\ (rows[i].name = rows[j].name => i = j)
    BY DEF OwnNames, rows
  <2> QED
    BY <1>2, <1>4, <2>1 DEF OwnNames
<1>6. DOMAIN back = DOMAIN es
      /\ \A i \in DOMAIN es :
            LET e == es[i]
            IN  back[i] = [name |-> e.name, kind |-> e.kind, key |-> e.key, on |-> e.on,
                           order |-> e.order, extra |-> e.extra, drop |-> text.drop + e.drop]
  BY <1>1, <1>5, ParseAsWritten
<1> HIDE DEF back, es
<1>7. \A i \in DOMAIN rows :
         /\ back[i].name = es[i].name /\ back[i].kind = es[i].kind
         /\ back[i].key = es[i].key /\ back[i].on = es[i].on
         /\ back[i].extra = es[i].extra
  BY <1>2, <1>6
<1> QED
  BY <1>2, <1>4, <1>6, <1>7 DEF ReadFrom, back, es, text, rows

(* What is saved is broken, or what the document is written as; and it is  *)
(* that if no row has headers or parameters to drop.                       *)
LEMMA BrokenOrWritten ==
    ASSUME NEW doc, IsDoc(doc), NEW old, HasKeys(doc, old), doc.rows # <<>>, Parted(doc.rows)
    PROVE  /\ Parses(DocToYaml(doc, old)) => DocToYaml(doc, old) = TextOf(doc, old)
           /\ (\A i \in DOMAIN doc.rows :
                   doc.rows[i].drop = 0 /\ "headers" \notin doc.rows[i].extra)
                 => Parses(DocToYaml(doc, old))
<1> DEFINE text == TextOf(doc, old)
<1>1. ~Parses(Broken)
  BY DEF Parses
<1>2. Parses(DocToYaml(doc, old)) => DocToYaml(doc, old) = text
  BY <1>1 DEF DocToYaml
<1>3. Parses(text)
  <2>1. IsText(text) /\ IsList(text.entries)
    BY SavedIsText
  <2>2. text # Broken
    <3> HIDE DEF text
    <3>1. DOMAIN text = {"options", "drop", "entries"}
      BY <2>1 DEF IsText
    <3> QED
      BY <3>1 DEF Broken
  <2>3. DOMAIN text.entries = DOMAIN doc.rows
    BY SavedInOrder
  <2>4. 1 \in DOMAIN doc.rows
    <3>1. doc.rows \in Seq(ToSet(doc.rows))
      BY DEF IsDoc
    <3> DEFINE rows == doc.rows
    <3> HIDE DEF rows
    <3> QED
      BY <3>1 DEF rows
  <2> HIDE DEF text
  <2> QED
    BY <2>2, <2>3, <2>4 DEF Parses
<1>4. ASSUME \A i \in DOMAIN doc.rows :
                doc.rows[i].drop = 0 /\ "headers" \notin doc.rows[i].extra
      PROVE  Parses(DocToYaml(doc, old))
  <2>1. \A i \in DOMAIN doc.rows : ~Spills(doc.rows[i])
    BY <1>4 DEF Spills
  <2>2. NestsClean(doc.rows)
    BY <2>1 DEF NestsClean
  <2> QED
    BY <1>3, <2>2 DEF DocToYaml
<1> QED
  BY <1>2, <1>4

(* A list that is saved under the live configuration reads back with what  *)
(* a save carries, if at all.                                              *)
LEMMA PersistedIsCarried ==
    ASSUME IsConf(cfg), NEW list, IsList(list), list # <<>>, Parted(list), OwnNames(list)
    PROVE  /\ Parses(Persisted(list)) =>
                 CarriedAll(Parse(Persisted(list)).accounts) = CarriedAll(list)
           /\ Plain(list) => Parses(Persisted(list))
<1> DEFINE doc == PersistDoc(list, cfg)
           rows == doc.rows
           back == Parse(TextOf(doc, cfg)).accounts
<1>1. /\ IsDoc(doc) /\ HasKeys(doc, cfg) /\ DOMAIN rows = DOMAIN list
      /\ \A i \in DOMAIN list :
            rows[i] = [name |-> list[i].name, renamedFrom |-> NoName,
                       kind |-> list[i].kind, key |-> list[i].key,
                       on |-> IsEnabled(list[i]),
                       extra |-> list[i].extra \ {"anthropic_url"},
                       drop |-> list[i].drop, brief |-> FALSE]
  BY PersistDocIsDoc
<1>2. \A i \in DOMAIN list : IsAccount(list[i])
  BY DEF IsList
<1> HIDE DEF doc
<1>3. ASSUME NEW i \in DOMAIN list
      PROVE  /\ rows[i].name = list[i].name /\ rows[i].kind = list[i].kind
             /\ Key(rows[i], cfg) = list[i].key /\ rows[i].on = IsEnabled(list[i])
             /\ rows[i].extra = list[i].extra \ {"anthropic_url"}
             /\ rows[i].drop = list[i].drop /\ rows[i].brief = FALSE
  <2> DEFINE on == IsEnabled(list[i])
             x == list[i].extra \ {"anthropic_url"}
             brief == FALSE
             r == rows[i]
  <2> HIDE DEF on, x, brief
  <2>1. r = [name |-> list[i].name, renamedFrom |-> NoName,
             kind |-> list[i].kind, key |-> list[i].key, on |-> on, extra |-> x,
             drop |-> list[i].drop, brief |-> brief]
    BY <1>1 DEF on, x, brief
  <2> HIDE DEF r
  <2>2. /\ r.name = list[i].name /\ r.kind = list[i].kind /\ r.key = list[i].key
        /\ r.on = on /\ r.extra = x /\ r.drop = list[i].drop /\ r.brief = brief
    BY <2>1
  <2>3. list[i].key # Unchanged
    BY <1>2 DEF IsAccount, IsEntry, IsKey
  <2>4. Key(r, cfg) = list[i].key
    BY <2>2, <2>3 DEF Key
  <2> QED
    BY <2>2, <2>4 DEF on, x, brief, r
<1>4. Len(rows) = Len(list)
  <2>1. rows \in Seq(ToSet(rows)) /\ list \in Seq(ToSet(list))
    BY <1>1 DEF IsDoc, IsList
  <2> QED
    BY <1>1, <2>1
<1>5. Parted(rows)
  <2>1. PICK m \in 0..Len(list) : PartedAt(list, m)
    BY DEF Parted
  <2>2. PartedAt(rows, m)
    BY <1>1, <1>3, <1>4, <2>1 DEF PartedAt
  <2> QED
    BY <1>4, <2>1, <2>2 DEF Parted
<1>6. OwnNames(rows)
  <2>1. \A i, j \in DOMAIN list :
           list[i].name # NoName /\ (list[i].name = list[j].name => i = j)
    BY DEF OwnNames
  <2>2. DOMAIN rows = DOMAIN list /\ \A i \in DOMAIN list : rows[i].name = list[i].name
    BY <1>1, <1>3
  <2> HIDE DEF rows
  <2> QED
    BY <2>1, <2>2 DEF OwnNames
<1>7. /\ DOMAIN back = DOMAIN list
      /\ \A i \in DOMAIN list :
            /\ back[i].name = rows[i].name /\ back[i].kind = rows[i].kind
            /\ back[i].key = Key(rows[i], cfg) /\ back[i].on = rows[i].on
            /\ back[i].extra = rows[i].extra \ {"headers"}
  <2>1. ReadFrom(rows, cfg, back)
    <3>1. \A i \in DOMAIN rows : rows[i].brief = FALSE
      BY <1>1, <1>3
    <3> QED
      BY <1>1, <1>5, <1>6, <3>1, SavedReadsBack
  <2> HIDE DEF back
  <2> QED
    BY <1>1, <2>1 DEF ReadFrom
<1> HIDE DEF back
<1>8. ASSUME NEW i \in DOMAIN list PROVE Carried(back[i]) = Carried(list[i])
  <2>1. /\ back[i].name = list[i].name /\ back[i].kind = list[i].kind
        /\ back[i].key = list[i].key /\ back[i].on = IsEnabled(list[i])
        /\ back[i].extra = (list[i].extra \ {"anthropic_url"}) \ {"headers"}
    BY <1>3, <1>7
  <2>2. IsEnabled(back[i]) = IsEnabled(list[i])
    BY <2>1 DEF IsEnabled
  <2>3. back[i].extra \ {"anthropic_url", "headers"} =
            list[i].extra \ {"anthropic_url", "headers"}
    BY <2>1
  <2> QED
    BY Zenon, <2>1, <2>2, <2>3 DEF Carried
<1>9. CarriedAll(back) = CarriedAll(list)
  BY <1>7, <1>8 DEF CarriedAll
<1>10. rows # <<>>
  <2>1. rows \in Seq(ToSet(rows)) /\ list \in Seq(ToSet(list))
    BY <1>1 DEF IsDoc, IsList
  <2> HIDE DEF rows
  <2> QED
    BY <1>4, <2>1
<1>11. /\ Parses(DocToYaml(doc, cfg)) => DocToYaml(doc, cfg) = TextOf(doc, cfg)
       /\ (\A i \in DOMAIN rows : rows[i].drop = 0 /\ "headers" \notin rows[i].extra)
             => Parses(DocToYaml(doc, cfg))
  BY <1>1, <1>5, <1>10, BrokenOrWritten
<1>12. Persisted(list) = DocToYaml(doc, cfg)
  BY DEF Persisted, doc
<1>13. ASSUME Plain(list) PROVE Parses(Persisted(list))
  <2>1. \A i \in DOMAIN rows : rows[i].drop = 0 /\ "headers" \notin rows[i].extra
    BY <1>1, <1>3, <1>13 DEF Plain
  <2> QED
    BY <1>11, <1>12, <2>1
<1> QED
  BY <1>9, <1>11, <1>12, <1>13 DEF back

(* What a save carries of an endpoint, with another name or switch.        *)
CarriedWith(a, name, on) ==
    [name |-> name, kind |-> a.kind, key |-> a.key, on |-> on,
     extra |-> a.extra \ {"anthropic_url", "headers"}]

(* What a save carries, with one field changed.                            *)
LEMMA CarriedFields ==
    ASSUME NEW a, NEW name, NEW on, NEW name2, NEW on2
    PROVE  /\ Carried(a) = CarriedWith(a, a.name, IsEnabled(a))
           /\ [CarriedWith(a, name, on) EXCEPT !.name = name2] = CarriedWith(a, name2, on)
           /\ [CarriedWith(a, name, on) EXCEPT !.on = on2] = CarriedWith(a, name, on2)
<1>1. Carried(a) = CarriedWith(a, a.name, IsEnabled(a))
  BY Zenon DEF Carried, CarriedWith
<1> DEFINE x == a.extra \ {"anthropic_url", "headers"}
<1>2. CarriedWith(a, name, on) = [name |-> name, kind |-> a.kind, key |-> a.key, on |-> on,
                                  extra |-> x]
      /\ CarriedWith(a, name2, on) = [name |-> name2, kind |-> a.kind, key |-> a.key, on |-> on,
                                      extra |-> x]
      /\ CarriedWith(a, name, on2) = [name |-> name, kind |-> a.kind, key |-> a.key, on |-> on2,
                                      extra |-> x]
  BY DEF CarriedWith
<1> HIDE DEF x
<1>3. [CarriedWith(a, name, on) EXCEPT !.name = name2] = CarriedWith(a, name2, on)
      /\ [CarriedWith(a, name, on) EXCEPT !.on = on2] = CarriedWith(a, name, on2)
  BY <1>2
<1> QED
  BY <1>1, <1>3

(* A toggle is local.                                                      *)
LEMMA ToggleIsLocal ==
    ASSUME IsConf(cfg), NEW i \in DOMAIN cfg.accounts
    PROVE  Loads(Persisted(Toggled(cfg, i, FALSE)),
                 [CarriedAll(cfg.accounts) EXCEPT ![i].on = FALSE], Plain(cfg.accounts))
<1> DEFINE now == cfg.accounts
           off == FALSE
           l == Toggled(cfg, i, off)
           c == CarriedAll(now)
<1>0. off \in BOOLEAN
  OBVIOUS
<1>1. /\ IsList(l) /\ l # <<>> /\ Parted(l) /\ OwnNames(l) /\ DOMAIN l = DOMAIN now
      /\ \A k \in DOMAIN now :
            l[k] = [name |-> now[k].name, kind |-> now[k].kind, key |-> now[k].key,
                    on |-> IF k = i THEN off ELSE now[k].on,
                    order |-> now[k].order, extra |-> now[k].extra, drop |-> now[k].drop]
  <2> HIDE DEF off
  <2> QED
    BY <1>0, ToggledIsList
<1>2. /\ Parses(Persisted(l)) => CarriedAll(Parse(Persisted(l)).accounts) = CarriedAll(l)
      /\ Plain(l) => Parses(Persisted(l))
  <2> HIDE DEF l
  <2> QED
    BY <1>1, PersistedIsCarried
<1> HIDE DEF l, off, now
<1>3. \A k \in DOMAIN now : /\ l[k].name = now[k].name /\ l[k].kind = now[k].kind
                            /\ l[k].key = now[k].key /\ l[k].extra = now[k].extra
                            /\ l[k].on = IF k = i THEN off ELSE now[k].on
                            /\ l[k].drop = now[k].drop
  BY <1>1
<1>4. ASSUME NEW k \in DOMAIN now
      PROVE  Carried(l[k]) = IF k = i THEN CarriedWith(now[k], now[k].name, off)
                             ELSE Carried(now[k])
  <2>1. Carried(l[k]) = CarriedWith(l[k], l[k].name, IsEnabled(l[k]))
        /\ Carried(now[k]) = CarriedWith(now[k], now[k].name, IsEnabled(now[k]))
    BY CarriedFields
  <2>2. \A name, on : CarriedWith(l[k], name, on) = CarriedWith(now[k], name, on)
    BY <1>3 DEF CarriedWith
  <2>3. CASE k = i
    <3>1. l[k].on = off
      BY <1>3, <2>3
    <3>2. IsEnabled(l[k]) = off
      BY <3>1 DEF IsEnabled, off
    <3> QED
      BY <1>3, <2>1, <2>2, <2>3, <3>2
  <2>4. CASE k # i
    <3>1. l[k].on = now[k].on /\ l[k].extra = now[k].extra
      BY <1>3, <2>4
    <3>2. IsEnabled(l[k]) = IsEnabled(now[k])
      BY <3>1 DEF IsEnabled
    <3> QED
      BY <1>3, <2>1, <2>2, <2>4, <3>2
  <2> QED
    BY <2>3, <2>4
<1>5. c = [k \in DOMAIN now |-> Carried(now[k])] /\ i \in DOMAIN now
  BY DEF CarriedAll, now
<1>6. [c[i] EXCEPT !.on = off] = CarriedWith(now[i], now[i].name, off)
  <2>1. c[i] = CarriedWith(now[i], now[i].name, IsEnabled(now[i]))
    BY <1>5, CarriedFields
  <2> QED
    BY <2>1, CarriedFields
<1> HIDE DEF c
<1> DEFINE ci == [c[i] EXCEPT !.on = off]
<1> HIDE DEF ci
<1>7. [c EXCEPT ![i] = ci] = CarriedAll(l)
  <2>1. \A k \in DOMAIN now : [c EXCEPT ![i] = ci][k] = Carried(l[k])
    BY <1>4, <1>5, <1>6 DEF ci
  <2>2. [c EXCEPT ![i] = ci] = [k \in DOMAIN now |-> [c EXCEPT ![i] = ci][k]]
    BY <1>5
  <2>3. CarriedAll(l) = [k \in DOMAIN now |-> Carried(l[k])]
    BY <1>1 DEF CarriedAll
  <2> QED
    BY <2>1, <2>2, <2>3
<1>8. [c EXCEPT ![i].on = off] = [c EXCEPT ![i] = ci]
  BY DEF ci
<1>9. Plain(now) => Plain(l)
  BY <1>1, <1>3 DEF Plain
<1> QED
  BY <1>2, <1>7, <1>8, <1>9 DEF Loads, c, l, off, now

(* The rows of a document that exchanges two names of one section.         *)
Other(i, j, k) == IF k = j THEN i ELSE IF k = i THEN j ELSE k

Exchanged(new, conf, i, j) ==
    LET now == conf.accounts
    IN  /\ IsDoc(new) /\ DOMAIN new.rows = DOMAIN now
        /\ \A k \in DOMAIN now :
              /\ new.rows[k].name = now[Other(i, j, k)].name
              /\ new.rows[k].renamedFrom = IF k \in {i, j} THEN now[k].name ELSE NoName
              /\ new.rows[k].kind = now[k].kind /\ new.rows[k].key = Unchanged
              /\ new.rows[k].on = IsEnabled(now[k])
              /\ new.rows[k].extra = now[k].extra \ {"anthropic_url"}
              /\ new.rows[k].drop = now[k].drop /\ new.rows[k].brief = FALSE

(* The document that exchanges two names, row by row.                      *)
LEMMA ExchangedRows ==
    ASSUME NEW conf, IsConf(conf),
           NEW i \in DOMAIN conf.accounts, NEW j \in DOMAIN conf.accounts
    PROVE  Exchanged(WithNames(Shown(conf), i, j), conf, i, j)
<1> DEFINE now == conf.accounts
           doc == Shown(conf)
           rows == doc.rows
           new == WithNames(doc, i, j)
           x == RowWith(rows[i], rows[j].name, rows[i].name, rows[i].key, rows[i].brief)
           y == RowWith(rows[j], rows[i].name, rows[j].name, rows[j].key, rows[j].brief)
           false == FALSE
           on(k) == IsEnabled(now[k])
           extra(k) == now[k].extra \ {"anthropic_url"}
<1>1. IsDoc(doc) /\ rows = [k \in DOMAIN now |-> Row(now[k])]
  BY ShownIsDoc
<1>2. \A k \in DOMAIN now : IsAccount(now[k])
  BY DEF IsConf, IsList
<1> HIDE DEF false, on, extra
<1>3. ASSUME NEW k \in DOMAIN now
      PROVE  rows[k] = [name |-> now[k].name, renamedFrom |-> NoName, kind |-> now[k].kind,
                        key |-> Unchanged, on |-> on(k), extra |-> extra(k),
                        drop |-> now[k].drop, brief |-> false]
  <2> DEFINE a == now[k]
  <2>1. IsAccount(a) /\ rows[k] = Row(a)
    BY <1>1, <1>2
  <2> HIDE DEF a
  <2>2. Row(a) = [name |-> a.name, renamedFrom |-> NoName, kind |-> a.kind,
                  key |-> Unchanged, on |-> IsEnabled(a),
                  extra |-> a.extra \ {"anthropic_url"}, drop |-> a.drop, brief |-> FALSE]
    BY <2>1, RowIsRow
  <2> QED
    BY <2>1, <2>2 DEF a, on, extra, false
<1>4. i \in DOMAIN rows /\ j \in DOMAIN rows /\ DOMAIN rows = DOMAIN now
  BY <1>1
<1>5. IsDoc(new) /\ new.rows = [[rows EXCEPT ![i] = x] EXCEPT ![j] = y]
  <2> HIDE DEF doc
  <2> QED
    BY <1>1, <1>4, NamesExchanged
<1> HIDE DEF doc, rows, new, now
<1>6. ASSUME NEW k \in DOMAIN now
      PROVE  /\ rows[k].name = now[k].name /\ rows[k].renamedFrom = NoName
             /\ rows[k].kind = now[k].kind /\ rows[k].key = Unchanged /\ rows[k].on = on(k)
             /\ rows[k].extra = extra(k) /\ rows[k].drop = now[k].drop
             /\ rows[k].brief = false
  <2> DEFINE r == rows[k]
             o == on(k)
             x1 == extra(k)
  <2> HIDE DEF r, o, x1
  <2>1. r = [name |-> now[k].name, renamedFrom |-> NoName, kind |-> now[k].kind,
             key |-> Unchanged, on |-> o, extra |-> x1, drop |-> now[k].drop, brief |-> false]
    BY <1>3 DEF r, o, x1
  <2>2. /\ r.name = now[k].name /\ r.renamedFrom = NoName
        /\ r.kind = now[k].kind /\ r.key = Unchanged /\ r.on = o
        /\ r.extra = x1 /\ r.drop = now[k].drop /\ r.brief = false
    BY <2>1
  <2> QED
    BY <2>2 DEF r, o, x1
<1>7. /\ x.name = now[j].name /\ x.renamedFrom = now[i].name /\ x.kind = now[i].kind
      /\ x.key = Unchanged /\ x.on = on(i) /\ x.extra = extra(i) /\ x.drop = now[i].drop
      /\ x.brief = false
  BY <1>4, <1>6 DEF RowWith
<1>8. /\ y.name = now[i].name /\ y.renamedFrom = now[j].name /\ y.kind = now[j].kind
      /\ y.key = Unchanged /\ y.on = on(j) /\ y.extra = extra(j) /\ y.drop = now[j].drop
      /\ y.brief = false
  BY <1>4, <1>6 DEF RowWith
<1> HIDE DEF x, y
<1>9. /\ DOMAIN new.rows = DOMAIN now
      /\ \A k \in DOMAIN now : new.rows[k] = IF k = j THEN y ELSE IF k = i THEN x ELSE rows[k]
  BY <1>4, <1>5
<1>10. ASSUME NEW k \in DOMAIN now
       PROVE  /\ new.rows[k].name = now[Other(i, j, k)].name
              /\ new.rows[k].renamedFrom = IF k \in {i, j} THEN now[k].name ELSE NoName
              /\ new.rows[k].kind = now[k].kind /\ new.rows[k].key = Unchanged
              /\ new.rows[k].on = on(k) /\ new.rows[k].extra = extra(k)
              /\ new.rows[k].drop = now[k].drop /\ new.rows[k].brief = false
  <2>1. CASE k = j
    BY <1>8, <1>9, <2>1 DEF Other
  <2>2. CASE k # j /\ k = i
    BY <1>7, <1>9, <2>2 DEF Other
  <2>3. CASE k # j /\ k # i
    BY <1>6, <1>9, <2>3 DEF Other
  <2> QED
    BY <2>1, <2>2, <2>3
<1> QED
  BY <1>5, <1>9, <1>10 DEF Exchanged, new, doc, now, on, extra, false

(* An exchange of two names is local; it is accepted if no endpoint has    *)
(* headers or parameters to drop.                                          *)
LEMMA ExchangeIsLocal ==
    ASSUME IsConf(cfg), NEW i \in DOMAIN cfg.accounts, NEW j \in DOMAIN cfg.accounts,
           cfg.accounts[i].kind = cfg.accounts[j].kind
    PROVE  LET now == cfg.accounts
               new == WithNames(Shown(cfg), i, j)
           IN  /\ Plain(now) => Accepted(new, cfg)
               /\ Loads(DocToYaml(new, cfg),
                        [CarriedAll(now) EXCEPT ![i].name = now[j].name,
                                                ![j].name = now[i].name], Plain(now))
<1> DEFINE now == cfg.accounts
           new == WithNames(Shown(cfg), i, j)
           rows == new.rows
           back == Parse(TextOf(new, cfg)).accounts
           n == Len(now)
           c == CarriedAll(now)
<1>1. /\ IsDoc(new) /\ DOMAIN rows = DOMAIN now
      /\ \A k \in DOMAIN now :
            /\ rows[k].name = now[Other(i, j, k)].name
            /\ rows[k].renamedFrom = IF k \in {i, j} THEN now[k].name ELSE NoName
            /\ rows[k].kind = now[k].kind /\ rows[k].key = Unchanged
            /\ rows[k].on = IsEnabled(now[k])
            /\ rows[k].extra = now[k].extra \ {"anthropic_url"}
            /\ rows[k].drop = now[k].drop /\ rows[k].brief = FALSE
  <2>1. Exchanged(new, cfg, i, j)
    BY ExchangedRows
  <2> HIDE DEF new
  <2> QED
    BY <2>1 DEF Exchanged
<1>2. /\ now \in Seq(ToSet(now)) /\ \A k \in DOMAIN now : IsAccount(now[k])
      /\ Parted(now) /\ OwnNames(now) /\ now # <<>>
  BY DEF IsConf, IsList
<1>0. \A k \in DOMAIN now : IsKey(now[k].key) /\ now[k].key # NoKey
  BY <1>2 DEF IsAccount, IsEntry, IsKey
<1>3. n \in Nat /\ DOMAIN now = 1..n /\ 1 \in 1..n
  BY <1>2
<1>4. i \in DOMAIN now /\ j \in DOMAIN now /\ now[i].kind = now[j].kind
  OBVIOUS
<1> HIDE DEF new
<1>5. ASSUME NEW k \in DOMAIN now PROVE Key(rows[k], cfg) = now[k].key
  <2> DEFINE names == NamesOf(cfg.accounts)
             r == rows[k]
  <2>1. \A l \in DOMAIN now : now[l].name \in names /\ AccountNamed(cfg, now[l].name) = now[l]
    <3>1. \A l \in DOMAIN now : now[l].name \in names
      BY DEF NamesOf
    <3> QED
      BY <1>2, <3>1, FoundByName
  <2>2. NoName \notin names
    BY <1>2 DEF NamesOf, OwnNames
  <2>3. Key(r, cfg) = IF r.renamedFrom \in names THEN AccountNamed(cfg, r.renamedFrom).key
                      ELSE IF r.name \in names THEN AccountNamed(cfg, r.name).key
                      ELSE NoKey
    BY <1>1 DEF Key
  <2>4. /\ r.name = now[Other(i, j, k)].name
        /\ r.renamedFrom = IF k \in {i, j} THEN now[k].name ELSE NoName
    BY <1>1
  <2> HIDE DEF names, r, now
  <2>5. CASE k \in {i, j}
    BY <2>1, <2>3, <2>4, <2>5 DEF r
  <2>6. CASE k \notin {i, j}
    <3>1. Other(i, j, k) = k
      BY <2>6 DEF Other
    <3>2. r.renamedFrom \notin names /\ r.name = now[k].name
      BY <2>2, <2>4, <2>6, <3>1
    <3> QED
      BY <2>1, <2>3, <3>2 DEF r
  <2> QED
    BY <2>5, <2>6
<1>6. HasKeys(new, cfg)
  <2>1. ASSUME NEW r \in ToSet(rows) PROVE IsKey(Key(r, cfg))
    <3>1. PICK k \in DOMAIN rows : r = rows[k]
      BY DEF ToSet
    <3> QED
      BY <1>0, <1>1, <1>5, <3>1
  <2> QED
    BY <2>1 DEF HasKeys
<1>7. rows # <<>> /\ Len(rows) = n
  <2>1. rows \in Seq(ToSet(rows))
    BY <1>1 DEF IsDoc
  <2> HIDE DEF rows
  <2> QED
    BY <1>1, <1>3, <2>1
<1>8. \A k \in DOMAIN rows : Key(rows[k], cfg) # NoKey
  BY <1>0, <1>1, <1>5
<1>9. Parted(rows)
  <2>1. PICK m \in 0..n : PartedAt(now, m)
    BY <1>2 DEF Parted
  <2>2. PartedAt(rows, m)
    BY <1>1, <1>7, <2>1 DEF PartedAt
  <2> QED
    BY <1>7, <2>1, <2>2 DEF Parted
<1>10. OwnNames(rows)
  <2>1. \A k, l \in DOMAIN now :
           now[k].name # NoName /\ (now[k].name = now[l].name => k = l)
    BY <1>2 DEF OwnNames
  <2>2. \A k \in DOMAIN now : Other(i, j, k) \in DOMAIN now
    BY DEF Other
  <2>3. \A k, l \in DOMAIN now : Other(i, j, k) = Other(i, j, l) => k = l
    BY DEF Other
  <2>4. \A k \in DOMAIN now : rows[k].name = now[Other(i, j, k)].name
    BY <1>1
  <2> HIDE DEF now, rows
  <2>5. \A k, l \in DOMAIN now :
           rows[k].name # NoName /\ (rows[k].name = rows[l].name => k = l)
    BY <2>1, <2>2, <2>3, <2>4
  <2> QED
    BY <1>1, <2>5 DEF OwnNames
<1>11. /\ DOMAIN back = DOMAIN now
       /\ \A k \in DOMAIN now :
             /\ back[k].name = now[Other(i, j, k)].name /\ back[k].kind = now[k].kind
             /\ back[k].key = now[k].key /\ back[k].on = IsEnabled(now[k])
             /\ back[k].extra = (now[k].extra \ {"anthropic_url"}) \ {"headers"}
  <2>1. ReadFrom(rows, cfg, back)
    <3>1. \A k \in DOMAIN rows : rows[k].brief = FALSE
      BY <1>1
    <3> QED
      BY <1>1, <1>6, <1>9, <1>10, <3>1, SavedReadsBack
  <2> HIDE DEF back, now, rows
  <2> QED
    BY <1>1, <1>5, <2>1 DEF ReadFrom
<1>21. /\ Parses(DocToYaml(new, cfg)) => DocToYaml(new, cfg) = TextOf(new, cfg)
       /\ Plain(now) => Parses(DocToYaml(new, cfg))
  <2>1. /\ Parses(DocToYaml(new, cfg)) => DocToYaml(new, cfg) = TextOf(new, cfg)
        /\ (\A k \in DOMAIN rows : rows[k].drop = 0 /\ "headers" \notin rows[k].extra)
              => Parses(DocToYaml(new, cfg))
    BY <1>1, <1>6, <1>7, <1>9, BrokenOrWritten
  <2>2. Plain(now) => \A k \in DOMAIN rows : rows[k].drop = 0 /\ "headers" \notin rows[k].extra
    BY <1>1 DEF Plain
  <2> QED
    BY <2>1, <2>2
<1>22. Plain(now) => Accepted(new, cfg)
  BY <1>7, <1>8, <1>21 DEF Accepted
<1> HIDE DEF back, rows
<1>12. ASSUME NEW k \in DOMAIN now
       PROVE  Carried(back[k]) =
                 CarriedWith(now[k], now[Other(i, j, k)].name, IsEnabled(now[k]))
  <2> DEFINE name == now[Other(i, j, k)].name
  <2>1. /\ back[k].name = name /\ back[k].kind = now[k].kind
        /\ back[k].key = now[k].key /\ back[k].on = IsEnabled(now[k])
        /\ back[k].extra = (now[k].extra \ {"anthropic_url"}) \ {"headers"}
    BY <1>11
  <2> HIDE DEF name
  <2>2. IsEnabled(back[k]) = IsEnabled(now[k])
    BY <2>1 DEF IsEnabled
  <2>3. back[k].extra \ {"anthropic_url", "headers"} =
            now[k].extra \ {"anthropic_url", "headers"}
    BY <2>1
  <2>4. Carried(back[k]) = CarriedWith(now[k], name, IsEnabled(now[k]))
    BY Zenon, <2>1, <2>2, <2>3 DEF Carried, CarriedWith
  <2> QED
    BY <2>4 DEF name
<1> HIDE DEF now
<1>13. c = [k \in DOMAIN now |-> Carried(now[k])]
       /\ \A k \in DOMAIN now : c[k] = CarriedWith(now[k], now[k].name, IsEnabled(now[k]))
  <2>1. c = [k \in DOMAIN now |-> Carried(now[k])]
    BY DEF CarriedAll
  <2> HIDE DEF c
  <2> QED
    BY <2>1, CarriedFields
<1> HIDE DEF c
<1> DEFINE ci == [c[i] EXCEPT !.name = now[j].name]
           c1 == [c EXCEPT ![i] = ci]
           cj == [c1[j] EXCEPT !.name = now[i].name]
           c2 == [c1 EXCEPT ![j] = cj]
<1>14. ci = CarriedWith(now[i], now[j].name, IsEnabled(now[i]))
  BY <1>4, <1>13, CarriedFields
<1> HIDE DEF ci
<1>15. c1 = [k \in DOMAIN now |-> IF k = i THEN ci ELSE c[k]]
  BY <1>13
<1> HIDE DEF c1
<1>16. cj = CarriedWith(now[j], now[i].name, IsEnabled(now[j]))
  <2>1. \E name : c1[j] = CarriedWith(now[j], name, IsEnabled(now[j]))
    BY <1>4, <1>13, <1>14, <1>15
  <2> QED
    BY <2>1, CarriedFields
<1> HIDE DEF cj
<1>17. c2 = [k \in DOMAIN now |-> IF k = j THEN cj ELSE IF k = i THEN ci ELSE c[k]]
  BY <1>15
<1> HIDE DEF c2
<1>18. \A k \in DOMAIN now : c2[k] = Carried(back[k])
  <2>1. ASSUME NEW k \in DOMAIN now
        PROVE  c2[k] = CarriedWith(now[k], now[Other(i, j, k)].name, IsEnabled(now[k]))
    <3>1. CASE k = j
      BY <1>16, <1>17, <3>1 DEF Other
    <3>2. CASE k # j /\ k = i
      BY <1>14, <1>17, <3>2 DEF Other
    <3>3. CASE k # j /\ k # i
      BY <1>13, <1>17, <3>3 DEF Other
    <3> QED
      BY <3>1, <3>2, <3>3
  <2> QED
    BY <1>12, <2>1
<1>19. CarriedAll(back) = c2
  <2>1. CarriedAll(back) = [k \in DOMAIN now |-> Carried(back[k])]
    BY <1>11 DEF CarriedAll
  <2>2. c2 = [k \in DOMAIN now |-> c2[k]]
    BY <1>17
  <2> QED
    BY <1>18, <2>1, <2>2
<1>20. [c EXCEPT ![i].name = now[j].name, ![j].name = now[i].name] = c2
  BY DEF c2, cj, c1, ci
<1> QED
  BY <1>19, <1>20, <1>21, <1>22 DEF Loads, c, back, rows, new, now

-----------------------------------------------------------------------------
(* The texts are sound                                                     *)

Sound(text) == text = Broken \/ IsText(text)

FilesAreSound == Sound(file.text) /\ \A b \in DOMAIN backups : Sound(backups[b])

SoundJob(j) ==
    /\ j.at \in Calls \ {"compose"} => Sound(j.text)
    /\ j.at \in {"name", "put"} => Sound(j.read)
    /\ j.at = "compose" => IsList(j.text)
    /\ j.at \in Loaders => IsConf(j.conf)

(* Every text in the store and on its way there is broken or a text, and   *)
(* every configuration that is live or about to be one has its endpoints   *)
(* in order and by names of their own.                                     *)
JobsAreSound  == \A t \in Threads : SoundJob(job[t])
TextsAreSound == FilesAreSound /\ IsConf(cfg) /\ JobsAreSound

(* When one job changes into a sound one, all stay sound.                  *)
LEMMA OneSoundJob ==
    ASSUME JobsShaped, JobsAreSound, NEW t \in Threads, NEW j, SoundJob(j),
           job' = [job EXCEPT ![t] = j]
    PROVE  JobsAreSound'
<1>1. job'[t] = j /\ \A u \in Threads \ {t} : job'[u] = job[u]
  BY JobAt
<1>2. \A u \in Threads : SoundJob(job'[u])
  BY <1>1 DEF JobsAreSound
<1> QED
  BY <1>2 DEF JobsAreSound

(* A job that holds nothing is sound.                                      *)
LEMMA IdleIsSound ==
    SoundJob(Idle) /\ SoundJob([at |-> "load"])
BY DEF SoundJob, Idle, Calls, Loaders

(* A copy has a name of its own.                                           *)
LEMMA CopyIsName ==
    ASSUME NEW a, IsAccount(a)
    PROVE  IsName(CopyOf(a.name)) /\ CopyOf(a.name) # NoName
<1> DEFINE name == a.name
           none == <<>>
<1>1. name = [base |-> name.base, copies |-> name.copies, n |-> name.n]
      /\ name.copies \in Nat
  BY DEF IsAccount, IsEntry, IsName
<1>2. none \in Seq(Nat)
  OBVIOUS
<1> HIDE DEF name, none
<1> DEFINE one == [name EXCEPT !.n = none]
           new == [base |-> name.base, copies |-> name.copies + 1, n |-> none]
<1>3. one = [base |-> name.base, copies |-> name.copies, n |-> none]
  BY <1>1
<1> HIDE DEF one
<1>4. [one EXCEPT !.copies = @ + 1] = new
  BY <1>3
<1>5. CopyOf(name) = new
  BY <1>4 DEF CopyOf, one, none
<1>6. new.base = name.base /\ new.copies = name.copies + 1 /\ new.n = none
      /\ new = [base |-> new.base, copies |-> new.copies, n |-> new.n]
  OBVIOUS
<1>7. name.copies + 1 \in Nat /\ name.copies + 1 # 0
  BY <1>1
<1> HIDE DEF new
<1>8. IsName(new)
  BY <1>2, <1>6, <1>7 DEF IsName
<1>9. new # NoName
  <2>1. NoName.copies = 0
    BY DEF NoName, Name
  <2> QED
    BY <1>6, <1>7, <2>1
<1> QED
  BY <1>5, <1>8, <1>9 DEF name

(* A call that begins with a sound text is sound.                          *)
LEMMA BegunSound ==
    ASSUME JobsShaped, JobsAreSound, NEW t \in Threads,
           NEW at \in Calls, NEW tag, NEW must, NEW text, NEW from,
           at \notin {"name", "put"}, Begin(t, at, tag, must, text, from),
           IF at = "compose" THEN IsList(text) ELSE Sound(text)
    PROVE  JobsAreSound'
<1> DEFINE j == [at |-> at, tag |-> tag, must |-> must, text |-> text, from |-> from,
                 read |-> Broken, under |-> NoBackup, kept |-> {}]
<1>1. j.at = at /\ j.text = text
  OBVIOUS
<1>2. job' = [job EXCEPT ![t] = j]
  BY DEF Begin
<1> HIDE DEF j
<1>3. SoundJob(j)
  BY <1>1 DEF SoundJob, Calls, Loaders
<1> QED
  BY <1>2, <1>3, OneSoundJob

(* A call that goes on with a sound text.                                  *)
LEMMA GoesOnSound ==
    ASSUME JobsShaped, JobsAreSound, NEW t \in Threads, IsCall(job[t]),
           NEW at \in {"copy", "write"}, NEW text, Sound(text),
           job' = [job EXCEPT ![t] = [job[t] EXCEPT !.at = at, !.text = text]]
    PROVE  JobsAreSound'
<1> DEFINE c == job[t]
           j == [c EXCEPT !.at = at, !.text = text]
<1>1. IsCall(c) /\ job' = [job EXCEPT ![t] = j]
  OBVIOUS
<1> HIDE DEF c
<1>2. j = CallWith(c, at, text, c.read, c.under, c.kept) /\ at \in Calls
  BY <1>1, MovedOnWithText DEF Calls
<1> HIDE DEF j
<1>3. j.at = at /\ j.text = text
  BY <1>1, <1>2, CallFields
<1>4. SoundJob(j)
  BY <1>3 DEF SoundJob, Loaders
<1> QED
  BY <1>1, <1>4, OneSoundJob

(* A call that begins, and one that goes on, has a sound text.             *)
LEMMA PenIsSound ==
    ASSUME JobsShaped, TextsAreSound, NEW t \in Threads, Pen(t)
    PROVE  JobsAreSound'
<1>0. /\ JobsAreSound /\ IsConf(cfg) /\ SoundJob(job[t])
      /\ DOMAIN job = Threads
  BY DEF TextsAreSound, JobsAreSound, JobsShaped
<1>1. CASE SaveFromJson(t)
  <2>1. PICK doc \in EditedDocs :
            /\ Accepted(doc, cfg)
            /\ Begin(t, "copy", "autosave", FALSE, DocToYaml(doc, cfg), NoBackup)
    BY <1>1 DEF SaveFromJson
  <2>2. IsDoc(doc)
    BY <1>0, EditedIsDoc
  <2>3. HasKeys(doc, cfg)
    <3>1. ASSUME NEW r \in ToSet(doc.rows) PROVE IsKey(Key(r, cfg))
      <4>1. IsRow(r)
        BY <2>2 DEF IsDoc
      <4>2. Key(r, cfg) # NoKey
        BY <2>1 DEF Accepted, ToSet
      <4> QED
        BY <1>0, <4>1, <4>2, KeyIsKey
    <3> QED
      BY <3>1 DEF HasKeys
  <2> DEFINE text == DocToYaml(doc, cfg)
  <2>4. Sound(text)
    BY <2>2, <2>3, SavedIsText DEF DocToYaml, Sound
  <2>5. "copy" \in Calls /\ "copy" # "compose" /\ "copy" \notin {"name", "put"}
    BY DEF Calls
  <2>6. Begin(t, "copy", "autosave", FALSE, text, NoBackup)
    BY <2>1
  <2> HIDE DEF text
  <2> QED
    BY <1>0, <2>4, <2>5, <2>6, BegunSound
<1>2. CASE SaveText(t)
  <2>1. PICK text \in HandTexts \cup {BuildDoc(cfg)}, at \in {"copy", "write"} :
            Begin(t, at, "pre-raw-edit", FALSE, text, NoBackup)
    BY <1>2 DEF SaveText
  <2>2. Sound(text)
    BY <1>0, BuiltIsText, ConfigStoreAssumption DEF Sound
  <2>3. at \in Calls /\ at # "compose" /\ at \notin {"name", "put"}
    BY DEF Calls
  <2> QED
    BY <1>0, <2>1, <2>2, <2>3, BegunSound
<1>3. CASE ChangeAccounts(t)
  <2>1. PICK i \in DOMAIN cfg.accounts :
          \/ \E enabled \in BOOLEAN :
                Begin(t, "compose", "pre-toggle", TRUE, Toggled(cfg, i, enabled), NoBackup)
          \/ \E base \in {CopyOf(cfg.accounts[i].name)} \cup NewNames :
                Begin(t, "compose", "pre-duplicate", TRUE, Duplicated(cfg, i, base), NoBackup)
    BY <1>3 DEF ChangeAccounts
  <2>2. "compose" \in Calls /\ "compose" \notin {"name", "put"}
    BY DEF Calls
  <2>3. ASSUME NEW enabled \in BOOLEAN,
               Begin(t, "compose", "pre-toggle", TRUE, Toggled(cfg, i, enabled), NoBackup)
        PROVE  JobsAreSound'
    <3>1. IsList(Toggled(cfg, i, enabled))
      BY <1>0, ToggledIsList
    <3> QED
      BY <1>0, <2>2, <2>3, <3>1, BegunSound
  <2>4. ASSUME NEW base \in {CopyOf(cfg.accounts[i].name)} \cup NewNames,
               Begin(t, "compose", "pre-duplicate", TRUE, Duplicated(cfg, i, base), NoBackup)
        PROVE  JobsAreSound'
    <3>1. IsName(CopyOf(cfg.accounts[i].name))
      BY <1>0, CopyIsName DEF IsConf, IsList
    <3>2. IsName(base)
      BY <3>1, ConfigStoreAssumption
    <3>3. IsList(Duplicated(cfg, i, base))
      BY <1>0, <3>2, DuplicatedIsList
    <3> QED
      BY <1>0, <2>2, <2>4, <3>3, BegunSound
  <2> QED
    BY <2>1, <2>3, <2>4
<1>4. CASE Compose(t)
  <2> DEFINE list == job[t].text
             text == Persisted(list)
  <2>1. job[t].at = "compose" /\ IsCall(job[t])
    BY <1>4, CallAt DEF Compose, Calls
  <2>2. IsList(list)
    BY <1>0, <2>1 DEF SoundJob
  <2>3. IsDoc(PersistDoc(list, cfg)) /\ HasKeys(PersistDoc(list, cfg), cfg)
    <3> HIDE DEF list
    <3> QED
      BY <1>0, <2>2, PersistDocIsDoc
  <2>4. Sound(text)
    BY <2>3, SavedIsText DEF DocToYaml, Persisted, Sound
  <2>5. \/ job' = [job EXCEPT ![t] = Idle]
        \/ job' = [job EXCEPT ![t] = [job[t] EXCEPT !.at = "copy", !.text = text]]
    BY <1>0, <1>4 DEF Compose
  <2>6. UNCHANGED <<files, live, seen, ghost>>
    BY <1>4 DEF Compose
  <2> HIDE DEF text
  <2>7. CASE job' = [job EXCEPT ![t] = Idle]
    BY <1>0, <2>7, IdleIsSound, OneSoundJob
  <2>8. CASE job' = [job EXCEPT ![t] = [job[t] EXCEPT !.at = "copy", !.text = text]]
    BY <1>0, <2>1, <2>4, <2>6, <2>8, GoesOnSound
  <2> QED
    BY <2>5, <2>7, <2>8
<1>5. CASE RestoreBackup(t)
  <2>1. PICK b \in DOMAIN backups : Begin(t, "copy", "pre-restore", TRUE, Broken, b)
    BY <1>5 DEF RestoreBackup
  <2>2. Sound(Broken) /\ "copy" \in Calls /\ "copy" # "compose" /\ "copy" \notin {"name", "put"}
    BY DEF Sound, Calls
  <2> QED
    BY <1>0, <2>1, <2>2, BegunSound
<1>6. CASE FetchBackup(t)
  <2> DEFINE text == backups[job[t].from]
  <2>1. job[t].at = "fetch" /\ IsCall(job[t])
    BY <1>6, CallAt DEF FetchBackup, Calls
  <2>2. \/ /\ job[t].from \in DOMAIN backups
           /\ job' = [job EXCEPT ![t] = [job[t] EXCEPT !.at = "write", !.text = text]]
        \/ job' = [job EXCEPT ![t] = Idle]
    BY <1>0, <1>6 DEF FetchBackup
  <2>3. job[t].from \in DOMAIN backups => Sound(text)
    BY DEF TextsAreSound, FilesAreSound
  <2>4. UNCHANGED <<files, live, seen, ghost>>
    BY <1>6 DEF FetchBackup
  <2> HIDE DEF text
  <2>5. CASE /\ job[t].from \in DOMAIN backups
             /\ job' = [job EXCEPT ![t] = [job[t] EXCEPT !.at = "write", !.text = text]]
    BY <1>0, <2>1, <2>3, <2>4, <2>5, GoesOnSound
  <2>6. CASE job' = [job EXCEPT ![t] = Idle]
    BY <1>0, <2>6, IdleIsSound, OneSoundJob
  <2> QED
    BY <2>2, <2>5, <2>6
<1>7. CASE WriteFails(t)
  BY <1>0, <1>7, IdleIsSound, OneSoundJob DEF WriteFails
<1> QED
  BY <1>1, <1>2, <1>3, <1>4, <1>5, <1>6, <1>7 DEF Pen

(* A copy reads and writes sound texts.                                    *)
LEMMA BackingIsSound ==
    ASSUME JobsShaped, TextsAreSound, NEW t \in Threads, Backing(t)
    PROVE  FilesAreSound' /\ JobsAreSound'
<1>0. FilesAreSound /\ JobsAreSound /\ \A u \in Threads : SoundJob(job[u])
  BY DEF TextsAreSound, JobsAreSound
<1>1. file' = file
  BY BackingSteps
<1>2. ASSUME NEW u \in Threads, IsCall(job[u]), job[u].at # "compose",
             IsCall(job'[u]), job'[u].at # "compose", job'[u].text = job[u].text,
             job'[u].at \in {"name", "put"} => Sound(job'[u].read)
      PROVE  SoundJob(job'[u])
  BY <1>0, <1>2 DEF SoundJob, IsCall, Calls, Loaders
<1>3. CASE Copy(t)
  <2>1. FilesAreSound'
    BY <1>0, <1>1, <1>3 DEF Copy, FilesAreSound, files
  <2>2. PICK j : /\ IsCall(j) /\ j.at = "name" /\ j.read = file.text /\ j.text = job[t].text
                 /\ job' = [job EXCEPT ![t] = j] /\ IsCall(job[t]) /\ job[t].at = "copy"
    BY <1>3, CopyStep
  <2>3. SoundJob(j)
    BY <1>0, <2>2 DEF SoundJob, FilesAreSound, Calls, Loaders
  <2> QED
    BY <1>0, <2>1, <2>2, <2>3, OneSoundJob
<1>4. CASE ChooseName(t)
  <2>1. FilesAreSound'
    BY <1>0, <1>1, <1>4 DEF ChooseName, FilesAreSound, files
  <2>2. ASSUME NEW u \in Threads PROVE SoundJob(job'[u])
    <3>1. CASE job'[u] = job[u]
      BY <1>0, <3>1
    <3>2. CASE job'[u] # job[u]
      <4>1. /\ IsCall(job[u]) /\ job[u].at \in {"name", "put"} /\ IsCall(job'[u])
            /\ job'[u].at = "put" /\ job'[u].text = job[u].text /\ job'[u].read = job[u].read
        BY <1>4, <3>2, ChooseStep
      <4>2. Sound(job[u].read)
        BY <1>0, <4>1 DEF SoundJob
      <4> QED
        BY <1>2, <4>1, <4>2
    <3> QED
      BY <3>1, <3>2
  <2>3. JobsAreSound'
    BY <2>2 DEF JobsAreSound
  <2> QED
    BY <2>1, <2>3
<1>5. CASE Put(t)
  <2>1. PICK j : /\ IsCall(j) /\ j.at \in {"write", "fetch"} /\ j.text = job[t].text
                 /\ job' = [job EXCEPT ![t] = j] /\ IsCall(job[t]) /\ job[t].at = "put"
    BY <1>5, PutStep
  <2>2. SoundJob(j)
    BY <1>0, <2>1 DEF SoundJob, Calls, Loaders
  <2>3. Sound(job[t].read)
    BY <1>0, <2>1 DEF SoundJob
  <2>4. FilesAreSound'
    BY <1>0, <1>1, <1>5, <2>3 DEF Put, Putting, FilesAreSound
  <2> QED
    BY <1>0, <2>1, <2>2, <2>4, OneSoundJob
<1>6. CASE CopyFails(t)
  <2>1. PICK j : /\ \/ j = Idle
                    \/ IsCall(j) /\ j.at = "write" /\ j.text = job[t].text
                 /\ job' = [job EXCEPT ![t] = j]
    BY <1>6, CopyFailsStep
  <2>2. IsCall(job[t]) /\ job[t].at \in {"copy", "name", "put"}
    BY <1>6, CopyFailsStep
  <2>3. SoundJob(j)
    BY <1>0, <2>1, <2>2, IdleIsSound DEF SoundJob, Calls, Loaders
  <2>4. Sound(Broken)
    BY DEF Sound
  <2>5. FilesAreSound'
    BY <1>0, <1>1, <1>6, <2>4 DEF CopyFails, Putting, FilesAreSound
  <2> QED
    BY <1>0, <2>1, <2>3, <2>5, OneSoundJob
<1> QED
  BY <1>3, <1>4, <1>5, <1>6 DEF Backing

(* A text that parses is read as a configuration.                          *)
LEMMA ReadIsConf ==
    ASSUME NEW text, Sound(text), Parses(text)
    PROVE  IsConf(Parse(text))
BY ParseIsConf DEF Sound, Parses

(* The texts are sound at the start.                                       *)
LEMMA SoundAtFirst ==
    ASSUME Init
    PROVE  TextsAreSound
<1>1. PICK text \in FirstTexts : file = [text |-> text, at |-> 1]
  BY DEF Init
<1>2. Parses(file.text) /\ Sound(file.text)
  BY <1>1, ConfigStoreAssumption DEF Sound
<1>3. IsConf(cfg)
  BY <1>2, ReadIsConf DEF Init
<1>4. DOMAIN backups = {} /\ \A t \in Threads : job[t] = Idle
  BY DEF Init
<1> QED
  BY <1>2, <1>3, <1>4, IdleIsSound DEF TextsAreSound, FilesAreSound, JobsAreSound

(* The texts stay sound: what is written is a text, and what is read is a  *)
(* configuration.                                                          *)
LEMMA TextsStaySound ==
    ASSUME JobsShaped, TextsAreSound, [Next]_vars
    PROVE  TextsAreSound'
<1>0. FilesAreSound /\ IsConf(cfg) /\ JobsAreSound /\ \A t \in Threads : SoundJob(job[t])
  BY DEF TextsAreSound, JobsAreSound
<1>1. (UNCHANGED files => FilesAreSound') /\ (UNCHANGED cfg => IsConf(cfg)')
  BY <1>0 DEF FilesAreSound, files
<1>2. ASSUME NEW t \in Threads, Load(t) PROVE TextsAreSound'
  <2>1. UNCHANGED files /\ UNCHANGED cfg
    BY <1>2 DEF Load, live
  <2>2. SoundJob(job'[t])
    <3>1. CASE job'[t] = Idle
      BY <3>1, IdleIsSound
    <3>2. CASE /\ Parses(file.text)
               /\ job'[t] = [at |-> "build", conf |-> Parse(file.text), late |-> FALSE]
      <4>1. IsConf(Parse(file.text))
        BY <1>0, <3>2, ReadIsConf DEF FilesAreSound
      <4>2. job'[t].at = "build" /\ job'[t].conf = Parse(file.text)
        BY <3>2
      <4> QED
        BY <4>1, <4>2 DEF SoundJob, Calls
    <3> QED
      BY <1>2, <3>1, <3>2, LoadStep
  <2>3. ASSUME NEW u \in Threads \ {t} PROVE SoundJob(job'[u])
    <3>1. job'[u] = job[u] \/ (job[u].at \in Loaders /\ Aged(job'[u], job[u]))
      BY <1>2, LoadStep
    <3>2. CASE job[u].at \in Loaders /\ Aged(job'[u], job[u])
      BY <1>0, <3>2 DEF SoundJob, Aged, Calls, Loaders
    <3> QED
      BY <1>0, <3>1, <3>2
  <2>4. JobsAreSound'
    BY <2>2, <2>3 DEF JobsAreSound
  <2> QED
    BY <1>1, <2>1, <2>4 DEF TextsAreSound
<1>3. ASSUME NEW t \in Threads, Build(t) PROVE TextsAreSound'
  <2>1. UNCHANGED files /\ UNCHANGED cfg
    BY <1>3 DEF Build
  <2>2. PICK j : j.at = "retain" /\ j.conf = job[t].conf /\ job' = [job EXCEPT ![t] = j]
    BY <1>3, BuildStep
  <2>3. SoundJob(j)
    BY <1>0, <1>3, <2>2 DEF Build, SoundJob, Calls, Loaders
  <2>4. JobsAreSound'
    BY <1>0, <2>2, <2>3, OneSoundJob
  <2> QED
    BY <1>1, <2>1, <2>4 DEF TextsAreSound
<1>4. ASSUME NEW t \in Threads, Retain(t) PROVE TextsAreSound'
  <2>1. UNCHANGED files /\ UNCHANGED cfg
    BY <1>4 DEF Retain
  <2>2. PICK j : j.at = "config" /\ j.conf = job[t].conf /\ job' = [job EXCEPT ![t] = j]
    BY <1>4, InstallSteps DEF GoesOn
  <2>3. SoundJob(j)
    BY <1>0, <1>4, <2>2 DEF Retain, SoundJob, Calls, Loaders
  <2>4. JobsAreSound'
    BY <1>0, <2>2, <2>3, OneSoundJob
  <2> QED
    BY <1>1, <2>1, <2>4 DEF TextsAreSound
<1>5. ASSUME NEW t \in Threads, SetConfig(t) PROVE TextsAreSound'
  <2>1. UNCHANGED files /\ cfg' = job[t].conf /\ job[t].at = "config"
    BY <1>5 DEF SetConfig
  <2>2. PICK j : j.at = "accounts" /\ j.conf = job[t].conf /\ job' = [job EXCEPT ![t] = j]
    BY <1>5, InstallSteps DEF GoesOn
  <2>3. IsConf(job[t].conf)
    BY <1>0, <2>1 DEF SoundJob, Loaders
  <2>4. SoundJob(j)
    BY <2>2, <2>3 DEF SoundJob, Calls, Loaders
  <2>5. JobsAreSound'
    BY <1>0, <2>2, <2>4, OneSoundJob
  <2> QED
    BY <1>1, <2>1, <2>3, <2>5 DEF TextsAreSound
<1>6. ASSUME NEW t \in Threads, SetAccounts(t) \/ (t = "watcher" /\ Poll) PROVE TextsAreSound'
  <2>1. UNCHANGED files /\ UNCHANGED cfg
    BY <1>6 DEF SetAccounts, Poll, live
  <2>2. \E j : SoundJob(j) /\ job' = [job EXCEPT ![t] = j]
    BY <1>6, IdleIsSound DEF SetAccounts, Poll
  <2>3. JobsAreSound'
    BY <1>0, <2>2, OneSoundJob
  <2> QED
    BY <1>1, <2>1, <2>3 DEF TextsAreSound
<1>7. ASSUME NEW t \in Threads, Pen(t) PROVE TextsAreSound'
  <2>1. PICK j : PenMoves(t, j)
    BY <1>7, PenSteps
  <2>2. UNCHANGED files /\ UNCHANGED cfg
    BY <2>1 DEF PenMoves, live
  <2> QED
    BY <1>1, <1>7, <2>2, PenIsSound DEF TextsAreSound
<1>8. ASSUME NEW t \in Threads, Backing(t) PROVE TextsAreSound'
  <2>1. UNCHANGED cfg
    BY <1>8, BackingSteps DEF live
  <2> QED
    BY <1>1, <1>8, <2>1, BackingIsSound DEF TextsAreSound
<1>9. ASSUME NEW t \in Threads, Write(t) PROVE TextsAreSound'
  <2>1. /\ backups' = backups /\ job[t].at = "write" /\ UNCHANGED cfg
        /\ file'.text = job[t].text
        /\ job' = [job EXCEPT ![t] = [at |-> "load"]]
    BY <1>9 DEF Write, live
  <2>2. FilesAreSound'
    BY <1>0, <2>1 DEF FilesAreSound, SoundJob, Calls
  <2>3. JobsAreSound'
    BY <1>0, <2>1, IdleIsSound, OneSoundJob
  <2> QED
    BY <1>1, <2>1, <2>2, <2>3 DEF TextsAreSound
<1>10. ASSUME NEW t \in Threads, DeleteBackup(t) PROVE TextsAreSound'
  <2>1. file' = file /\ UNCHANGED cfg
    BY <1>10 DEF DeleteBackup, live
  <2>2. PICK b \in DOMAIN backups :
              /\ backups' = Restrict(backups, DOMAIN backups \ {b})
              /\ \A u \in Threads :
                    IF job[u].at \in {"fetch", "write"}
                    THEN job'[u].at = job[u].at /\ job'[u].text = job[u].text
                    ELSE job'[u] = job[u]
    BY <1>10, DeleteStep
  <2>3. backups' = [c \in DOMAIN backups \ {b} |-> backups[c]]
    BY <2>2 DEF Restrict
  <2>4. FilesAreSound'
    BY <1>0, <2>1, <2>3 DEF FilesAreSound
  <2>5. \A u \in Threads : SoundJob(job'[u])
    BY <1>0, <2>2 DEF SoundJob, Loaders
  <2>6. JobsAreSound'
    BY <2>5 DEF JobsAreSound
  <2> QED
    BY <1>1, <2>1, <2>4, <2>6 DEF TextsAreSound
<1>11. ASSUME HandEdit PROVE TextsAreSound'
  <2>1. PICK text \in HandTexts : file' = [text |-> text, at |-> clock]
    BY <1>11 DEF HandEdit
  <2>2. UNCHANGED <<backups, cfg, job>>
    BY <1>11 DEF HandEdit, live
  <2>3. file'.text = text /\ Sound(text)
    BY <2>1, ConfigStoreAssumption DEF Sound
  <2>4. FilesAreSound'
    BY <1>0, <2>2, <2>3 DEF FilesAreSound
  <2>5. JobsAreSound'
    BY <1>0, <2>2 DEF JobsAreSound
  <2> QED
    BY <1>1, <2>2, <2>4, <2>5 DEF TextsAreSound
<1>12. ASSUME Restart PROVE TextsAreSound'
  <2>1. /\ UNCHANGED files /\ cfg' = Parse(file.text) /\ Parses(file.text)
        /\ \A u \in Threads : job'[u] = Idle
    BY <1>12 DEF Restart, files
  <2>2. IsConf(cfg)'
    BY <1>0, <2>1, ReadIsConf DEF FilesAreSound
  <2>3. JobsAreSound'
    BY <2>1, IdleIsSound DEF JobsAreSound
  <2> QED
    BY <1>1, <2>1, <2>2, <2>3 DEF TextsAreSound
<1>13. ASSUME UNCHANGED <<files, cfg, job>> PROVE TextsAreSound'
  <2>1. JobsAreSound'
    BY <1>0, <1>13 DEF JobsAreSound
  <2> QED
    BY <1>1, <1>13, <2>1 DEF TextsAreSound
<1>14. Tick \/ UNCHANGED vars => UNCHANGED <<files, cfg, job>>
  BY DEF Tick, vars, live
<1> QED
  BY <1>2, <1>3, <1>4, <1>5, <1>6, <1>7, <1>8, <1>9, <1>10, <1>11, <1>12, <1>13, <1>14
     DEF Next, Reload, Console, Pen, Backing, Threads

(* The invariant, from the start.                                          *)
LEMMA AlwaysSound == Spec => []TextsAreSound
<1>1. Init => JobsShaped /\ TextsAreSound
  BY KeptAtFirst, SoundAtFirst
<1>2. JobsShaped /\ TextsAreSound /\ [Next]_vars => (JobsShaped /\ TextsAreSound)'
  BY JobsStayShaped, TextsStaySound
<1> QED
  BY <1>1, <1>2, PTL DEF Spec

(* Whatever the configuration that is live: a toggle, a copy and an        *)
(* exchange of two names leave every other field of every endpoint as it   *)
(* was, its credential above all (api.rs:515), and are saved as a text the *)
(* router can load (api.rs:336) if no endpoint has headers or parameters   *)
(* to drop.  If one has, the call may be refused, and what is saved has    *)
(* lost the headers and no other field (api.rs:665).                       *)
THEOREM EditsStayLocal == Spec => []EditsAreLocal
<1>1. TextsAreSound => EditsAreLocal
  <2> DEFINE now == cfg.accounts
             doc == Shown(cfg)
             need == Plain(now)
  <2> SUFFICES ASSUME TextsAreSound, NEW i \in DOMAIN now
               PROVE  LET copied == Duplicated(cfg, i, CopyOf(now[i].name))
                      IN  /\ Loads(Persisted(Toggled(cfg, i, FALSE)),
                                   [CarriedAll(now) EXCEPT ![i].on = FALSE], need)
                          /\ Loads(Persisted(copied), CarriedAll(copied), need)
                          /\ \A j \in DOMAIN now : now[i].kind = now[j].kind =>
                                LET swapped == WithNames(doc, i, j)
                                IN  /\ need => Accepted(swapped, cfg)
                                    /\ Loads(DocToYaml(swapped, cfg),
                                             [CarriedAll(now) EXCEPT ![i].name = now[j].name,
                                                                     ![j].name = now[i].name],
                                             need)
    BY Zenon DEF EditsAreLocal
  <2>1. IsConf(cfg)
    BY DEF TextsAreSound
  <2>2. Loads(Persisted(Toggled(cfg, i, FALSE)), [CarriedAll(now) EXCEPT ![i].on = FALSE], need)
    BY <2>1, ToggleIsLocal
  <2> DEFINE base == CopyOf(now[i].name)
             copied == Duplicated(cfg, i, base)
  <2>3. Loads(Persisted(copied), CarriedAll(copied), need)
    <3>1. IsName(base) /\ base # NoName
      BY <2>1, CopyIsName DEF IsConf, IsList
    <3> HIDE DEF base
    <3>2. /\ IsList(copied) /\ copied # <<>> /\ Parted(copied) /\ OwnNames(copied)
          /\ need => Plain(copied)
      BY <2>1, <3>1, DuplicatedIsList
    <3> HIDE DEF copied, need
    <3>3. /\ Parses(Persisted(copied)) =>
                CarriedAll(Parse(Persisted(copied)).accounts) = CarriedAll(copied)
          /\ Plain(copied) => Parses(Persisted(copied))
      BY <2>1, <3>2, PersistedIsCarried
    <3> QED
      BY <3>2, <3>3 DEF Loads
  <2>4. ASSUME NEW j \in DOMAIN now, now[i].kind = now[j].kind
        PROVE  LET swapped == WithNames(doc, i, j)
               IN  /\ need => Accepted(swapped, cfg)
                   /\ Loads(DocToYaml(swapped, cfg),
                            [CarriedAll(now) EXCEPT ![i].name = now[j].name,
                                                    ![j].name = now[i].name], need)
    BY <2>1, <2>4, ExchangeIsLocal
  <2> QED
    BY <2>2, <2>3, <2>4
<1> QED
  BY <1>1, AlwaysSound, PTL

(* The export reads back with every endpoint, name and credential and with *)
(* the lists of dropped parameters as they are (build_doc,                 *)
(* src/configwrite.rs), whatever the configuration that is live.           *)
THEOREM TheExportReadsBack == Spec => []ExportReadsBack
<1>1. TextsAreSound => ExportReadsBack
  <2> SUFFICES ASSUME TextsAreSound PROVE ExportReadsBack
    OBVIOUS
  <2>1. IsConf(cfg)
    BY DEF TextsAreSound
  <2> QED
    BY <2>1, BuiltReadsBack DEF ExportReadsBack
<1> QED
  BY <1>1, AlwaysSound, PTL
=============================================================================
