------------------------------ MODULE Persistence ------------------------------
(***************************************************************************)
(* The state file: what a finished request adds to the totals, how the     *)
(* totals are copied and saved, and what a restart makes of the file.      *)
(*                                                                         *)
(* Three threads write the file: the flusher, the main thread (once at the *)
(* start, once when it is asked to stop) and the console's reset.  Each    *)
(* copies the totals part by part and saves the copy.  The file is the     *)
(* register AtomicFile implements: a save has a beginning and an end, and  *)
(* saves that overlap may tear it.  A total is the set of the requests in  *)
(* it; a day of the history is a number, because that is what a backfill   *)
(* could double.                                                           *)
(***************************************************************************)
EXTENDS AtomicRegister, Naturals, FiniteSets

CONSTANTS Requests,     \* exchanges with a 2xx answer
          Days,         \* local days
          DayOf,        \* the day each is counted on
          AllowanceOf,  \* the allowance each is paid from
          Metered,      \* those whose answer names tokens
          OldRequests,  \* those a file of an earlier version remembers
          OldFile,      \* that file
          MaxStarts,    \* bound: how often the process is started
          MaxWriting    \* bound: how many threads write at once

ASSUME PersistenceAssumption ==
  /\ Writers = {"flusher", "main", "console"}
  /\ DayOf \in [Requests -> Days]
  /\ Metered \subseteq Requests
  /\ OldRequests \subseteq Requests /\ OldFile \in Docs
  /\ IsFiniteSet(Requests)
  /\ MaxStarts \in Nat \ {0} /\ MaxWriting \in Nat \ {0}

VARIABLES mem,       \* the totals in memory
          dirty,     \* DIRTY
          req,       \* per request: what its thread does next
          copy,      \* per writer: the next part to copy, and the parts it has
          up,        \* the process: "down", "starting", "serving", "stopping", "exiting"
          reset,     \* the console's reset: what it does next
          starts,    \* how often the process was started
          counted,   \* for the properties: requests ever added to a day
          cleared,   \* for the properties: requests the reset took away
          mishap     \* for the properties: what has disturbed the saving

vars == <<regVars, mem, dirty, req, copy, up, reset, starts, counted, cleared, mishap>>
ghosts == <<counted, cleared, mishap>>

Totals == [stats : SUBSET Requests,
           ledger : SUBSET Requests, history : [Days -> 0..Cardinality(Requests)]]

Zero == [stats |-> {}, ledger |-> {}, history |-> [d \in Days |-> 0]]

\* The samples of a ledger that fall on a day.
On(d, requests) == {r \in requests : DayOf[r] = d}

\* What is saved are totals, and the file of an earlier version tells of
\* requests that there were.
ASSUME FileAssumption ==
  /\ Docs = Totals /\ NoDoc \notin Docs /\ Torn \notin Docs /\ NoDoc # Torn
  /\ OldFile.stats \subseteq OldRequests /\ OldFile.ledger \subseteq OldRequests
  /\ \A d \in Days : OldFile.history[d] <= Cardinality(On(d, OldRequests))

NotCopying == [part |-> "none", doc |-> Zero]

\* write() has begun and not ended, copying or saving.
Writing(w) == copy[w].part # "none" \/ Saving(w)

Init ==
  /\ RegisterInit
  /\ value \in {OldFile, NoDoc}
  /\ mem = Zero
  /\ dirty = FALSE
  /\ req = [r \in Requests |-> IF r \in OldRequests THEN "done" ELSE "coming"]
  /\ copy = [w \in Writers |-> NotCopying]
  /\ up = "down"
  /\ reset = "coming"
  /\ starts = 0
  /\ counted = OldRequests
  /\ cleared = {}
  /\ mishap = {}

Serving == up \in {"serving", "stopping", "exiting"}

-----------------------------------------------------------------------------
\* A connection thread counts its request: record_success takes one lock
\* after the other, and only then the state is marked dirty.
Step(r, from, to) ==
  /\ Serving
  /\ req[r] = from
  /\ req' = [req EXCEPT ![r] = to]
  /\ UNCHANGED <<regVars, copy, up, reset, starts, cleared, mishap>>

CountStats(r) ==
  /\ Step(r, "coming", "history")
  /\ mem' = [mem EXCEPT !.stats = @ \cup {r}]
  /\ UNCHANGED <<dirty, counted>>

CountDay(r) ==
  /\ Step(r, "history", "ledger")
  /\ mem' = [mem EXCEPT !.history[DayOf[r]] = @ + 1]
  /\ counted' = counted \cup {r}
  /\ UNCHANGED dirty

CountSample(r) ==
  /\ Step(r, "ledger", "dirty")
  /\ mem' = [mem EXCEPT !.ledger = @ \cup ({r} \cap Metered)]
  /\ UNCHANGED <<dirty, counted>>

MarkDirty(r) ==
  /\ Step(r, "dirty", "done")
  /\ dirty' = TRUE
  /\ UNCHANGED <<mem, counted>>

\* A failed attempt or a calibration marks the state dirty too.
MarkElsewhere ==
  /\ Serving
  /\ dirty' = TRUE
  /\ UNCHANGED <<regVars, mem, req, copy, up, reset, starts, ghosts>>

-----------------------------------------------------------------------------
\* write(): the thread starts to copy.
BeginWrite(w) ==
  /\ ~Writing(w)
  /\ Cardinality({v \in Writers : Writing(v)}) < MaxWriting
  /\ copy' = [copy EXCEPT ![w] = [part |-> "stats", doc |-> Zero]]
  /\ mishap' = mishap \cup (IF \E v \in Writers : Writing(v) THEN {"overlap"} ELSE {})

\* The flusher wakes up and finds the flag set; it clears it before it copies.
Flush ==
  /\ Serving
  /\ dirty
  /\ dirty' = FALSE
  /\ BeginWrite("flusher")
  /\ UNCHANGED <<regVars, mem, req, up, reset, starts, counted, cleared>>

\* snapshot: each part is copied under its own lock, in this order.
CopyPart(w, part, next, doc) ==
  /\ copy[w].part = part
  /\ copy' = [copy EXCEPT ![w] = [part |-> next, doc |-> doc]]
  /\ UNCHANGED <<regVars, mem, dirty, req, up, reset, starts, ghosts>>

CopyStats(w) ==
  CopyPart(w, "stats", "ledgers", [copy[w].doc EXCEPT !.stats = mem.stats])
CopyLedgers(w) ==
  CopyPart(w, "ledgers", "history", [copy[w].doc EXCEPT !.ledger = mem.ledger])
CopyHistory(w) ==
  CopyPart(w, "history", "save", [copy[w].doc EXCEPT !.history = mem.history])

StartSave(w) ==
  /\ copy[w].part = "save"
  /\ Offer(w, copy[w].doc)
  /\ copy' = [copy EXCEPT ![w] = NotCopying]
  /\ UNCHANGED <<mem, dirty, req, up, reset, starts, ghosts>>

\* Saves that overlap write to one file: each may come out whole, or none.
Tear(w) ==
  /\ Saving(w)
  /\ clash
  /\ value' \in {value, Torn} \cup {offer[v] : v \in {v \in Writers : Saving(v)}}
  /\ offer' = [offer EXCEPT ![w] = NoDoc]
  /\ UNCHANGED clash

\* Mutant: the flag is cleared when the save has ended.
EndSaveClears(w) ==
  /\ \/ (Commit(w) \/ Tear(w)) /\ UNCHANGED mishap
     \/ Withdraw(w) /\ mishap' = mishap \cup {"failed"}
  /\ up' = CASE w = "main" /\ up = "starting" -> "serving"
             [] w = "main" /\ up = "stopping" -> "exiting"
             [] OTHER -> up
  /\ reset' = IF w = "console" THEN "returned" ELSE reset
  /\ dirty' = FALSE
  /\ UNCHANGED <<mem, req, copy, starts, counted, cleared>>

\* The save ends, well or not: the flusher sleeps again, the console answers,
\* the main thread serves after its first write and exits after its last.
\* Nobody looks at whether it succeeded, and the flag stays cleared.
EndSave(w) ==
  /\ \/ (Commit(w) \/ Tear(w)) /\ UNCHANGED mishap
     \/ Withdraw(w) /\ mishap' = mishap \cup {"failed"}
  /\ up' = CASE w = "main" /\ up = "starting" -> "serving"
             [] w = "main" /\ up = "stopping" -> "exiting"
             [] OTHER -> up
  /\ reset' = IF w = "console" THEN "returned" ELSE reset
  /\ UNCHANGED <<mem, dirty, req, copy, starts, counted, cleared>>

-----------------------------------------------------------------------------
\* reset_stats zeroes the statistics, then the counters, then writes; the
\* ledger and the history are kept.
ResetStats ==
  /\ Serving
  /\ reset = "coming"
  /\ reset' = "write"
  /\ cleared' = mem.stats
  /\ mem' = [mem EXCEPT !.stats = {}]
  /\ UNCHANGED <<regVars, dirty, req, copy, up, starts, counted, mishap>>

\* Mutant: the reset leaves the writing to the flusher.
ResetMarks ==
  /\ Serving
  /\ reset = "write"
  /\ dirty' = TRUE
  /\ reset' = "returned"
  /\ UNCHANGED <<regVars, mem, req, copy, up, starts, ghosts>>

ResetWrite ==
  /\ Serving
  /\ reset = "write"
  /\ BeginWrite("console")
  /\ UNCHANGED <<regVars, mem, dirty, req, up, reset, starts, counted, cleared>>

-----------------------------------------------------------------------------
\* backfill, once per allowance in the order of a hash map: it fills the days
\* that have no bucket, and the first allowance with a sample on such a day
\* leaves a bucket there.
Allowances == {AllowanceOf[r] : r \in Requests}

\* Mutant: days that have a bucket are filled too.
BackfilledAgain(history, ledger, order) ==
  [d \in Days |-> history[d] + Cardinality(On(d, ledger))]

Backfilled(history, ledger, order) ==
  [d \in Days |->
     LET payers == {AllowanceOf[r] : r \in On(d, ledger)}
         first  == CHOOSE a \in payers : \A b \in payers : order[a] <= order[b]
     IN  IF history[d] > 0 \/ payers = {} THEN history[d]
         ELSE Cardinality({r \in On(d, ledger) : AllowanceOf[r] = first})]

Orders == {f \in [Allowances -> 1..Cardinality(Allowances)] :
             \A a, b \in Allowances : f[a] = f[b] => a = b}

\* Mutant: the history is not restored.
StartWithoutHistory ==
  /\ up = "down"
  /\ starts < MaxStarts
  /\ starts' = starts + 1
  /\ up' = "starting"
  /\ value' = IF value = Torn THEN NoDoc ELSE value
  /\ mem' = IF value \in {NoDoc, Torn} THEN Zero
            ELSE [value EXCEPT !.history = Zero.history]
  /\ BeginWrite("main")
  /\ UNCHANGED <<offer, clash, dirty, req, reset, counted, cleared>>

\* main: load, restore, and a first write before anything is served.  A file
\* that does not parse is moved aside and nothing is restored.
Start ==
  /\ up = "down"
  /\ starts < MaxStarts
  /\ starts' = starts + 1
  /\ up' = "starting"
  /\ value' = IF value = Torn THEN NoDoc ELSE value
  /\ LET saved == IF value \in {NoDoc, Torn} THEN Zero ELSE value
     IN  \E order \in Orders :
           mem' = [saved EXCEPT !.history = Backfilled(saved.history, saved.ledger, order)]
  /\ BeginWrite("main")
  /\ UNCHANGED <<offer, clash, dirty, req, reset, counted, cleared>>

\* A stop request: the main thread leaves the accept loop and writes.  It
\* waits for no connection thread and not for the flusher.
Stop ==
  /\ up = "serving"
  /\ up' = "stopping"
  /\ BeginWrite("main")
  /\ UNCHANGED <<regVars, mem, dirty, req, reset, starts, counted, cleared>>

\* The process ends, and with it every thread and all memory.
Gone ==
  /\ up' = "down"
  /\ mem' = Zero
  /\ dirty' = FALSE
  /\ copy' = [w \in Writers |-> NotCopying]
  /\ req' = [r \in Requests |-> IF req[r] \in {"coming", "done"} THEN req[r] ELSE "lost"]
  /\ reset' = IF reset \in {"coming", "returned"} THEN reset ELSE "lost"
  /\ UNCHANGED <<starts, counted, cleared>>

Exit ==
  /\ up = "exiting"
  /\ Forget
  /\ Gone
  /\ UNCHANGED mishap

Crash ==
  /\ up # "down"
  /\ \/ Forget
     \/ /\ clash /\ \E w \in Writers : Saving(w)
        /\ value' = Torn
        /\ offer' = [w \in Writers |-> NoDoc]
        /\ UNCHANGED clash
  /\ Gone
  /\ UNCHANGED mishap

-----------------------------------------------------------------------------
Count(r) ==
  CountStats(r) \/ CountDay(r) \/ CountSample(r) \/ MarkDirty(r)

\* Mutant: the snapshot copies the history before the ledgers.
WriteStepHistoryFirst(w) ==
  \/ CopyStats(w)
  \/ CopyPart(w, "ledgers", "history", [copy[w].doc EXCEPT !.history = mem.history])
  \/ CopyPart(w, "history", "save", [copy[w].doc EXCEPT !.ledger = mem.ledger])
  \/ StartSave(w) \/ EndSave(w)

WriteStep(w) ==
  \/ CopyStats(w) \/ CopyLedgers(w) \/ CopyHistory(w)
  \/ StartSave(w) \/ EndSave(w)

Next ==
  \/ \E r \in Requests : Count(r)
  \/ \E w \in Writers : WriteStep(w)
  \/ MarkElsewhere \/ Flush
  \/ ResetStats \/ ResetWrite
  \/ Start \/ Stop \/ Exit \/ Crash

Spec == Init /\ [][Next]_vars

-----------------------------------------------------------------------------
\* There is a whole document on file.
HasFile == value \notin {NoDoc, Torn}

\* A sample in the ledger is a request its day has counted: record_success
\* counts the day first, snapshot copies the ledger first, and a backfill makes
\* up for what an old file lacks.  So a restart never has to guess a day.
SamplesWereCounted ==
  up \in {"starting", "serving", "stopping", "exiting"} =>
    \A d \in Days : Cardinality(On(d, mem.ledger)) <= mem.history[d]

\* No restart counts a request twice: a day never shows more than was counted
\* on it in all lives of the process.
NothingDoubled ==
  \A d \in Days :
    /\ mem.history[d] <= Cardinality(On(d, counted))
    /\ HasFile => value.history[d] <= Cardinality(On(d, counted))

\* While one thread at a time writes, the file never goes back: no crash,
\* failed save, stop or reset takes away a day's count or a sample that was on
\* file.
FileNeverGoesBack ==
  [][HasFile /\ "overlap" \notin mishap' =>
       /\ HasFile'
       /\ value.ledger \subseteq value'.ledger
       /\ \A d \in Days : value.history[d] <= value'.history[d]]_vars

\* What the console's reset took away stays away, once it has answered, its
\* save did not fail, and no other thread was writing.
ResetSticks ==
  reset = "returned" /\ mishap \cap {"overlap", "failed"} = {} =>
    /\ mem.stats \cap cleared = {}
    /\ HasFile /\ value.stats \cap cleared = {}

\* When the process serves, nothing is marked dirty and nobody writes, what a
\* finished request has added to memory is on file: a mark set while the
\* flusher copies is not lost.  A failed save loses it, so it is excepted.
QuietMeansSaved ==
  up = "serving" /\ ~dirty /\ mishap = {} /\ (\A w \in Writers : ~Writing(w)) =>
    \A r \in Requests : req[r] = "done" =>
      /\ HasFile
      /\ r \in mem.stats => r \in value.stats
      /\ r \in mem.ledger => r \in value.ledger
=============================================================================
