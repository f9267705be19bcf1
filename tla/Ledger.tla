------------------------------- MODULE Ledger -------------------------------
(***************************************************************************)
(* The usage ledger of one allowance (LocalLedger and QuotaWindows of      *)
(* src/state.rs): what every delivered request cost, in the order the      *)
(* deliveries ended, and the starts of the fixed windows they count        *)
(* towards.                                                                *)
(*                                                                         *)
(* A delivery is stamped when its head arrives (deliver_success, proxy.rs) *)
(* and recorded when its body has been forwarded, so deliveries that       *)
(* overlap are recorded in another order than they are stamped.  The       *)
(* ledger answers from its newest samples backwards.  The flusher copies   *)
(* the samples first and the windows some time later, then replaces the    *)
(* state file; startup merges what the file holds for this allowance.      *)
(***************************************************************************)
EXTENDS Integers, Sequences, FiniteSets, FiniteSetsExt, SequencesExt

CONSTANTS
    Requests,
    Costs,          \* what a request may cost, in units of money
    Sizes,          \* its token counts (prompt, cached, completion); 0: none
    Windows,        \* the fixed windows: five hours, a week
    Period,         \* the length of each
    Keep,           \* how long a sample is kept: 31 days
    Cap,            \* PERSISTED_SAMPLES
    OldFiles,       \* what an earlier version may have left in the state file:
                    \* the records under the group's and the endpoint's names
    MaxClock        \* bound of the model

ASSUME LedgerAssumption ==
    /\ Costs \subseteq Nat /\ Sizes \subseteq Nat
    /\ Period \in [Windows -> Nat \ {0}]
    /\ Keep \in Nat /\ Cap \in Nat \ {0} /\ MaxClock \in Nat

(* A record of an earlier version is a ledger as well, and of the past.    *)
ASSUME OldFileAssumption ==
    \A parts \in OldFiles :
        FlattenSeq(parts) \in Seq([ts : 0..1, cost : Costs, size : Sizes, by : Requests])

VARIABLES
    clock,
    req,        \* per request: "idle", "stream" or "done", and its head's time
    samples,    \* LocalLedger.samples, oldest record first
    total,      \* LocalLedger.total_cost
    windows,    \* QuotaWindows: the start of each window, 0 before the first
    flush,      \* the flusher: the samples it has copied, before the windows
    file,       \* the state file's record of this allowance
    recorded,   \* every sample recorded since startup or read at startup
    fresh       \* for the properties: those recorded since startup, in turn

vars == <<clock, req, samples, total, windows, flush, file, recorded, fresh>>

NoWindow == [w \in Windows |-> 0]

-----------------------------------------------------------------------------
(* What the ledger answers                                                 *)

CostOf(S)   == MapThenSumSet(LAMBDA x : x.cost, S)
CostAt(s, I) == MapThenSumSet(LAMBDA i : s[i].cost, I)

(* The newest samples backwards, up to the first that is older than since. *)
TailSince(s, since) ==
    {i \in DOMAIN s : \A j \in DOMAIN s : s[j].ts < since => j < i}

CostSince(s, since) == CostAt(s, TailSince(s, since))

-----------------------------------------------------------------------------
(* Recording                                                               *)

(* A mutant: a window is taken to last one moment longer than it does.     *)
RollLate(ws, now) ==
    [w \in Windows |-> IF ws[w] <= 0 \/ now > ws[w] + Period[w] THEN now ELSE ws[w]]

(* QuotaWindows::roll                                                      *)
Roll(ws, now) ==
    [w \in Windows |-> IF ws[w] <= 0 \/ now >= ws[w] + Period[w] THEN now ELSE ws[w]]

(* A mutant: one sample too many is kept.                                  *)
CappedLate(s) == IF Len(s) > Cap + 1 THEN SubSeq(s, Len(s) - Cap, Len(s)) ELSE s

(* The oldest records go when there are more than the cap.                 *)
Capped(s) == IF Len(s) > Cap THEN SubSeq(s, Len(s) - Cap + 1, Len(s)) ELSE s

(* A mutant: the oldest sample still to be kept is dropped as well.        *)
PrunedEarly(s) ==
    LET cutoff == s[Len(s)].ts - Keep
        kept   == {i \in DOMAIN s : s[i].ts > cutoff \/ i = Len(s)}
    IN  SubSeq(s, Min(kept), Len(s))

(* From the front, as long as a sample is too old for the last one.        *)
Pruned(s) ==
    LET cutoff == s[Len(s)].ts - Keep
        kept   == {i \in DOMAIN s : s[i].ts >= cutoff}
    IN  SubSeq(s, Min(kept), Len(s))

AddSample(s, x) == Pruned(Capped(Append(s, x)))

Stamp(r) ==
    /\ req[r].pc = "idle"
    /\ req' = [req EXCEPT ![r] = [pc |-> "stream", head |-> clock]]
    /\ UNCHANGED <<clock, samples, total, windows, flush, file, recorded, fresh>>

(* record_success: roll the windows, add the sample, under one lock.  A    *)
(* delivery without usage leaves no sample and opens no window.            *)
Record(r) ==
    /\ req[r].pc = "stream"
    /\ \E cost \in Costs, size \in Sizes :
          LET x == [ts |-> req[r].head, cost |-> cost, size |-> size, by |-> r]
          IN  IF size = 0
              THEN UNCHANGED <<samples, total, recorded, fresh, windows>>
              ELSE /\ windows' = Roll(windows, x.ts)
                   /\ samples' = AddSample(samples, x)
                   /\ total' = total + cost
                   /\ recorded' = recorded \cup {x}
                   /\ fresh' = Append(fresh, x)
    /\ req' = [req EXCEPT ![r].pc = "done"]
    /\ UNCHANGED <<clock, flush, file>>

-----------------------------------------------------------------------------
(* The state file                                                          *)

NotFlushing == [copied |-> FALSE, samples |-> <<>>]

(* persist::snapshot copies every ledger and, after other things, the      *)
(* windows, each under its lock; a delivery may end in between.            *)
CopyLedger ==
    /\ ~flush.copied
    /\ flush' = [copied |-> TRUE, samples |-> samples]
    /\ UNCHANGED <<clock, req, samples, total, windows, file, recorded, fresh>>

CopyWindowsAndSave ==
    /\ flush.copied
    /\ file' = [samples |-> flush.samples, windows |-> windows]
    /\ flush' = NotFlushing
    /\ UNCHANGED <<clock, req, samples, total, windows, recorded, fresh>>

SameKey(x, y) == x.ts = y.ts /\ x.size = y.size

KeyBefore(x, y) == x.ts < y.ts \/ (x.ts = y.ts /\ x.size < y.size)

(* A mutant: the records are joined, and what both hold counts twice.      *)
Joined(all) == all

(* LocalLedger::merge: in time order, one sample for every stamp and token *)
(* count; of several, the first.                                           *)
Firsts(all) == {i \in DOMAIN all : \A j \in 1..(i-1) : ~SameKey(all[i], all[j])}

Place(all, i) == Cardinality({j \in Firsts(all) : KeyBefore(all[j], all[i])}) + 1

Merge(all) ==
    [k \in 1..Cardinality(Firsts(all)) |-> all[CHOOSE i \in Firsts(all) : Place(all, i) = k]]

(* The first start: the file may be of an earlier version, which had no    *)
(* windows and wrote a shared allowance under the endpoint's own name; a   *)
(* partly migrated file holds both records.                                *)
Init ==
    \E parts \in OldFiles :
        /\ clock = 1
        /\ recorded = ToSet(FlattenSeq(parts)) /\ fresh = <<>>
        /\ req = [r \in Requests |-> [pc   |-> IF \E x \in recorded : x.by = r
                                                THEN "done" ELSE "idle",
                                       head |-> 0]]
        /\ samples = Capped(Merge(FlattenSeq(parts)))
        /\ LET merged == Merge(FlattenSeq(parts)) IN total = CostAt(merged, DOMAIN merged)
        /\ windows = NoWindow
        /\ flush = NotFlushing
        /\ file = [samples |-> samples, windows |-> windows]

(* The process ends, by a crash or not, and starts again from the file,    *)
(* which it writes anew.  Deliveries under way are lost.                   *)
Restart ==
    /\ samples' = Capped(Merge(file.samples))
    /\ total' = CostAt(samples', DOMAIN samples')
    /\ windows' = file.windows
    /\ recorded' = ToSet(file.samples) /\ fresh' = <<>>
    /\ req' = [r \in Requests |-> IF req[r].pc = "stream"
                                  THEN [req[r] EXCEPT !.pc = "done"] ELSE req[r]]
    /\ flush' = NotFlushing
    /\ file' = [file EXCEPT !.samples = samples']
    /\ UNCHANGED clock

Tick == clock < MaxClock /\ clock' = clock + 1
        /\ UNCHANGED <<req, samples, total, windows, flush, file, recorded, fresh>>

Next ==
    \/ \E r \in Requests : Stamp(r) \/ Record(r)
    \/ CopyLedger \/ CopyWindowsAndSave
    \/ Restart \/ Tick

Spec == Init /\ [][Next]_vars

-----------------------------------------------------------------------------
(* Properties                                                              *)

(* "Counting it twice would inflate the plan by real, spendable money"     *)
(* (merge): the ledger never answers with more than was spent, for any     *)
(* start, and neither does its total.                                      *)
NothingInvented ==
    /\ \A since \in 0..clock :
          CostSince(samples, since) <= CostOf({x \in recorded : x.ts >= since})
    /\ CostAt(samples, DOMAIN samples) <= total /\ total <= CostOf(recorded)

(* Unless the cap is reached, a sample is given up only when it is older   *)
(* than 31 days: every younger one is there, or one that merge takes for   *)
(* the same.  The cap itself holds after every merge and delivery.         *)
OnlyOldForgotten ==
    /\ Len(samples) <= Cap
    /\ Cardinality(recorded) <= Cap =>
        \A x \in recorded : x.ts >= clock - Keep => \E i \in DOMAIN samples : SameKey(samples[i], x)

(* The ledger answers from its newest sample backwards (cost_since), and   *)
(* ends at the first sample that is too old, wherever that stands.  A      *)
(* sample of the time asked for is missed only if it was overtaken since   *)
(* the process started: another delivery ended after it that was stamped   *)
(* before that time.  What was recorded before, or read from old files in  *)
(* whatever order, is never missed.                                        *)
MissedOnlyWhenOvertaken ==
    \A since \in 0..clock, i \in DOMAIN samples :
        samples[i].ts >= since =>
            \/ i \in TailSince(samples, since)
            \/ \E a, b \in DOMAIN fresh :
                  a < b /\ fresh[a] = samples[i] /\ fresh[b].ts < since

(* "Done before the sample is added so the sample lands inside the window  *)
(* it belongs to" (record_success): no sample is younger than the window   *)
(* that is open, not even after a restart from a file whose two parts were *)
(* copied at different moments.                                            *)
NoSampleOutrunsTheWindow ==
    \A i \in DOMAIN samples, w \in Windows :
        windows[w] > 0 => samples[i].ts < windows[w] + Period[w]

=============================================================================
