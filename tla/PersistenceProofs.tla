--------------------------- MODULE PersistenceProofs ---------------------------
(***************************************************************************)
(* Theorems about Persistence, for any requests, days and allowances, any  *)
(* number of starts, and any old file that tells of requests there were.   *)
(***************************************************************************)
EXTENDS Persistence, Integers, FiniteSetTheorems, TLAPS

Stages == {"coming", "history", "ledger", "dirty", "done", "lost"}
Parts  == {"none", "stats", "ledgers", "history", "save"}
Ups    == {"down", "starting", "serving", "stopping", "exiting"}
Resets == {"coming", "write", "returned", "lost"}

(* Totals, before it is known that a day counts no more than there is.     *)
Sums == [stats : SUBSET Requests, ledger : SUBSET Requests, history : [Days -> Nat]]

TypeOK ==
    /\ value \in Sums \cup {NoDoc, Torn}
    /\ offer \in [Writers -> Sums \cup {NoDoc}]
    /\ clash \in BOOLEAN
    /\ mem \in Sums
    /\ dirty \in BOOLEAN
    /\ req \in [Requests -> Stages]
    /\ copy \in [Writers -> [part : Parts, doc : Sums]]
    /\ up \in Ups /\ reset \in Resets /\ starts \in Nat
    /\ counted \in SUBSET Requests /\ cleared \in SUBSET Requests
    /\ mishap \in SUBSET {"overlap", "failed"}

-----------------------------------------------------------------------------
(* The samples of a day                                                    *)

LEMMA OnCount ==
    ASSUME NEW d, NEW S \in SUBSET Requests
    PROVE  IsFiniteSet(On(d, S)) /\ Cardinality(On(d, S)) \in Nat
<1>1. On(d, S) \subseteq Requests
  BY DEF On
<1> QED
  BY <1>1, PersistenceAssumption, FS_Subset, FS_CardinalityType

(* Of more requests, no fewer are of a day.                                *)
LEMMA OnMonotone ==
    ASSUME NEW d, NEW T \in SUBSET Requests, NEW S \in SUBSET T
    PROVE  Cardinality(On(d, S)) <= Cardinality(On(d, T))
<1>1. On(d, S) \subseteq On(d, T)
  BY DEF On
<1> QED
  BY <1>1, OnCount, FS_Subset

(* One more request is one more on its day.                                *)
LEMMA OnOneMore ==
    ASSUME NEW d, NEW S \in SUBSET Requests, NEW r \in Requests
    PROVE  /\ Cardinality(On(d, S \cup {r})) <= Cardinality(On(d, S)) + 1
           /\ d # DayOf[r] => On(d, S \cup {r}) = On(d, S)
           /\ r \notin S =>
                 Cardinality(On(DayOf[r], S \cup {r})) = Cardinality(On(DayOf[r], S)) + 1
<1>1. /\ d # DayOf[r] => On(d, S \cup {r}) = On(d, S)
      /\ \A x : On(x, S \cup {r}) \subseteq On(x, S) \cup {r}
      /\ On(DayOf[r], S \cup {r}) = On(DayOf[r], S) \cup {r}
      /\ r \notin S => r \notin On(DayOf[r], S)
  BY DEF On
<1>2. \A x : IsFiniteSet(On(x, S)) /\ Cardinality(On(x, S)) \in Nat
  BY OnCount
<1> DEFINE A == On(DayOf[r], S)
           B == A \cup {r}
<1>3. Cardinality(B) = IF r \in A THEN Cardinality(A) ELSE Cardinality(A) + 1
  BY <1>2, FS_AddElement
<1>4. On(DayOf[r], S \cup {r}) = B /\ (r \notin S => r \notin A) /\ Cardinality(A) \in Nat
  BY <1>1, <1>2
<1> HIDE DEF A, B
<1>5. /\ Cardinality(On(DayOf[r], S \cup {r})) <= Cardinality(A) + 1
      /\ r \notin S => Cardinality(On(DayOf[r], S \cup {r})) = Cardinality(A) + 1
  BY <1>3, <1>4
<1> USE DEF A
<1>6. CASE d = DayOf[r]
  BY <1>5, <1>6
<1>7. CASE d # DayOf[r]
  BY <1>1, <1>2, <1>5, <1>7
<1> QED
  BY <1>6, <1>7

(* The types of the constants and of the documents made of them.           *)
LEMMA ConstantTypes ==
    /\ {"flusher", "main", "console"} = Writers
    /\ OldFile \in Sums /\ Zero \in Sums /\ Totals \subseteq Sums
    /\ OldRequests \subseteq Requests
<1>1. Cardinality(Requests) \in Nat
  BY PersistenceAssumption, FS_CardinalityType
<1>2. Totals \subseteq Sums
  BY <1>1 DEF Totals, Sums
<1>3. Zero \in Sums
  BY DEF Zero, Sums
<1> QED
  BY <1>2, <1>3, PersistenceAssumption, FileAssumption

(* A document with another part is a document, with the other parts it     *)
(* had.                                                                    *)
LEMMA SumsFields ==
    ASSUME NEW doc \in Sums
    PROVE  /\ doc.stats \in SUBSET Requests /\ doc.ledger \in SUBSET Requests
           /\ doc.history \in [Days -> Nat]
           /\ \A s \in SUBSET Requests :
                 /\ [doc EXCEPT !.stats = s] \in Sums
                 /\ [doc EXCEPT !.stats = s].stats = s
                 /\ [doc EXCEPT !.stats = s].ledger = doc.ledger
                 /\ [doc EXCEPT !.stats = s].history = doc.history
           /\ \A l \in SUBSET Requests :
                 /\ [doc EXCEPT !.ledger = l] \in Sums
                 /\ [doc EXCEPT !.ledger = l].stats = doc.stats
                 /\ [doc EXCEPT !.ledger = l].ledger = l
                 /\ [doc EXCEPT !.ledger = l].history = doc.history
           /\ \A h \in [Days -> Nat] :
                 /\ [doc EXCEPT !.history = h] \in Sums
                 /\ [doc EXCEPT !.history = h].stats = doc.stats
                 /\ [doc EXCEPT !.history = h].ledger = doc.ledger
                 /\ [doc EXCEPT !.history = h].history = h
BY DEF Sums

(* The empty document counts nothing.                                      *)
LEMMA ZeroFields ==
    /\ Zero.stats = {} /\ Zero.ledger = {} /\ \A d \in Days : Zero.history[d] = 0
BY DEF Zero

(* A backfill only fills empty days, and never with more than the samples  *)
(* of the day.                                                             *)
LEMMA BackfillFills ==
    ASSUME NEW doc \in Sums, NEW order \in Orders
    PROVE  LET history == Backfilled(doc.history, doc.ledger, order)
           IN  /\ history \in [Days -> Nat]
               /\ \A d \in Days :
                     /\ history[d] >= doc.history[d]
                     /\ doc.history[d] > 0 => history[d] = doc.history[d]
                     /\ \/ history[d] = doc.history[d]
                        \/ history[d] <= Cardinality(On(d, doc.ledger))
<1> DEFINE Payers(d) == {AllowanceOf[r] : r \in On(d, doc.ledger)}
           First(d) == CHOOSE a \in Payers(d) : \A b \in Payers(d) : order[a] <= order[b]
           Filled(d) == Cardinality({r \in On(d, doc.ledger) : AllowanceOf[r] = First(d)})
           history == Backfilled(doc.history, doc.ledger, order)
<1>1. doc.history \in [Days -> Nat] /\ doc.ledger \in SUBSET Requests
  BY SumsFields
<1>2. \A d \in Days : Filled(d) \in Nat /\ Filled(d) <= Cardinality(On(d, doc.ledger))
  <2> TAKE d \in Days
  <2> DEFINE S == {r \in On(d, doc.ledger) : AllowanceOf[r] = First(d)}
  <2>1. IsFiniteSet(On(d, doc.ledger)) /\ S \subseteq On(d, doc.ledger)
    BY <1>1, OnCount
  <2> HIDE DEF S
  <2>2. Cardinality(S) \in Nat /\ Cardinality(S) <= Cardinality(On(d, doc.ledger))
    BY <2>1, FS_Subset, FS_CardinalityType
  <2> QED
    BY <2>2 DEF S
<1>3. history = [d \in Days |-> IF doc.history[d] > 0 \/ Payers(d) = {} THEN doc.history[d]
                                ELSE Filled(d)]
  BY DEF Backfilled
<1> HIDE DEF Payers, First, Filled, history
<1>4. history \in [Days -> Nat]
  BY <1>1, <1>2, <1>3
<1>5. ASSUME NEW d \in Days
      PROVE  /\ history[d] >= doc.history[d]
             /\ doc.history[d] > 0 => history[d] = doc.history[d]
             /\ \/ history[d] = doc.history[d]
                \/ history[d] <= Cardinality(On(d, doc.ledger))
  <2>1. history[d] = IF doc.history[d] > 0 \/ Payers(d) = {} THEN doc.history[d] ELSE Filled(d)
    BY <1>3
  <2>2. doc.history[d] \in Nat /\ Filled(d) \in Nat
    BY <1>1, <1>2
  <2>3. CASE doc.history[d] > 0 \/ Payers(d) = {}
    BY <2>1, <2>2, <2>3
  <2>4. CASE ~(doc.history[d] > 0 \/ Payers(d) = {})
    BY <1>2, <2>1, <2>2, <2>4
  <2> QED
    BY <2>3, <2>4
<1>6. LET h == Backfilled(doc.history, doc.ledger, order)
      IN  /\ h \in [Days -> Nat]
          /\ \A d \in Days :
                /\ h[d] >= doc.history[d]
                /\ doc.history[d] > 0 => h[d] = doc.history[d]
                /\ \/ h[d] = doc.history[d]
                   \/ h[d] <= Cardinality(On(d, doc.ledger))
  BY <1>4, <1>5 DEF history
<1> QED
  BY <1>6

-----------------------------------------------------------------------------
(* The steps, field by field                                               *)

(* What the request's thread does, but for mem, req, counted and dirty.    *)
CountFrame(r) ==
    /\ Serving /\ value' = value /\ offer' = offer /\ clash' = clash /\ copy' = copy
    /\ up' = up /\ reset' = reset /\ starts' = starts /\ cleared' = cleared
    /\ mishap' = mishap
    /\ req' \in [Requests -> Stages] /\ \A x \in Requests \ {r} : req'[x] = req[x]
    /\ mem' \in Sums

SameSums(a, b) == a.stats = b.stats /\ a.ledger = b.ledger /\ a.history = b.history

StatsTurn(r) ==
    /\ req[r] = "coming" /\ req'[r] = "history"
    /\ mem'.stats = mem.stats \cup {r} /\ mem'.ledger = mem.ledger
    /\ mem'.history = mem.history
    /\ counted' = counted /\ dirty' = dirty

DayTurn(r) ==
    /\ req[r] = "history" /\ req'[r] = "ledger"
    /\ mem'.stats = mem.stats /\ mem'.ledger = mem.ledger
    /\ \A d \in Days : mem'.history[d] =
                           IF d = DayOf[r] THEN mem.history[d] + 1 ELSE mem.history[d]
    /\ counted' = counted \cup {r} /\ dirty' = dirty

SampleTurn(r) ==
    /\ req[r] = "ledger" /\ req'[r] = "dirty"
    /\ mem'.stats = mem.stats /\ mem'.ledger = mem.ledger \cup ({r} \cap Metered)
    /\ mem'.history = mem.history
    /\ counted' = counted /\ dirty' = dirty

DirtyTurn(r) ==
    /\ req[r] = "dirty" /\ req'[r] = "done"
    /\ mem' = mem /\ counted' = counted /\ dirty' = TRUE

(* A step of record_success changes one part under one lock, or raises the *)
(* mark.                                                                   *)
LEMMA CountTurns ==
    ASSUME TypeOK, NEW r \in Requests, Count(r)
    PROVE  /\ CountFrame(r)
           /\ StatsTurn(r) \/ DayTurn(r) \/ SampleTurn(r) \/ DirtyTurn(r)
<1>1. /\ mem \in Sums /\ req \in [Requests -> Stages]
      /\ mem.stats \in SUBSET Requests /\ mem.ledger \in SUBSET Requests
      /\ mem.history \in [Days -> Nat] /\ DayOf[r] \in Days
  BY SumsFields, PersistenceAssumption DEF TypeOK
<1>2. ASSUME NEW from, NEW to \in Stages, Step(r, from, to)
      PROVE  /\ Serving /\ value' = value /\ offer' = offer /\ clash' = clash
             /\ copy' = copy /\ up' = up /\ reset' = reset /\ starts' = starts
             /\ cleared' = cleared /\ mishap' = mishap
             /\ req' \in [Requests -> Stages] /\ req[r] = from /\ req'[r] = to
             /\ \A x \in Requests \ {r} : req'[x] = req[x]
  BY <1>1, <1>2 DEF Step, regVars
<1>3. CASE CountStats(r)
  <2>1. mem' = [mem EXCEPT !.stats = mem.stats \cup {r}] /\ mem.stats \cup {r} \in SUBSET Requests
    BY <1>1, <1>3 DEF CountStats
  <2>2. /\ mem' \in Sums /\ mem'.stats = mem.stats \cup {r} /\ mem'.ledger = mem.ledger
        /\ mem'.history = mem.history
    BY <1>1, <2>1, SumsFields
  <2>3. Step(r, "coming", "history") /\ UNCHANGED <<dirty, counted>> /\ "history" \in Stages
    BY <1>3 DEF CountStats, Stages
  <2> QED
    BY <1>2, <2>2, <2>3 DEF CountFrame, StatsTurn
<1>4. CASE CountDay(r)
  <2> DEFINE h == [mem.history EXCEPT ![DayOf[r]] = @ + 1]
  <2>1. mem' = [mem EXCEPT !.history = h] /\ h \in [Days -> Nat]
    BY <1>1, <1>4 DEF CountDay
  <2>2. \A d \in Days : h[d] = IF d = DayOf[r] THEN mem.history[d] + 1 ELSE mem.history[d]
    BY <1>1
  <2> HIDE DEF h
  <2>3. /\ mem' \in Sums /\ mem'.stats = mem.stats /\ mem'.ledger = mem.ledger
        /\ mem'.history = h
    BY <1>1, <2>1, SumsFields
  <2>4. /\ Step(r, "history", "ledger") /\ dirty' = dirty /\ counted' = counted \cup {r}
        /\ "ledger" \in Stages
    BY <1>4 DEF CountDay, Stages
  <2> QED
    BY <1>2, <2>2, <2>3, <2>4 DEF CountFrame, DayTurn
<1>5. CASE CountSample(r)
  <2> DEFINE l == mem.ledger \cup ({r} \cap Metered)
  <2>1. mem' = [mem EXCEPT !.ledger = l] /\ l \in SUBSET Requests
    BY <1>1, <1>5 DEF CountSample
  <2> HIDE DEF l
  <2>2. /\ mem' \in Sums /\ mem'.stats = mem.stats /\ mem'.ledger = l
        /\ mem'.history = mem.history
    BY <1>1, <2>1, SumsFields
  <2>3. Step(r, "ledger", "dirty") /\ UNCHANGED <<dirty, counted>> /\ "dirty" \in Stages
    BY <1>5 DEF CountSample, Stages
  <2> QED
    BY <1>2, <2>2, <2>3 DEF CountFrame, SampleTurn, l
<1>6. CASE MarkDirty(r)
  <2>1. /\ Step(r, "dirty", "done") /\ mem' = mem /\ counted' = counted /\ dirty' = TRUE
        /\ "done" \in Stages
    BY <1>6 DEF MarkDirty, Stages
  <2> QED
    BY <1>1, <1>2, <2>1 DEF CountFrame, DirtyTurn
<1> QED
  BY <1>3, <1>4, <1>5, <1>6 DEF Count

(* A part of the totals is copied, and nothing else changes.               *)
CopyTurn(w) ==
    /\ value' = value /\ offer' = offer /\ clash' = clash /\ mem' = mem /\ dirty' = dirty
    /\ req' = req /\ up' = up /\ reset' = reset /\ starts' = starts
    /\ counted' = counted /\ cleared' = cleared /\ mishap' = mishap
    /\ copy' \in [Writers -> [part : Parts, doc : Sums]]
    /\ \A v \in Writers \ {w} : copy'[v] = copy[v]
    /\ \/ /\ copy[w].part = "stats" /\ copy'[w].part = "ledgers"
          /\ copy'[w].doc.stats = mem.stats
          /\ copy'[w].doc.ledger = copy[w].doc.ledger
          /\ copy'[w].doc.history = copy[w].doc.history
       \/ /\ copy[w].part = "ledgers" /\ copy'[w].part = "history"
          /\ copy'[w].doc.stats = copy[w].doc.stats
          /\ copy'[w].doc.ledger = mem.ledger
          /\ copy'[w].doc.history = copy[w].doc.history
       \/ /\ copy[w].part = "history" /\ copy'[w].part = "save"
          /\ copy'[w].doc.stats = copy[w].doc.stats
          /\ copy'[w].doc.ledger = copy[w].doc.ledger
          /\ copy'[w].doc.history = mem.history

(* A step of a snapshot copies one part.                                   *)
LEMMA CopyTurns ==
    ASSUME TypeOK, NEW w \in Writers, CopyStats(w) \/ CopyLedgers(w) \/ CopyHistory(w)
    PROVE  CopyTurn(w)
<1>1. /\ copy \in [Writers -> [part : Parts, doc : Sums]] /\ copy[w].doc \in Sums
      /\ mem.stats \in SUBSET Requests /\ mem.ledger \in SUBSET Requests
      /\ mem.history \in [Days -> Nat]
  BY SumsFields DEF TypeOK
<1>2. ASSUME NEW part, NEW next \in Parts, NEW doc \in Sums, CopyPart(w, part, next, doc)
      PROVE  /\ value' = value /\ offer' = offer /\ clash' = clash /\ mem' = mem
             /\ dirty' = dirty /\ req' = req /\ up' = up /\ reset' = reset
             /\ starts' = starts /\ counted' = counted /\ cleared' = cleared
             /\ mishap' = mishap
             /\ copy' \in [Writers -> [part : Parts, doc : Sums]]
             /\ \A v \in Writers \ {w} : copy'[v] = copy[v]
             /\ copy[w].part = part /\ copy'[w].part = next /\ copy'[w].doc = doc
  <2> DEFINE k == [part |-> next, doc |-> doc]
  <2>1. k \in [part : Parts, doc : Sums] /\ k.part = next /\ k.doc = doc
    OBVIOUS
  <2>2. copy' = [copy EXCEPT ![w] = k]
    BY <1>2 DEF CopyPart
  <2> HIDE DEF k
  <2> QED
    BY <1>1, <1>2, <2>1, <2>2 DEF CopyPart, regVars, ghosts
<1>3. CASE CopyStats(w)
  <2> DEFINE old == copy[w].doc
             doc == [old EXCEPT !.stats = mem.stats]
  <2>1. /\ doc \in Sums /\ doc.stats = mem.stats
        /\ doc.ledger = old.ledger /\ doc.history = old.history
    <3>1. old \in Sums
      BY <1>1
    <3> HIDE DEF old
    <3> QED
      BY <1>1, <3>1 DEF Sums
  <2>2. CopyPart(w, "stats", "ledgers", doc) /\ "ledgers" \in Parts
    BY <1>3 DEF CopyStats, Parts
  <2> HIDE DEF doc
  <2>3. /\ value' = value /\ offer' = offer /\ clash' = clash /\ mem' = mem
        /\ dirty' = dirty /\ req' = req /\ up' = up /\ reset' = reset
        /\ starts' = starts /\ counted' = counted /\ cleared' = cleared
        /\ mishap' = mishap
        /\ copy' \in [Writers -> [part : Parts, doc : Sums]]
        /\ \A v \in Writers \ {w} : copy'[v] = copy[v]
        /\ copy[w].part = "stats" /\ copy'[w].part = "ledgers" /\ copy'[w].doc = doc
    BY <1>2, <2>1, <2>2
  <2> QED
    BY <2>1, <2>3 DEF CopyTurn
<1>4. CASE CopyLedgers(w)
  <2> DEFINE old == copy[w].doc
             doc == [old EXCEPT !.ledger = mem.ledger]
  <2>1. /\ doc \in Sums /\ doc.ledger = mem.ledger
        /\ doc.stats = old.stats /\ doc.history = old.history
    <3>1. old \in Sums
      BY <1>1
    <3> HIDE DEF old
    <3> QED
      BY <1>1, <3>1 DEF Sums
  <2>2. CopyPart(w, "ledgers", "history", doc) /\ "history" \in Parts
    BY <1>4 DEF CopyLedgers, Parts
  <2> HIDE DEF doc
  <2>3. /\ value' = value /\ offer' = offer /\ clash' = clash /\ mem' = mem
        /\ dirty' = dirty /\ req' = req /\ up' = up /\ reset' = reset
        /\ starts' = starts /\ counted' = counted /\ cleared' = cleared
        /\ mishap' = mishap
        /\ copy' \in [Writers -> [part : Parts, doc : Sums]]
        /\ \A v \in Writers \ {w} : copy'[v] = copy[v]
        /\ copy[w].part = "ledgers" /\ copy'[w].part = "history" /\ copy'[w].doc = doc
    BY <1>2, <2>1, <2>2
  <2> QED
    BY <2>1, <2>3 DEF CopyTurn
<1>5. CASE CopyHistory(w)
  <2> DEFINE old == copy[w].doc
             doc == [old EXCEPT !.history = mem.history]
  <2>1. /\ doc \in Sums /\ doc.history = mem.history
        /\ doc.stats = old.stats /\ doc.ledger = old.ledger
    <3>1. old \in Sums
      BY <1>1
    <3> HIDE DEF old
    <3> QED
      BY <1>1, <3>1 DEF Sums
  <2>2. CopyPart(w, "history", "save", doc) /\ "save" \in Parts
    BY <1>5 DEF CopyHistory, Parts
  <2> HIDE DEF doc
  <2>3. /\ value' = value /\ offer' = offer /\ clash' = clash /\ mem' = mem
        /\ dirty' = dirty /\ req' = req /\ up' = up /\ reset' = reset
        /\ starts' = starts /\ counted' = counted /\ cleared' = cleared
        /\ mishap' = mishap
        /\ copy' \in [Writers -> [part : Parts, doc : Sums]]
        /\ \A v \in Writers \ {w} : copy'[v] = copy[v]
        /\ copy[w].part = "history" /\ copy'[w].part = "save" /\ copy'[w].doc = doc
    BY <1>2, <2>1, <2>2
  <2> QED
    BY <2>1, <2>3 DEF CopyTurn
<1> QED
  BY <1>3, <1>4, <1>5

(* A save begins with what was copied.                                     *)
SaveTurn(w) ==
    /\ value' = value /\ mem' = mem /\ dirty' = dirty
    /\ req' = req /\ up' = up /\ reset' = reset /\ starts' = starts
    /\ counted' = counted /\ cleared' = cleared /\ mishap' = mishap
    /\ copy' \in [Writers -> [part : Parts, doc : Sums]]
    /\ offer' \in [Writers -> Sums \cup {NoDoc}]
    /\ \A v \in Writers \ {w} : copy'[v] = copy[v] /\ offer'[v] = offer[v]
    /\ ~Saving(w) /\ copy[w].part = "save"
    /\ copy'[w].part = "none" /\ copy'[w].doc = Zero /\ offer'[w] = copy[w].doc
    /\ clash' = (clash \/ \E v \in Writers \ {w} : Saving(v))

(* A save offers what the writer copied, and clashes if another is under   *)
(* way.                                                                    *)
LEMMA SaveTurns ==
    ASSUME TypeOK, NEW w \in Writers, StartSave(w) PROVE SaveTurn(w)
<1>1. /\ copy \in [Writers -> [part : Parts, doc : Sums]] /\ copy[w].doc \in Sums
      /\ offer \in [Writers -> Sums \cup {NoDoc}]
  BY DEF TypeOK
<1>2. /\ NotCopying \in [part : Parts, doc : Sums]
      /\ NotCopying.part = "none" /\ NotCopying.doc = Zero
  BY ConstantTypes DEF NotCopying, Parts
<1>3. copy' = [copy EXCEPT ![w] = NotCopying] /\ offer' = [offer EXCEPT ![w] = copy[w].doc]
  BY DEF StartSave, Offer
<1>4. /\ copy' \in [Writers -> [part : Parts, doc : Sums]]
      /\ offer' \in [Writers -> Sums \cup {NoDoc}]
      /\ \A v \in Writers \ {w} : copy'[v] = copy[v] /\ offer'[v] = offer[v]
      /\ copy'[w] = NotCopying /\ offer'[w] = copy[w].doc
  BY <1>1, <1>2, <1>3
<1> QED
  BY <1>2, <1>4 DEF SaveTurn, StartSave, Offer, ghosts

(* A save ends: well, badly, or in an overlap anyhow.                      *)
EndTurn(w) ==
    /\ mem' = mem /\ dirty' = dirty /\ req' = req /\ copy' = copy /\ starts' = starts
    /\ counted' = counted /\ cleared' = cleared /\ clash' = clash
    /\ offer' \in [Writers -> Sums \cup {NoDoc}]
    /\ \A v \in Writers \ {w} : offer'[v] = offer[v]
    /\ Saving(w) /\ ~Saving(w)'
    /\ \/ mishap' = mishap /\ value' = offer[w]
       \/ mishap' = mishap \cup {"failed"} /\ value' = value
       \/ /\ mishap' = mishap /\ clash
          /\ \/ value' \in {value, Torn}
             \/ \E v \in Writers : Saving(v) /\ value' = offer[v]
    /\ up' = CASE w = "main" /\ up = "starting" -> "serving"
               [] w = "main" /\ up = "stopping" -> "exiting"
               [] OTHER -> up
    /\ reset' = IF w = "console" THEN "returned" ELSE reset

(* A save that ends replaces the file or fails; after a clash it may tear  *)
(* it.                                                                     *)
LEMMA EndTurns ==
    ASSUME TypeOK, NEW w \in Writers, EndSave(w) PROVE EndTurn(w)
<1>1. offer \in [Writers -> Sums \cup {NoDoc}]
  BY DEF TypeOK
<1>2. Saving(w) /\ offer' = [offer EXCEPT ![w] = NoDoc] /\ clash' = clash
  BY DEF EndSave, Commit, Tear, Withdraw
<1>3. /\ offer' \in [Writers -> Sums \cup {NoDoc}]
      /\ \A v \in Writers \ {w} : offer'[v] = offer[v]
      /\ offer'[w] = NoDoc
  BY <1>1, <1>2
<1>4. \/ mishap' = mishap /\ value' = offer[w]
      \/ mishap' = mishap \cup {"failed"} /\ value' = value
      \/ /\ mishap' = mishap /\ clash
         /\ \/ value' \in {value, Torn}
            \/ \E v \in Writers : Saving(v) /\ value' = offer[v]
  BY DEF EndSave, Commit, Tear, Withdraw
<1> QED
  BY <1>2, <1>3, <1>4 DEF EndTurn, EndSave, Saving

(* A thread begins to write.                                               *)
BeginTurn(w) ==
    /\ ~Writing(w) /\ offer' = offer /\ clash' = clash
    /\ copy' \in [Writers -> [part : Parts, doc : Sums]]
    /\ \A v \in Writers \ {w} : copy'[v] = copy[v]
    /\ copy'[w].part = "stats" /\ copy'[w].doc = Zero
    /\ IF \E v \in Writers : Writing(v) THEN mishap' = mishap \cup {"overlap"}
                                        ELSE mishap' = mishap
    /\ counted' = counted /\ cleared' = cleared /\ req' = req /\ reset' = reset

(* A writer that begins starts with an empty copy.                         *)
LEMMA BeginTurns ==
    ASSUME TypeOK, NEW w \in Writers, BeginWrite(w),
           UNCHANGED <<offer, clash, counted, cleared, req, reset>>
    PROVE  BeginTurn(w)
<1>1. copy \in [Writers -> [part : Parts, doc : Sums]]
  BY DEF TypeOK
<1> DEFINE k == [part |-> "stats", doc |-> Zero]
<1>2. k \in [part : Parts, doc : Sums] /\ k.part = "stats" /\ k.doc = Zero
  BY ConstantTypes DEF Parts
<1>3. copy' = [copy EXCEPT ![w] = k]
  BY DEF BeginWrite
<1> HIDE DEF k
<1>4. /\ copy' \in [Writers -> [part : Parts, doc : Sums]]
      /\ \A v \in Writers \ {w} : copy'[v] = copy[v]
      /\ copy'[w].part = "stats" /\ copy'[w].doc = Zero
  BY <1>1, <1>2, <1>3
<1> QED
  BY <1>4 DEF BeginTurn, BeginWrite

(* The process is gone.                                                    *)
GoneTurn ==
    /\ up # "down" /\ up' = "down" /\ mem' = Zero /\ dirty' = FALSE
    /\ copy' \in [Writers -> [part : Parts, doc : Sums]]
    /\ \A w \in Writers : /\ copy'[w].part = "none" /\ copy'[w].doc = Zero
                          /\ offer'[w] = NoDoc
    /\ offer' \in [Writers -> {NoDoc}]
    /\ \A r \in Requests :
          req'[r] = IF req[r] \in {"coming", "done"} THEN req[r] ELSE "lost"
    /\ req' \in [Requests -> Stages]
    /\ reset' = IF reset \in {"coming", "returned"} THEN reset ELSE "lost"
    /\ starts' = starts /\ counted' = counted /\ cleared' = cleared
    /\ clash' = clash /\ mishap' = mishap
    /\ value' = value \/ (clash /\ value' = Torn)

(* An exit or a crash ends every writer and request, and memory with them. *)
LEMMA GoneTurns ==
    ASSUME TypeOK, Exit \/ Crash PROVE GoneTurn
<1>1. req \in [Requests -> Stages]
  BY DEF TypeOK
<1>2. /\ NotCopying \in [part : Parts, doc : Sums]
      /\ NotCopying.part = "none" /\ NotCopying.doc = Zero
  BY ConstantTypes DEF NotCopying, Parts
<1>3. up # "down" /\ Gone /\ mishap' = mishap
  BY DEF Exit, Crash
<1>4. /\ offer' = [w \in Writers |-> NoDoc] /\ clash' = clash
      /\ value' = value \/ (clash /\ value' = Torn)
  BY DEF Exit, Crash, Forget
<1>5. /\ copy' \in [Writers -> [part : Parts, doc : Sums]]
      /\ \A w \in Writers : copy'[w] = NotCopying /\ offer'[w] = NoDoc
      /\ offer' \in [Writers -> {NoDoc}]
  BY <1>2, <1>3, <1>4 DEF Gone
<1>6. /\ \A r \in Requests :
          req'[r] = IF req[r] \in {"coming", "done"} THEN req[r] ELSE "lost"
      /\ req' \in [Requests -> Stages]
  BY <1>1, <1>3 DEF Gone, Stages
<1> QED
  BY <1>2, <1>3, <1>4, <1>5, <1>6 DEF GoneTurn, Gone

(* The totals a start restores, and what it makes of the file.             *)
StartTurn ==
    /\ up = "down" /\ up' = "starting" /\ starts' = starts + 1
    /\ dirty' = dirty
    /\ IF value = Torn THEN value' = NoDoc ELSE value' = value
    /\ mem' \in Sums
    /\ \E saved \in Sums :
          /\ IF HasFile THEN saved = value ELSE saved = Zero
          /\ mem'.stats = saved.stats /\ mem'.ledger = saved.ledger
          /\ \E order \in Orders :
                mem'.history = Backfilled(saved.history, saved.ledger, order)

(* A start takes its state from the file, fills the days in, and begins    *)
(* its first write.                                                        *)
LEMMA StartTurns ==
    ASSUME TypeOK, Start PROVE StartTurn /\ BeginTurn("main")
<1> DEFINE saved == IF value \in {NoDoc, Torn} THEN Zero ELSE value
<1>1. saved \in Sums /\ (IF HasFile THEN saved = value ELSE saved = Zero)
  BY ConstantTypes DEF TypeOK, HasFile
<1>2. PICK order \in Orders :
        mem' = [saved EXCEPT !.history = Backfilled(saved.history, saved.ledger, order)]
  BY DEF Start
<1>3. Backfilled(saved.history, saved.ledger, order) \in [Days -> Nat]
  BY <1>1, BackfillFills
<1>4. /\ up = "down" /\ up' = "starting" /\ starts' = starts + 1 /\ dirty' = dirty
      /\ IF value = Torn THEN value' = NoDoc ELSE value' = value
  BY DEF Start
<1> HIDE DEF saved
<1>5. /\ mem' \in Sums /\ mem'.stats = saved.stats /\ mem'.ledger = saved.ledger
      /\ mem'.history = Backfilled(saved.history, saved.ledger, order)
  BY <1>1, <1>2, <1>3, SumsFields
<1>6. BeginTurn("main")
  BY BeginTurns, ConstantTypes DEF Start
<1> QED
  BY <1>1, <1>4, <1>5, <1>6 DEF StartTurn

(* The other steps that begin to write.                                    *)
WriteTurn(w) ==
    /\ value' = value /\ mem' = mem /\ starts' = starts /\ Serving /\ Serving'
    /\ \/ w = "flusher" /\ dirty /\ dirty' = FALSE /\ up' = up
       \/ w = "console" /\ dirty' = dirty /\ up' = up /\ reset = "write"
       \/ w = "main" /\ dirty' = dirty /\ up = "serving" /\ up' = "stopping"

(* The flusher, the reset and the stop begin their writes.                 *)
LEMMA WriteTurns ==
    ASSUME TypeOK, Flush \/ ResetWrite \/ Stop
    PROVE  \E w \in Writers : WriteTurn(w) /\ BeginTurn(w)
<1>1. CASE Flush
  <2>1. BeginTurn("flusher")
    BY <1>1, BeginTurns, ConstantTypes DEF Flush, regVars
  <2>2. WriteTurn("flusher")
    BY <1>1 DEF Flush, WriteTurn, regVars, Serving
  <2> QED
    BY <2>1, <2>2, ConstantTypes
<1>2. CASE ResetWrite
  <2>1. BeginTurn("console")
    BY <1>2, BeginTurns, ConstantTypes DEF ResetWrite, regVars
  <2>2. WriteTurn("console")
    BY <1>2 DEF ResetWrite, WriteTurn, regVars, Serving
  <2> QED
    BY <2>1, <2>2, ConstantTypes
<1>3. CASE Stop
  <2>1. BeginTurn("main")
    BY <1>3, BeginTurns, ConstantTypes DEF Stop, regVars
  <2>2. WriteTurn("main")
    BY <1>3 DEF Stop, WriteTurn, regVars, Serving
  <2> QED
    BY <2>1, <2>2, ConstantTypes
<1> QED
  BY <1>1, <1>2, <1>3

(* The reset clears the statistics in memory; or the state is marked.      *)
ClearTurn ==
    /\ value' = value /\ offer' = offer /\ clash' = clash /\ copy' = copy
    /\ up' = up /\ starts' = starts /\ req' = req /\ counted' = counted
    /\ mishap' = mishap /\ mem' \in Sums /\ Serving
    /\ mem'.ledger = mem.ledger /\ mem'.history = mem.history
    /\ \/ /\ reset = "coming" /\ reset' = "write" /\ dirty' = dirty
          /\ cleared' = mem.stats /\ mem'.stats = {}
       \/ reset' = reset /\ dirty' = TRUE /\ cleared' = cleared /\ mem' = mem

(* The reset clears memory; another part of the program may raise the      *)
(* mark.                                                                   *)
LEMMA ClearTurns ==
    ASSUME TypeOK, ResetStats \/ MarkElsewhere PROVE ClearTurn
<1>1. mem \in Sums
  BY DEF TypeOK
<1>2. CASE ResetStats
  <2>1. mem' = [mem EXCEPT !.stats = {}]
    BY <1>2 DEF ResetStats
  <2>2. /\ mem' \in Sums /\ mem'.stats = {} /\ mem'.ledger = mem.ledger
        /\ mem'.history = mem.history
    BY <1>1, <2>1, SumsFields
  <2> QED
    BY <1>2, <2>2 DEF ResetStats, ClearTurn, regVars
<1>3. CASE MarkElsewhere
  BY <1>1, <1>3 DEF MarkElsewhere, ClearTurn, regVars, ghosts
<1> QED
  BY <1>2, <1>3

(* Every step is one of these turns: what the invariants below have to     *)
(* survive.                                                                *)
LEMMA StepIsTurn ==
    ASSUME TypeOK, Next
    PROVE  \/ \E r \in Requests :
                 CountFrame(r) /\ (StatsTurn(r) \/ DayTurn(r) \/ SampleTurn(r) \/ DirtyTurn(r))
           \/ \E w \in Writers : CopyTurn(w) \/ SaveTurn(w) \/ EndTurn(w)
           \/ \E w \in Writers : WriteTurn(w) /\ BeginTurn(w)
           \/ StartTurn /\ BeginTurn("main")
           \/ ClearTurn \/ GoneTurn
BY CountTurns, CopyTurns, SaveTurns, EndTurns, WriteTurns, StartTurns, ClearTurns, GoneTurns
   DEF Next, WriteStep

-----------------------------------------------------------------------------
(* What every total tells of                                               *)

(* A document tells of no request that is not among these.                 *)
Within(doc, requests) ==
    /\ doc.ledger \subseteq requests
    /\ \A d \in Days : doc.history[d] <= Cardinality(On(d, requests))

DocsWithin ==
    /\ Within(mem, counted)
    /\ \A w \in Writers : /\ Within(copy[w].doc, counted)
                          /\ Saving(w) => Within(offer[w], counted)
    /\ HasFile => Within(value, counted)

(* A request's day counts it in one step of its thread.                    *)
CountedInTime ==
    \A r \in Requests :
        /\ req[r] \in {"coming", "history"} => r \notin counted
        /\ req[r] \in {"ledger", "dirty"} => r \in counted

(* Threads end with the process, and a thread does not copy and save at once. *)
Under == {"history", "ledger", "dirty"}
Lives ==
    /\ ~Serving => \A r \in Requests : req[r] \notin Under
    /\ up = "down" => \A w \in Writers : ~Writing(w)
    /\ \A w \in Writers : copy[w].part = "none" \/ ~Saving(w)

IndInv == TypeOK /\ DocsWithin /\ CountedInTime /\ Lives

(* A document within some counted requests is within more of them.         *)
LEMMA WithinGrows ==
    ASSUME NEW doc \in Sums, NEW T \in SUBSET Requests, NEW S \in SUBSET T, Within(doc, S)
    PROVE  Within(doc, T)
<1>1. \A d \in Days : doc.history[d] \in Nat
  BY SumsFields
<1>2. /\ doc.ledger \subseteq S
      /\ \A d \in Days : doc.history[d] <= Cardinality(On(d, S))
  BY DEF Within
<1>3. ASSUME NEW d \in Days PROVE doc.history[d] <= Cardinality(On(d, T))
  <2>1. S \in SUBSET Requests
    OBVIOUS
  <2>2. Cardinality(On(d, S)) <= Cardinality(On(d, T))
    BY OnMonotone
  <2>3. Cardinality(On(d, S)) \in Nat /\ Cardinality(On(d, T)) \in Nat
    BY <2>1, OnCount
  <2> QED
    BY <1>1, <1>2, <2>2, <2>3
<1> QED
  BY <1>2, <1>3 DEF Within

(* What is within the requests is a document, so it can be saved.          *)
LEMMA WithinIsDoc ==
    ASSUME NEW doc \in Sums, NEW S \in SUBSET Requests, Within(doc, S)
    PROVE  doc \in Docs /\ doc # NoDoc /\ doc # Torn
<1>1. doc.history \in [Days -> Nat]
  BY SumsFields
<1>2. ASSUME NEW d \in Days PROVE doc.history[d] \in 0..Cardinality(Requests)
  <2>1. doc.history[d] <= Cardinality(On(d, Requests))
    BY WithinGrows DEF Within
  <2>2. On(d, Requests) \subseteq Requests
    BY DEF On
  <2>3. /\ Cardinality(On(d, Requests)) <= Cardinality(Requests)
        /\ Cardinality(On(d, Requests)) \in Nat /\ Cardinality(Requests) \in Nat
    BY <2>2, PersistenceAssumption, FS_Subset, FS_CardinalityType
  <2> QED
    BY <1>1, <2>1, <2>3
<1>3. doc.history \in [Days -> 0..Cardinality(Requests)]
  BY <1>1, <1>2
<1>4. doc \in Totals
  BY <1>3 DEF Sums, Totals
<1> QED
  BY <1>4, FileAssumption

(* The empty document is within any set of requests.                       *)
LEMMA ZeroWithin ==
    ASSUME NEW S \in SUBSET Requests PROVE Within(Zero, S)
BY ZeroFields, OnCount DEF Within

(* Within depends only on the ledger and the history.                      *)
LEMMA SameWithin ==
    ASSUME NEW a, NEW b, NEW S, Within(a, S), b.ledger = a.ledger, b.history = a.history
    PROVE  Within(b, S)
BY DEF Within

(* IndInv holds at the start.                                              *)
LEMMA BaseInit == Init => IndInv
<1> SUFFICES ASSUME Init PROVE IndInv
  OBVIOUS
<1>1. /\ offer = [w \in Writers |-> NoDoc] /\ clash = FALSE
      /\ value \in {OldFile, NoDoc} /\ mem = Zero
      /\ copy = [w \in Writers |-> NotCopying]
  BY DEF Init, RegisterInit
<1>2. NotCopying = [part |-> "none", doc |-> Zero] /\ Zero \in Sums /\ OldFile \in Sums
  BY ConstantTypes DEF NotCopying
<1>3. TypeOK
  <2>1. copy \in [Writers -> [part : Parts, doc : Sums]]
    BY <1>1, <1>2 DEF Parts
  <2>2. req \in [Requests -> Stages] /\ up \in Ups /\ reset \in Resets /\ starts \in Nat
    BY DEF Init, Stages, Ups, Resets
  <2>3. /\ counted \in SUBSET Requests /\ cleared \in SUBSET Requests
        /\ mishap \in SUBSET {"overlap", "failed"} /\ dirty \in BOOLEAN
    BY ConstantTypes DEF Init
  <2> QED
    BY <1>1, <1>2, <2>1, <2>2, <2>3 DEF TypeOK
<1>4. \A w \in Writers : copy[w].part = "none" /\ copy[w].doc = Zero /\ ~Saving(w)
  BY <1>1, <1>2 DEF Saving
<1>5. DocsWithin
  <2>1. counted = OldRequests /\ OldRequests \in SUBSET Requests
    BY ConstantTypes DEF Init
  <2>2. Within(OldFile, counted)
    BY <2>1, FileAssumption DEF Within
  <2>3. Within(Zero, counted)
    BY <2>1, ZeroWithin
  <2> QED
    BY <1>1, <1>4, <2>2, <2>3 DEF DocsWithin, HasFile
<1>6. CountedInTime
  BY DEF Init, CountedInTime
<1>7. Lives
  BY <1>4 DEF Init, Lives, Writing, Under
<1> QED
  BY <1>3, <1>5, <1>6, <1>7 DEF IndInv

(* TypeOK is kept by every step.                                           *)
LEMMA TypeStep ==
    ASSUME IndInv, [Next]_vars PROVE TypeOK'
<1> USE DEF IndInv
<1>1. ASSUME NEW r \in Requests, CountFrame(r),
             StatsTurn(r) \/ DayTurn(r) \/ SampleTurn(r) \/ DirtyTurn(r)
      PROVE  TypeOK'
  BY <1>1 DEF TypeOK, CountFrame, StatsTurn, DayTurn, SampleTurn, DirtyTurn
<1>2. ASSUME NEW w \in Writers, CopyTurn(w) PROVE TypeOK'
  BY <1>2 DEF TypeOK, CopyTurn
<1>3. ASSUME NEW w \in Writers, SaveTurn(w) PROVE TypeOK'
  BY <1>3 DEF TypeOK, SaveTurn
<1>4. ASSUME NEW w \in Writers, EndTurn(w) PROVE TypeOK'
  <2>1. \A v \in Writers : Saving(v) => offer[v] \in Sums
    BY DEF TypeOK, Saving
  <2>2. value' \in Sums \cup {NoDoc, Torn}
    BY <1>4, <2>1 DEF TypeOK, EndTurn
  <2>3. up' \in Ups /\ reset' \in Resets
    BY <1>4 DEF TypeOK, EndTurn, Ups, Resets
  <2>4. mishap' \in SUBSET {"overlap", "failed"}
    BY <1>4 DEF TypeOK, EndTurn
  <2> QED
    BY <1>4, <2>2, <2>3, <2>4 DEF TypeOK, EndTurn
<1>5. ASSUME NEW w \in Writers, WriteTurn(w), BeginTurn(w) PROVE TypeOK'
  <2>1. up' \in Ups /\ dirty' \in BOOLEAN
    BY <1>5 DEF TypeOK, WriteTurn, Ups
  <2>2. mishap' \in SUBSET {"overlap", "failed"}
    BY <1>5 DEF TypeOK, BeginTurn
  <2> QED
    BY <1>5, <2>1, <2>2 DEF TypeOK, WriteTurn, BeginTurn
<1>6. CASE StartTurn /\ BeginTurn("main")
  <2>1. value' \in Sums \cup {NoDoc, Torn} /\ up' \in Ups /\ starts' \in Nat
    BY <1>6 DEF TypeOK, StartTurn, Ups
  <2>2. mishap' \in SUBSET {"overlap", "failed"}
    BY <1>6 DEF TypeOK, BeginTurn
  <2> QED
    BY <1>6, <2>1, <2>2 DEF TypeOK, StartTurn, BeginTurn
<1>7. CASE ClearTurn
  <2>1. reset' \in Resets /\ cleared' \in SUBSET Requests /\ dirty' \in BOOLEAN
    BY <1>7, SumsFields DEF TypeOK, ClearTurn, Resets
  <2> QED
    BY <1>7, <2>1 DEF TypeOK, ClearTurn
<1>8. CASE GoneTurn
  <2>1. reset' \in Resets /\ up' \in Ups
    BY <1>8 DEF TypeOK, GoneTurn, Resets, Ups
  <2>2. mem' \in Sums /\ value' \in Sums \cup {NoDoc, Torn}
    BY <1>8, ConstantTypes DEF TypeOK, GoneTurn
  <2> QED
    BY <1>8, <2>1, <2>2 DEF TypeOK, GoneTurn
<1>9. CASE UNCHANGED vars
  BY <1>9 DEF vars, regVars, TypeOK
<1> QED
  BY <1>1, <1>2, <1>3, <1>4, <1>5, <1>6, <1>7, <1>8, <1>9, StepIsTurn

(* A request is counted at most once, when its thread counts its day.      *)
LEMMA CountedStep ==
    ASSUME IndInv, [Next]_vars PROVE CountedInTime' /\ counted \subseteq counted'
<1> USE DEF IndInv
<1>1. ASSUME NEW r \in Requests, CountFrame(r),
             StatsTurn(r) \/ DayTurn(r) \/ SampleTurn(r) \/ DirtyTurn(r)
      PROVE  CountedInTime' /\ counted \subseteq counted'
  <2>1. counted' = counted \/ (req[r] = "history" /\ counted' = counted \cup {r})
    BY <1>1 DEF StatsTurn, DayTurn, SampleTurn, DirtyTurn
  <2>2. ASSUME NEW x \in Requests \ {r}
        PROVE  /\ req'[x] \in {"coming", "history"} => x \notin counted'
               /\ req'[x] \in {"ledger", "dirty"} => x \in counted'
    BY <1>1, <2>1, <2>2 DEF CountedInTime, CountFrame
  <2>3. /\ req'[r] \in {"coming", "history"} => r \notin counted'
        /\ req'[r] \in {"ledger", "dirty"} => r \in counted'
    BY <1>1 DEF CountedInTime, StatsTurn, DayTurn, SampleTurn, DirtyTurn
  <2> QED
    BY <2>1, <2>2, <2>3 DEF CountedInTime
<1>2. CASE req' = req /\ counted' = counted
  BY <1>2 DEF CountedInTime
<1>3. CASE GoneTurn
  BY <1>3 DEF CountedInTime, GoneTurn
<1>4. CASE UNCHANGED vars
  BY <1>2, <1>4 DEF vars
<1>5. ASSUME NEW w \in Writers, CopyTurn(w) \/ SaveTurn(w) \/ EndTurn(w) \/ BeginTurn(w)
      PROVE  req' = req /\ counted' = counted
  BY <1>5 DEF CopyTurn, SaveTurn, EndTurn, BeginTurn
<1>6. ClearTurn => req' = req /\ counted' = counted
  BY DEF ClearTurn
<1>7. BeginTurn("main") => req' = req /\ counted' = counted
  BY DEF BeginTurn
<1> QED
  BY <1>1, <1>2, <1>3, <1>4, <1>5, <1>6, <1>7, StepIsTurn

(* Lives is kept by every step.                                            *)
LEMMA LivesStep ==
    ASSUME IndInv, [Next]_vars PROVE Lives'
<1> USE DEF IndInv
<1>1. ASSUME NEW r \in Requests, CountFrame(r),
             StatsTurn(r) \/ DayTurn(r) \/ SampleTurn(r) \/ DirtyTurn(r)
      PROVE  Lives'
  BY <1>1 DEF Lives, CountFrame, Serving, Writing, Saving
<1>2. ASSUME NEW w \in Writers, CopyTurn(w) PROVE Lives'
  BY <1>2 DEF Lives, CopyTurn, Serving, Writing, Saving
<1>3. ASSUME NEW w \in Writers, SaveTurn(w) PROVE Lives'
  BY <1>3 DEF Lives, SaveTurn, Serving, Writing, Saving
<1>4. ASSUME NEW w \in Writers, EndTurn(w) PROVE Lives'
  <2>1. up # "down" /\ up' # "down"
    BY <1>4 DEF Lives, EndTurn, Writing
  <2>2. ~Serving' => ~Serving
    BY <1>4 DEF EndTurn, Serving
  <2> QED
    BY <1>4, <2>1, <2>2 DEF Lives, EndTurn, Writing, Saving
<1>5. ASSUME NEW w \in Writers, WriteTurn(w), BeginTurn(w) PROVE Lives'
  BY <1>5 DEF Lives, WriteTurn, BeginTurn, Serving, Writing, Saving
<1>6. CASE StartTurn /\ BeginTurn("main")
  BY <1>6 DEF Lives, StartTurn, BeginTurn, Serving, Writing, Saving
<1>7. CASE ClearTurn
  BY <1>7 DEF Lives, ClearTurn, Serving, Writing, Saving
<1>8. CASE GoneTurn
  BY <1>8 DEF Lives, GoneTurn, Serving, Writing, Saving, Under
<1>9. CASE UNCHANGED vars
  BY <1>9 DEF vars, regVars, Lives, Serving, Writing, Saving
<1> QED
  BY <1>1, <1>2, <1>3, <1>4, <1>5, <1>6, <1>7, <1>8, <1>9, StepIsTurn

(* A document that was within what was counted still is.                   *)
LEMMA StillWithin ==
    ASSUME IndInv, [Next]_vars, NEW doc \in Sums, Within(doc, counted)
    PROVE  Within(doc, counted')
BY CountedStep, TypeStep, WithinGrows DEF TypeOK, IndInv

(* DocsWithin is kept by every step.                                       *)
LEMMA DocsStep ==
    ASSUME IndInv, [Next]_vars PROVE DocsWithin'
<1> USE DEF IndInv
<1>1. /\ mem \in Sums /\ counted \in SUBSET Requests /\ counted' \in SUBSET Requests
      /\ \A w \in Writers : copy[w].doc \in Sums
      /\ \A w \in Writers : Saving(w) => offer[w] \in Sums
      /\ HasFile => value \in Sums
      /\ mem' \in Sums /\ \A w \in Writers : copy'[w].doc \in Sums
  BY TypeStep DEF TypeOK, Saving, HasFile
<1>2. /\ Within(mem, counted')
      /\ \A w \in Writers : /\ Within(copy[w].doc, counted')
                            /\ Saving(w) => Within(offer[w], counted')
      /\ HasFile => Within(value, counted')
      /\ Within(Zero, counted')
  BY <1>1, StillWithin, ZeroWithin, ConstantTypes DEF DocsWithin
<1>3. ASSUME NEW r \in Requests, CountFrame(r),
             StatsTurn(r) \/ DayTurn(r) \/ SampleTurn(r) \/ DirtyTurn(r)
      PROVE  DocsWithin'
  <2>1. Within(mem', counted')
    <3>1. CASE StatsTurn(r) \/ DirtyTurn(r)
      BY <1>2, <3>1 DEF StatsTurn, DirtyTurn, Within
    <3>2. CASE SampleTurn(r)
      BY <1>2, <3>2 DEF SampleTurn, CountedInTime, Within
    <3>3. CASE DayTurn(r)
      <4>1. /\ counted' = counted \cup {r} /\ r \notin counted /\ mem'.ledger = mem.ledger
            /\ DayOf[r] \in Days /\ mem.history \in [Days -> Nat]
        BY <1>1, <3>3, SumsFields, PersistenceAssumption DEF DayTurn, CountedInTime
      <4>2. ASSUME NEW d \in Days PROVE mem'.history[d] <= Cardinality(On(d, counted'))
        <5>1. CASE d # DayOf[r]
          BY <1>2, <3>3, <5>1 DEF DayTurn, Within
        <5>2. CASE d = DayOf[r]
          <6>1. Cardinality(On(d, counted')) = Cardinality(On(d, counted)) + 1
            BY <1>1, <4>1, <5>2, OnOneMore
          <6>2. mem'.history[d] = mem.history[d] + 1
            BY <3>3, <5>2 DEF DayTurn
          <6>3. mem.history[d] <= Cardinality(On(d, counted))
            BY DEF DocsWithin, Within
          <6>4. mem.history[d] \in Nat /\ Cardinality(On(d, counted)) \in Nat
            BY <1>1, <4>1, OnCount
          <6> QED
            BY <6>1, <6>2, <6>3, <6>4
        <5> QED
          BY <5>1, <5>2
      <4>3. mem'.ledger \subseteq counted'
        BY <1>2, <4>1 DEF Within
      <4> QED
        BY <4>2, <4>3 DEF Within
    <3> QED
      BY <1>3, <3>1, <3>2, <3>3
  <2> QED
    BY <1>2, <1>3, <2>1 DEF DocsWithin, CountFrame, Saving, HasFile, Within
<1>4. ASSUME NEW w \in Writers, CopyTurn(w) PROVE DocsWithin'
  <2>1. Within(copy'[w].doc, counted')
    BY <1>2, <1>4 DEF CopyTurn, Within
  <2>2. \A v \in Writers \ {w} : Within(copy'[v].doc, counted')
    BY <1>2, <1>4 DEF CopyTurn
  <2> QED
    BY <1>2, <1>4, <2>1, <2>2 DEF DocsWithin, CopyTurn, Saving, HasFile
<1>5. ASSUME NEW w \in Writers, SaveTurn(w) PROVE DocsWithin'
  <2>1. \A v \in Writers : /\ Within(copy'[v].doc, counted')
                           /\ Saving(v)' => Within(offer'[v], counted')
    BY <1>2, <1>5 DEF SaveTurn, Saving
  <2> QED
    BY <1>2, <1>5, <2>1 DEF DocsWithin, SaveTurn, HasFile
<1>6. ASSUME NEW w \in Writers, EndTurn(w) PROVE DocsWithin'
  <2>1. \A v \in Writers : Saving(v)' => Within(offer'[v], counted')
    BY <1>2, <1>6 DEF EndTurn, Saving
  <2>2. HasFile' => Within(value', counted')
    BY <1>2, <1>6 DEF EndTurn, HasFile
  <2> QED
    BY <1>2, <1>6, <2>1, <2>2 DEF DocsWithin, EndTurn
<1>7. ASSUME NEW w \in Writers, BeginTurn(w)
      PROVE  \A v \in Writers : /\ Within(copy'[v].doc, counted')
                                /\ Saving(v)' => Within(offer'[v], counted')
  BY <1>2, <1>7 DEF BeginTurn, Saving
<1>8. ASSUME NEW w \in Writers, WriteTurn(w), BeginTurn(w) PROVE DocsWithin'
  BY <1>2, <1>7, <1>8 DEF DocsWithin, WriteTurn, HasFile
<1>9. CASE StartTurn /\ BeginTurn("main")
  <2>1. PICK saved \in Sums :
          /\ IF HasFile THEN saved = value ELSE saved = Zero
          /\ mem'.stats = saved.stats /\ mem'.ledger = saved.ledger
          /\ \E order \in Orders :
                mem'.history = Backfilled(saved.history, saved.ledger, order)
    BY <1>9 DEF StartTurn
  <2>2. Within(saved, counted')
    BY <1>2, <2>1
  <2>3. PICK order \in Orders : mem'.history = Backfilled(saved.history, saved.ledger, order)
    BY <2>1
  <2>4. ASSUME NEW d \in Days PROVE mem'.history[d] <= Cardinality(On(d, counted'))
    <3>1. \/ mem'.history[d] = saved.history[d]
          \/ mem'.history[d] <= Cardinality(On(d, saved.ledger))
      BY <2>1, <2>3, BackfillFills
    <3>2. /\ saved.history[d] <= Cardinality(On(d, counted'))
          /\ Cardinality(On(d, saved.ledger)) <= Cardinality(On(d, counted'))
      BY <1>1, <2>2, OnMonotone DEF Within
    <3>3. /\ mem'.history[d] \in Nat /\ saved.history[d] \in Nat
          /\ Cardinality(On(d, saved.ledger)) \in Nat
          /\ Cardinality(On(d, counted')) \in Nat
      BY <1>1, OnCount, SumsFields
    <3> QED
      BY <3>1, <3>2, <3>3
  <2>5. Within(mem', counted')
    BY <2>1, <2>2, <2>4 DEF Within
  <2>6. HasFile' => HasFile /\ value' = value
    BY <1>9 DEF StartTurn, HasFile
  <2> QED
    BY <1>2, <1>7, <1>9, <2>5, <2>6, ConstantTypes DEF DocsWithin
<1>10. CASE ClearTurn
  <2>1. Within(mem', counted')
    BY <1>2, <1>10 DEF ClearTurn, Within
  <2> QED
    BY <1>2, <1>10, <2>1 DEF DocsWithin, ClearTurn, Saving, HasFile
<1>11. CASE GoneTurn
  BY <1>2, <1>11 DEF DocsWithin, GoneTurn, Saving, HasFile
<1>12. CASE UNCHANGED vars
  BY <1>2, <1>12 DEF DocsWithin, vars, regVars, Saving, HasFile
<1> QED
  BY <1>3, <1>4, <1>5, <1>6, <1>8, <1>9, <1>10, <1>11, <1>12, StepIsTurn

(* IndInv holds always.                                                    *)
LEMMA BaseInv == Spec => []IndInv
<1>1. Init => IndInv
  BY BaseInit
<1>2. IndInv /\ [Next]_vars => IndInv'
  BY TypeStep, CountedStep, LivesStep, DocsStep DEF IndInv
<1> QED
  BY <1>1, <1>2, PTL DEF Spec

(* What the base says of documents: what is saved is one, and so is what is *)
(* on file.                                                                *)
LEMMA SavedAreDocs ==
    ASSUME IndInv
    PROVE  /\ \A w \in Writers : /\ copy[w].doc \in Docs /\ copy[w].doc # NoDoc
                                 /\ Saving(w) => /\ offer[w] \in Docs /\ offer[w] \in Sums
                                                 /\ offer[w] # NoDoc /\ offer[w] # Torn
           /\ HasFile => value \in Docs /\ value \in Sums
           /\ value \in Values
<1> USE DEF IndInv
<1>1. /\ counted \in SUBSET Requests
      /\ \A w \in Writers : copy[w].doc \in Sums
      /\ \A w \in Writers : Saving(w) => offer[w] \in Sums
      /\ HasFile => value \in Sums
  BY DEF TypeOK, Saving, HasFile
<1>2. /\ \A w \in Writers : copy[w].doc \in Docs /\ copy[w].doc # NoDoc
      /\ HasFile => value \in Docs
  BY <1>1, WithinIsDoc DEF DocsWithin
<1>3. \A w \in Writers : Saving(w) => /\ offer[w] \in Docs /\ offer[w] # NoDoc
                                      /\ offer[w] # Torn
  BY <1>1, WithinIsDoc DEF DocsWithin
<1> QED
  BY <1>1, <1>2, <1>3 DEF Values, HasFile

(* No restart counts a request twice: a day never shows more than was      *)
(* counted on it in all lives of the process, in memory or on file,        *)
(* whatever crashes, tears and backfills come between (state.rs:           *)
(* record_success, snapshot, restore; history.rs: backfill).               *)
THEOREM NothingIsDoubled == Spec => []NothingDoubled
<1>1. IndInv => NothingDoubled
  BY DEF IndInv, DocsWithin, Within, NothingDoubled
<1> QED
  BY <1>1, BaseInv, PTL

-----------------------------------------------------------------------------
(* Samples and days                                                        *)

(* Samples whose day is counted: those in the ledger and those on the way. *)
OnTheWay == {r \in Requests : req[r] = "ledger"}

Covers(history, samples) == \A d \in Days : Cardinality(On(d, samples)) <= history[d]

SamplesCovered ==
    /\ up # "down" => Covers(mem.history, mem.ledger \cup OnTheWay)
    /\ \A w \in Writers :
          /\ copy[w].part \in {"stats", "ledgers"} => copy[w].doc.ledger = {}
          /\ copy[w].part = "history" => Covers(mem.history, copy[w].doc.ledger)
          /\ copy[w].part = "save" => Covers(copy[w].doc.history, copy[w].doc.ledger)
          /\ Saving(w) => Covers(offer[w].history, offer[w].ledger)
    /\ HasFile => value = OldFile \/ Covers(value.history, value.ledger)

(* What the file of an earlier version must be for its backfill to cover   *)
(* its samples: on a day it has a count of, the count covers them; on a    *)
(* day it has none of, they are paid from one allowance, since the first   *)
(* allowance that is backfilled leaves a bucket and the others skip it.    *)
OldFileIsFillable ==
    \A d \in Days :
        \/ Cardinality(On(d, OldFile.ledger)) <= OldFile.history[d]
        \/ /\ OldFile.history[d] = 0
           /\ \A r, s \in On(d, OldFile.ledger) : AllowanceOf[r] = AllowanceOf[s]

(* A history that covers some samples covers fewer, and so does one with   *)
(* more in it.                                                             *)
LEMMA CoversLess ==
    ASSUME NEW h \in [Days -> Nat], NEW k \in [Days -> Nat],
           NEW T \in SUBSET Requests, NEW S \in SUBSET T,
           Covers(h, T), \A d \in Days : h[d] <= k[d]
    PROVE  Covers(k, S)
<1>1. S \in SUBSET Requests
  OBVIOUS
<1>2. ASSUME NEW d \in Days PROVE Cardinality(On(d, S)) <= k[d]
  <2>1. /\ Cardinality(On(d, S)) \in Nat /\ Cardinality(On(d, T)) \in Nat
        /\ Cardinality(On(d, S)) <= Cardinality(On(d, T))
    BY <1>1, OnCount, OnMonotone
  <2>2. /\ h[d] \in Nat /\ k[d] \in Nat /\ h[d] <= k[d]
        /\ Cardinality(On(d, T)) <= h[d]
    BY DEF Covers
  <2> QED
    BY <2>1, <2>2
<1> QED
  BY <1>2 DEF Covers

(* A backfill covers what a file that can be filled remembers.             *)
LEMMA BackfillCovers ==
    ASSUME OldFileIsFillable, NEW doc \in Sums, NEW order \in Orders,
           doc = OldFile \/ Covers(doc.history, doc.ledger)
    PROVE  Covers(Backfilled(doc.history, doc.ledger, order), doc.ledger)
<1> DEFINE h == Backfilled(doc.history, doc.ledger, order)
<1>1. /\ doc.history \in [Days -> Nat] /\ doc.ledger \in SUBSET Requests
      /\ h \in [Days -> Nat] /\ \A d \in Days : h[d] >= doc.history[d]
  BY SumsFields, BackfillFills
<1>2. ASSUME NEW d \in Days PROVE Cardinality(On(d, doc.ledger)) <= h[d]
  <2>1. /\ h[d] \in Nat /\ doc.history[d] \in Nat /\ h[d] >= doc.history[d]
        /\ Cardinality(On(d, doc.ledger)) \in Nat
    <3> HIDE DEF h
    <3> QED
      BY <1>1, OnCount
  <2>2. CASE Cardinality(On(d, doc.ledger)) <= doc.history[d]
    <3> HIDE DEF h
    <3> QED
      BY <2>1, <2>2
  <2>3. CASE ~(Cardinality(On(d, doc.ledger)) <= doc.history[d])
    <3> DEFINE payers == {AllowanceOf[r] : r \in On(d, doc.ledger)}
               first  == CHOOSE a \in payers : \A b \in payers : order[a] <= order[b]
               paid   == {r \in On(d, doc.ledger) : AllowanceOf[r] = first}
    <3>1. /\ doc.history[d] = 0
          /\ \A r, s \in On(d, doc.ledger) : AllowanceOf[r] = AllowanceOf[s]
      BY <2>3 DEF Covers, OldFileIsFillable
    <3>2. h[d] = IF doc.history[d] > 0 \/ payers = {} THEN doc.history[d]
                 ELSE Cardinality(paid)
      BY DEF Backfilled
    <3>3. CASE payers = {}
      <4>1. On(d, doc.ledger) = {}
        BY <3>3
      <4> QED
        BY <2>1, <2>3, <4>1, FS_EmptySet
    <3>4. CASE payers # {}
      <4>1. PICK s \in On(d, doc.ledger) : TRUE
        BY <3>4
      <4>2. payers = {AllowanceOf[s]}
        BY <3>1, <4>1
      <4>3. AllowanceOf[s] \in Allowances
        BY <1>1, <4>1 DEF On, Allowances
      <4>4. order[AllowanceOf[s]] <= order[AllowanceOf[s]]
        <5>1. order[AllowanceOf[s]] \in 1..Cardinality(Allowances)
          BY <4>3 DEF Orders
        <5> QED
          BY <5>1
      <4>5. first = AllowanceOf[s]
        BY <4>2, <4>4, Zenon
      <4>6. paid = On(d, doc.ledger)
        BY <3>1, <4>1, <4>5
      <4> HIDE DEF h, payers, first, paid
      <4> QED
        BY <2>1, <3>1, <3>2, <3>4, <4>6
    <3> QED
      BY <3>3, <3>4
  <2> QED
    BY <2>2, <2>3
<1> QED
  BY <1>2 DEF Covers

(* SamplesCovered holds at the start.                                      *)
LEMMA SamplesInit == Init => SamplesCovered
BY ConstantTypes DEF Init, RegisterInit, SamplesCovered, NotCopying, HasFile, Saving

(* SamplesCovered is kept by every step, if the old file can be filled in. *)
LEMMA SamplesStep ==
    ASSUME OldFileIsFillable, IndInv, SamplesCovered, [Next]_vars
    PROVE  SamplesCovered'
<1> USE DEF IndInv
<1> DEFINE Kept(w) == /\ copy[w].part \in {"stats", "ledgers"} => copy[w].doc.ledger = {}
                      /\ copy[w].part = "history" => Covers(mem.history, copy[w].doc.ledger)
                      /\ copy[w].part = "save" =>
                            Covers(copy[w].doc.history, copy[w].doc.ledger)
                      /\ Saving(w) => Covers(offer[w].history, offer[w].ledger)
           OnFile == HasFile => value = OldFile \/ Covers(value.history, value.ledger)
           InMem == up # "down" => Covers(mem.history, mem.ledger \cup OnTheWay)
<1>1. /\ mem \in Sums /\ mem.history \in [Days -> Nat]
      /\ mem.ledger \in SUBSET Requests /\ OnTheWay \in SUBSET Requests
      /\ \A w \in Writers : /\ copy[w].doc.history \in [Days -> Nat]
                            /\ copy[w].doc.ledger \in SUBSET Requests
      /\ HasFile => value \in Sums
      /\ mem'.history \in [Days -> Nat] /\ mem'.ledger \in SUBSET Requests
      /\ OnTheWay' \in SUBSET Requests
  <2>1. mem \in Sums /\ mem' \in Sums /\ (HasFile => value \in Sums)
    BY TypeStep, SavedAreDocs DEF TypeOK
  <2>2. \A w \in Writers : copy[w].doc \in Sums
    BY DEF TypeOK
  <2>3. \A w \in Writers : /\ copy[w].doc.history \in [Days -> Nat]
                           /\ copy[w].doc.ledger \in SUBSET Requests
    BY <2>2, SumsFields
  <2> QED
    BY <2>1, <2>3, SumsFields DEF OnTheWay
<1>2. InMem /\ OnFile /\ \A w \in Writers : Kept(w)
  BY DEF SamplesCovered
<1>3. SamplesCovered' <=> (InMem' /\ OnFile' /\ \A w \in Writers : Kept(w)')
  BY DEF SamplesCovered
(* The day's count in memory has only grown.                               *)
<1>4. ASSUME \A d \in Days : mem.history[d] <= mem'.history[d],
             copy' = copy, offer' = offer
      PROVE  \A w \in Writers : Kept(w)'
  <2> TAKE w \in Writers
  <2>1. copy[w].part = "history" => Covers(mem'.history, copy[w].doc.ledger)
    BY <1>1, <1>2, <1>4, CoversLess
  <2> QED
    BY <1>2, <1>4, <2>1 DEF Saving
<1>5. ASSUME NEW r \in Requests, CountFrame(r),
             StatsTurn(r) \/ DayTurn(r) \/ SampleTurn(r) \/ DirtyTurn(r)
      PROVE  SamplesCovered'
  <2>1. \A d \in Days : mem.history[d] <= mem'.history[d]
    <3> TAKE d \in Days
    <3>1. mem.history[d] \in Nat
      BY <1>1
    <3>2. mem'.history[d] = mem.history[d] \/ mem'.history[d] = mem.history[d] + 1
      BY <1>5 DEF StatsTurn, DayTurn, SampleTurn, DirtyTurn
    <3> QED
      BY <3>1, <3>2
  <2>2. up # "down" /\ Covers(mem.history, mem.ledger \cup OnTheWay)
    BY <1>2, <1>5 DEF CountFrame, Serving
  <2>3. DayTurn(r) => OnTheWay' = OnTheWay \cup {r}
    <3>1. \A x \in Requests \ {r} : x \in OnTheWay' <=> x \in OnTheWay
      BY <1>5 DEF CountFrame, OnTheWay
    <3>2. DayTurn(r) => r \in OnTheWay'
      BY DEF DayTurn, OnTheWay
    <3> QED
      BY <1>1, <3>1, <3>2
  <2>4. InMem'
    <3>1. CASE DayTurn(r)
      <4> DEFINE S == mem.ledger \cup OnTheWay
                 T == S \cup {r}
      <4>1. mem'.ledger \cup OnTheWay' = T
        BY <2>3, <3>1 DEF DayTurn
      <4>2. S \in SUBSET Requests
        BY <1>1
      <4> HIDE DEF S
      <4>3. ASSUME NEW d \in Days PROVE Cardinality(On(d, T)) <= mem'.history[d]
        <5>1. Cardinality(On(d, S)) <= mem.history[d]
          BY <2>2 DEF Covers, S
        <5>2. /\ Cardinality(On(d, S)) \in Nat /\ mem.history[d] \in Nat
              /\ mem'.history[d] = IF d = DayOf[r] THEN mem.history[d] + 1
                                                   ELSE mem.history[d]
          BY <1>1, <3>1, <4>2, OnCount DEF DayTurn
        <5>3. /\ Cardinality(On(d, T)) <= Cardinality(On(d, S)) + 1
              /\ d # DayOf[r] => On(d, T) = On(d, S)
          BY <4>2, OnOneMore
        <5>4. Cardinality(On(d, T)) \in Nat
          BY <4>2, OnCount
        <5> HIDE DEF T
        <5>5. CASE d = DayOf[r]
          BY <5>1, <5>2, <5>3, <5>4, <5>5
        <5>6. CASE d # DayOf[r]
          BY <5>1, <5>2, <5>3, <5>4, <5>6
        <5> QED
          BY <5>5, <5>6
      <4> QED
        BY <4>1, <4>3 DEF Covers
    <3>2. CASE ~DayTurn(r)
      <4>1. mem'.ledger \cup OnTheWay' \subseteq mem.ledger \cup OnTheWay
        <5>1. \A x \in Requests \ {r} : x \in OnTheWay' <=> x \in OnTheWay
          BY <1>5 DEF CountFrame, OnTheWay
        <5>2. r \notin OnTheWay'
          BY <1>5, <3>2 DEF OnTheWay, StatsTurn, SampleTurn, DirtyTurn
        <5>3. mem'.ledger = mem.ledger \/ (r \in OnTheWay /\ mem'.ledger \subseteq mem.ledger \cup {r})
          BY <1>5, <3>2 DEF OnTheWay, StatsTurn, SampleTurn, DirtyTurn
        <5> QED
          BY <1>1, <5>1, <5>2, <5>3
      <4>2. mem.ledger \cup OnTheWay \in SUBSET Requests
        BY <1>1
      <4> QED
        BY <1>1, <2>1, <2>2, <4>1, <4>2, CoversLess
    <3> QED
      BY <3>1, <3>2
  <2>5. OnFile'
    BY <1>2, <1>5 DEF CountFrame, HasFile
  <2>6. \A w \in Writers : Kept(w)'
    BY <1>4, <1>5, <2>1 DEF CountFrame
  <2> QED
    BY <1>3, <2>4, <2>5, <2>6
(* The totals in memory and the requests stay as they are.                 *)
<1>6. ASSUME up' # "down" => up # "down", mem' = mem, req' = req
      PROVE  InMem'
  <2>1. OnTheWay' = OnTheWay
    BY <1>6 DEF OnTheWay
  <2> QED
    BY <1>2, <1>6, <2>1
<1>7. ASSUME NEW w \in Writers, CopyTurn(w) PROVE SamplesCovered'
  <2>1. InMem'
    BY <1>6, <1>7 DEF CopyTurn
  <2>2. OnFile'
    BY <1>2, <1>7 DEF CopyTurn, HasFile
  <2>3. up # "down"
    BY <1>7 DEF CopyTurn, Lives, Writing
  <2>4. Covers(mem.history, mem.ledger)
    BY <1>1, <1>2, <2>3, CoversLess
  <2>5. Kept(w)'
    BY <1>2, <1>7, <2>4 DEF CopyTurn, Saving
  <2>6. \A v \in Writers \ {w} : Kept(v)'
    BY <1>2, <1>7 DEF CopyTurn, Saving
  <2> QED
    BY <1>3, <2>1, <2>2, <2>5, <2>6
<1>8. ASSUME NEW w \in Writers, SaveTurn(w) PROVE SamplesCovered'
  <2>1. InMem'
    BY <1>6, <1>8 DEF SaveTurn
  <2>2. OnFile'
    BY <1>2, <1>8 DEF SaveTurn, HasFile
  <2>3. Kept(w)'
    BY <1>2, <1>8 DEF SaveTurn
  <2>4. \A v \in Writers \ {w} : Kept(v)'
    BY <1>2, <1>8 DEF SaveTurn, Saving
  <2> QED
    BY <1>3, <2>1, <2>2, <2>3, <2>4
<1>9. ASSUME NEW w \in Writers, EndTurn(w) PROVE SamplesCovered'
  <2>1. InMem'
    BY <1>6, <1>9 DEF EndTurn, Lives, Writing
  <2>2. \/ value' = value \/ value' = Torn
        \/ \E v \in Writers : Saving(v) /\ value' = offer[v]
    BY <1>9 DEF EndTurn
  <2>3. OnFile'
    BY <1>2, <2>2 DEF HasFile
  <2>4. \A v \in Writers : Kept(v)'
    BY <1>2, <1>9 DEF EndTurn, Saving
  <2> QED
    BY <1>3, <2>1, <2>3, <2>4
<1>10. ASSUME NEW w \in Writers, WriteTurn(w), BeginTurn(w) PROVE SamplesCovered'
  <2>1. InMem'
    BY <1>6, <1>10 DEF WriteTurn, BeginTurn, Serving
  <2>2. OnFile'
    BY <1>2, <1>10 DEF WriteTurn, HasFile
  <2>3. \A v \in Writers : Kept(v)'
    BY <1>2, <1>10, ZeroFields DEF WriteTurn, BeginTurn, Saving
  <2> QED
    BY <1>3, <2>1, <2>2, <2>3
<1>11. CASE StartTurn /\ BeginTurn("main")
  <2>1. PICK saved \in Sums :
          /\ IF HasFile THEN saved = value ELSE saved = Zero
          /\ mem'.stats = saved.stats /\ mem'.ledger = saved.ledger
          /\ \E order \in Orders :
                mem'.history = Backfilled(saved.history, saved.ledger, order)
    BY <1>11 DEF StartTurn
  <2>2. saved = OldFile \/ Covers(saved.history, saved.ledger)
    <3>1. CASE HasFile
      BY <1>2, <2>1, <3>1
    <3>2. CASE ~HasFile
      <4>1. saved.ledger = {} /\ \A d \in Days : saved.history[d] = 0
        BY <2>1, <3>2, ZeroFields
      <4>2. \A d : On(d, {}) = {}
        BY DEF On
      <4> QED
        BY <4>1, <4>2, FS_EmptySet DEF Covers
    <3> QED
      BY <3>1, <3>2
  <2>3. PICK order \in Orders : mem'.history = Backfilled(saved.history, saved.ledger, order)
    BY <2>1
  <2>4. Covers(mem'.history, mem'.ledger)
    BY <2>1, <2>2, <2>3, BackfillCovers
  <2>5. OnTheWay' = {}
    BY <1>11 DEF OnTheWay, StartTurn, BeginTurn, Lives, Serving, Under
  <2>6. InMem'
    BY <2>4, <2>5
  <2>7. OnFile'
    BY <1>2, <1>11 DEF StartTurn, HasFile
  <2>8. \A v \in Writers : Kept(v)'
    BY <1>2, <1>11, ZeroFields, ConstantTypes
       DEF StartTurn, BeginTurn, Lives, Writing, Saving
  <2> QED
    BY <1>3, <2>6, <2>7, <2>8
<1>12. CASE ClearTurn
  <2>1. OnTheWay' = OnTheWay
    BY <1>12 DEF ClearTurn, OnTheWay
  <2>2. InMem'
    BY <1>2, <1>12, <2>1 DEF ClearTurn
  <2>3. OnFile'
    BY <1>2, <1>12 DEF ClearTurn, HasFile
  <2>4. \A v \in Writers : Kept(v)'
    BY <1>2, <1>12 DEF ClearTurn, Saving
  <2> QED
    BY <1>3, <2>2, <2>3, <2>4
<1>13. CASE GoneTurn
  <2>1. InMem'
    BY <1>13 DEF GoneTurn
  <2>2. OnFile'
    BY <1>2, <1>13 DEF GoneTurn, HasFile
  <2>3. \A v \in Writers : Kept(v)'
    BY <1>13 DEF GoneTurn, Saving
  <2> QED
    BY <1>3, <2>1, <2>2, <2>3
<1>14. CASE UNCHANGED vars
  <2>1. InMem'
    BY <1>6, <1>14 DEF vars
  <2>2. OnFile' /\ \A v \in Writers : Kept(v)'
    BY <1>2, <1>14 DEF vars, regVars, HasFile, Saving
  <2> QED
    BY <1>3, <2>1, <2>2
<1> QED
  BY <1>5, <1>7, <1>8, <1>9, <1>10, <1>11, <1>12, <1>13, <1>14, StepIsTurn

(* A sample in the ledger is a request its day has counted, in every life  *)
(* of the process, provided the file of an earlier version can be filled   *)
(* (state.rs: record_success counts the day before the sample, snapshot    *)
(* copies the ledgers before the history; history.rs: backfill).           *)
THEOREM SamplesAreCounted ==
    ASSUME OldFileIsFillable PROVE Spec => []SamplesWereCounted
<1>1. Init => SamplesCovered
  BY SamplesInit
<1>2. IndInv /\ SamplesCovered /\ [Next]_vars => SamplesCovered'
  BY SamplesStep
<1>3. IndInv /\ SamplesCovered => SamplesWereCounted
  <2> SUFFICES ASSUME IndInv, SamplesCovered, up # "down" PROVE Covers(mem.history, mem.ledger)
    BY DEF SamplesWereCounted, Covers
  <2>1. /\ mem.history \in [Days -> Nat] /\ mem.ledger \in SUBSET Requests
        /\ OnTheWay \in SUBSET Requests
    BY SumsFields DEF IndInv, TypeOK, OnTheWay
  <2> QED
    BY <2>1, CoversLess DEF SamplesCovered
<1> QED
  BY <1>1, <1>2, <1>3, BaseInv, PTL DEF Spec

-----------------------------------------------------------------------------
(* One thread at a time                                                    *)

(* While no two threads have written at once, the file is never torn.      *)
OneWriter ==
    "overlap" \notin mishap =>
        /\ ~clash /\ value # Torn
        /\ \A v, w \in Writers : Writing(v) /\ Writing(w) => v = w

(* These totals have no less than the document.                            *)
NoLess(sums, doc) ==
    doc.ledger \subseteq sums.ledger /\ \A d \in Days : doc.history[d] <= sums.history[d]

(* What is copied is no more than memory, and no less than the file.       *)
FileGrows ==
    "overlap" \notin mishap =>
        /\ \A w \in Writers :
              /\ copy[w].part = "stats" => copy[w].doc = Zero
              /\ copy[w].part # "none" => NoLess(mem, copy[w].doc)
              /\ Saving(w) => NoLess(mem, offer[w])
        /\ HasFile =>
              /\ up # "down" => NoLess(mem, value)
              /\ \A w \in Writers :
                    /\ copy[w].part \in {"history", "save"} =>
                          value.ledger \subseteq copy[w].doc.ledger
                    /\ copy[w].part = "save" => NoLess(copy[w].doc, value)
                    /\ Saving(w) => NoLess(offer[w], value)

(* OneWriter is kept by every step.                                        *)
LEMMA OneWriterStep ==
    ASSUME IndInv, OneWriter, [Next]_vars PROVE OneWriter'
<1> USE DEF IndInv
<1>1. ASSUME NEW r \in Requests, CountFrame(r) PROVE OneWriter'
  BY <1>1 DEF CountFrame, OneWriter, Writing, Saving
<1>2. ASSUME NEW w \in Writers, CopyTurn(w) PROVE OneWriter'
  BY <1>2 DEF CopyTurn, OneWriter, Writing, Saving
<1>3. ASSUME NEW w \in Writers, SaveTurn(w) PROVE OneWriter'
  <2>1. \A v \in Writers : Writing(v)' => Writing(v)
    BY <1>3 DEF SaveTurn, Writing, Saving
  <2>2. "overlap" \notin mishap => ~clash'
    BY <1>3 DEF SaveTurn, OneWriter, Writing
  <2> QED
    BY <1>3, <2>1, <2>2 DEF SaveTurn, OneWriter
<1>4. ASSUME NEW w \in Writers, EndTurn(w) PROVE OneWriter'
  <2>1. \A v \in Writers : Writing(v)' => Writing(v)
    BY <1>4 DEF EndTurn, Writing, Saving
  <2>2. "overlap" \notin mishap' => "overlap" \notin mishap /\ ~clash' /\ value' # Torn
    BY <1>4, SavedAreDocs DEF EndTurn, OneWriter
  <2> QED
    BY <2>1, <2>2 DEF OneWriter
<1>5. ASSUME NEW w \in Writers, BeginTurn(w), value' = value \/ value' = NoDoc PROVE OneWriter'
  <2>1. "overlap" \notin mishap' => \A v \in Writers : ~Writing(v)
    BY <1>5 DEF BeginTurn
  <2>2. "overlap" \notin mishap' => "overlap" \notin mishap
    BY <1>5 DEF BeginTurn
  <2>3. \A v \in Writers \ {w} : Writing(v)' => Writing(v)
    BY <1>5 DEF BeginTurn, Writing, Saving
  <2> QED
    BY <1>5, <2>1, <2>2, <2>3, FileAssumption DEF BeginTurn, OneWriter
<1>6. StartTurn => value' = value \/ value' = NoDoc
  BY DEF StartTurn
<1>7. ASSUME NEW w \in Writers, WriteTurn(w) PROVE value' = value
  BY <1>7 DEF WriteTurn
<1>8. CASE ClearTurn
  BY <1>8 DEF ClearTurn, OneWriter, Writing, Saving
<1>9. CASE GoneTurn
  BY <1>9 DEF GoneTurn, OneWriter, Writing, Saving
<1>10. CASE UNCHANGED vars
  BY <1>10 DEF vars, regVars, OneWriter, Writing, Saving
<1> QED
  BY <1>1, <1>2, <1>3, <1>4, <1>5, <1>6, <1>7, <1>8, <1>9, <1>10, StepIsTurn, ConstantTypes

(* A document with no less than another that has no less than a third has  *)
(* no less than the third.                                                 *)
LEMMA NoLessThrough ==
    ASSUME NEW a \in Sums, NEW b \in Sums, NEW c \in Sums, NoLess(a, b), NoLess(b, c)
    PROVE  NoLess(a, c)
<1>1. /\ a.history \in [Days -> Nat] /\ b.history \in [Days -> Nat]
      /\ c.history \in [Days -> Nat]
  BY SumsFields
<1> QED
  BY <1>1 DEF NoLess

(* NoLess depends only on the ledger and the history.                      *)
LEMMA NoLessThanItself ==
    ASSUME NEW a \in Sums, NEW b \in Sums, b.ledger = a.ledger, b.history = a.history
    PROVE  NoLess(a, b) /\ NoLess(b, a) /\ NoLess(a, Zero)
<1>1. a.history \in [Days -> Nat]
  BY SumsFields
<1> QED
  BY <1>1, ZeroFields DEF NoLess

(* Memory loses nothing while the process lives.                           *)
LEMMA MemoryGrows ==
    ASSUME IndInv, [Next]_vars, up # "down", up' # "down"
    PROVE  NoLess(mem', mem)
<1> USE DEF IndInv
<1>1. mem \in Sums /\ mem' \in Sums /\ mem.history \in [Days -> Nat]
  BY TypeStep, SumsFields DEF TypeOK
<1>2. CASE mem'.ledger = mem.ledger /\ mem'.history = mem.history
  BY <1>1, <1>2, NoLessThanItself
<1>3. ASSUME NEW r \in Requests, CountFrame(r),
             StatsTurn(r) \/ DayTurn(r) \/ SampleTurn(r) \/ DirtyTurn(r)
      PROVE  NoLess(mem', mem)
  <2>1. CASE StatsTurn(r) \/ DirtyTurn(r)
    BY <1>2, <2>1 DEF StatsTurn, DirtyTurn
  <2>2. CASE DayTurn(r)
    BY <1>1, <2>2 DEF DayTurn, NoLess
  <2>3. CASE SampleTurn(r)
    BY <1>1, <2>3 DEF SampleTurn, NoLess
  <2> QED
    BY <1>3, <2>1, <2>2, <2>3
<1>4. ASSUME NEW w \in Writers, CopyTurn(w) \/ SaveTurn(w) \/ EndTurn(w) \/ WriteTurn(w)
      PROVE  mem' = mem
  BY <1>4 DEF CopyTurn, SaveTurn, EndTurn, WriteTurn
<1>5. ClearTurn => mem'.ledger = mem.ledger /\ mem'.history = mem.history
  BY DEF ClearTurn
<1>6. ~StartTurn /\ ~GoneTurn
  BY DEF StartTurn, GoneTurn
<1>7. UNCHANGED vars => mem' = mem
  BY DEF vars
<1> QED
  BY <1>2, <1>3, <1>4, <1>5, <1>6, <1>7, StepIsTurn

(* FileGrows is kept by every step.                                        *)
LEMMA FileGrowsStep ==
    ASSUME IndInv, OneWriter, FileGrows, [Next]_vars PROVE FileGrows'
<1> USE DEF IndInv
<1> SUFFICES ASSUME "overlap" \notin mishap' PROVE FileGrows'
  BY DEF FileGrows
<1>1. /\ mem \in Sums /\ mem' \in Sums
      /\ \A w \in Writers : /\ copy[w].doc \in Sums
                            /\ Saving(w) => offer[w] \in Sums
      /\ HasFile => value \in Sums
  BY TypeStep, SavedAreDocs DEF TypeOK
<1>2. "overlap" \notin mishap
  <2>1. ASSUME NEW w \in Writers, CopyTurn(w) \/ SaveTurn(w) \/ EndTurn(w) \/ BeginTurn(w)
        PROVE  mishap \subseteq mishap'
    BY <2>1 DEF CopyTurn, SaveTurn, EndTurn, BeginTurn
  <2>2. ASSUME NEW r \in Requests, CountFrame(r) PROVE mishap \subseteq mishap'
    BY <2>2 DEF CountFrame
  <2>3. ClearTurn \/ GoneTurn \/ UNCHANGED vars => mishap \subseteq mishap'
    BY DEF ClearTurn, GoneTurn, vars
  <2>4. mishap \subseteq mishap'
    BY <2>1, <2>2, <2>3, StepIsTurn, ConstantTypes
  <2> QED
    BY <2>4
<1>3. ~clash /\ value # Torn /\ \A v, w \in Writers : Writing(v) /\ Writing(w) => v = w
  BY <1>2 DEF OneWriter
<1> DEFINE Behind(w) == /\ copy[w].part = "stats" => copy[w].doc = Zero
                        /\ copy[w].part # "none" => NoLess(mem, copy[w].doc)
                        /\ Saving(w) => NoLess(mem, offer[w])
           Ahead(w) == /\ copy[w].part \in {"history", "save"} =>
                             value.ledger \subseteq copy[w].doc.ledger
                       /\ copy[w].part = "save" => NoLess(copy[w].doc, value)
                       /\ Saving(w) => NoLess(offer[w], value)
<1>4. /\ \A w \in Writers : Behind(w)
      /\ HasFile => (up # "down" => NoLess(mem, value)) /\ \A w \in Writers : Ahead(w)
  BY <1>2 DEF FileGrows
<1>5. ASSUME \A w \in Writers : Behind(w)',
             HasFile' => (up' # "down" => NoLess(mem', value')) /\ \A w \in Writers : Ahead(w)'
      PROVE  FileGrows'
  BY <1>5 DEF FileGrows
(* Memory grows, and nobody copies or saves.                               *)
<1>6. ASSUME NoLess(mem', mem), copy' = copy, offer' = offer, value' = value,
             up # "down"
      PROVE  FileGrows'
  <2>1. \A w \in Writers : Behind(w)'
    <3> TAKE w \in Writers
    <3>1. copy[w].part # "none" => NoLess(mem', copy[w].doc)
      BY <1>1, <1>4, <1>6, NoLessThrough
    <3>2. Saving(w) => NoLess(mem', offer[w])
      BY <1>1, <1>4, <1>6, NoLessThrough
    <3> QED
      BY <1>4, <1>6, <3>1, <3>2 DEF Saving
  <2>2. HasFile => NoLess(mem', value)
    BY <1>1, <1>4, <1>6, NoLessThrough
  <2>3. HasFile' => NoLess(mem', value') /\ \A w \in Writers : Ahead(w)'
    BY <1>4, <1>6, <2>2 DEF HasFile, Saving
  <2> QED
    BY <1>5, <2>1, <2>3
<1>7. ASSUME NEW r \in Requests, CountFrame(r) PROVE FileGrows'
  <2>1. up # "down" /\ up' # "down"
    BY <1>7 DEF CountFrame, Serving
  <2> QED
    BY <1>6, <1>7, <2>1, MemoryGrows DEF CountFrame
<1>8. CASE ClearTurn
  <2>1. up # "down" /\ up' # "down"
    BY <1>8 DEF ClearTurn, Serving
  <2> QED
    BY <1>6, <1>8, <2>1, MemoryGrows DEF ClearTurn
<1>9. ASSUME NEW w \in Writers, CopyTurn(w) PROVE FileGrows'
  <2>1. up # "down" /\ \A v \in Writers \ {w} : ~Writing(v)
    BY <1>3, <1>9 DEF CopyTurn, Lives, Writing
  <2>2. HasFile => NoLess(mem, value)
    BY <1>4, <2>1
  <2>3. ~Saving(w) /\ ~Saving(w)'
    BY <1>9 DEF Lives, CopyTurn, Saving
  <2>4. \A v \in Writers \ {w} : copy'[v].part = "none" /\ ~Saving(v)'
    BY <1>9, <2>1 DEF CopyTurn, Writing, Saving
  <2>5. Behind(w)'
    <3>1. copy'[w].part # "stats"
      BY <1>9 DEF CopyTurn
    <3>2. NoLess(mem, copy[w].doc) /\ mem.history \in [Days -> Nat]
      BY <1>1, <1>4, <1>9, SumsFields DEF CopyTurn
    <3>3. NoLess(mem, copy'[w].doc)
      BY <1>9, <3>2 DEF CopyTurn, NoLess
    <3> QED
      BY <1>9, <2>3, <3>1, <3>3 DEF CopyTurn
  <2>6. HasFile' => HasFile /\ Ahead(w)'
    BY <1>4, <1>9, <2>2, <2>3 DEF CopyTurn, NoLess, HasFile
  <2>7. \A v \in Writers : Behind(v)'
    BY <2>4, <2>5
  <2>8. HasFile' => NoLess(mem', value') /\ \A v \in Writers : Ahead(v)'
    BY <1>9, <2>2, <2>4, <2>6 DEF CopyTurn, HasFile
  <2> QED
    BY <1>5, <2>7, <2>8
<1>10. ASSUME NEW w \in Writers, SaveTurn(w) PROVE FileGrows'
  <2>1. \A v \in Writers : Behind(v)'
    BY <1>4, <1>10 DEF SaveTurn, Saving
  <2>2. HasFile' => \A v \in Writers : Ahead(v)'
    BY <1>4, <1>10 DEF SaveTurn, Saving, HasFile
  <2>3. HasFile' => (up' # "down" => NoLess(mem', value'))
    BY <1>4, <1>10 DEF SaveTurn, HasFile
  <2> QED
    BY <1>5, <2>1, <2>2, <2>3
<1>11. ASSUME NEW w \in Writers, EndTurn(w) PROVE FileGrows'
  <2>1. /\ up # "down" /\ Saving(w) /\ copy[w].part = "none"
        /\ \A v \in Writers \ {w} : ~Writing(v)
    BY <1>3, <1>11 DEF EndTurn, Lives, Writing
  <2>2. \A v \in Writers : copy'[v].part = "none" /\ ~Saving(v)'
    BY <1>11, <2>1 DEF EndTurn, Writing, Saving
  <2>3. \A v \in Writers : Behind(v)' /\ Ahead(v)'
    BY <2>2
  <2>4. value' = value \/ value' = offer[w]
    BY <1>3, <1>11 DEF EndTurn
  <2>5. HasFile' => NoLess(mem', value')
    BY <1>4, <1>11, <2>1, <2>4 DEF EndTurn, HasFile
  <2> QED
    BY <1>5, <2>3, <2>5
<1>12. ASSUME NEW w \in Writers, BeginTurn(w)
       PROVE  /\ \A v \in Writers : ~Writing(v) /\ ~Saving(v)'
              /\ \A v \in Writers : copy'[v].part # "none" => v = w
              /\ copy'[w].part = "stats" /\ copy'[w].doc = Zero
  BY <1>12 DEF BeginTurn, Writing, Saving
<1>13. NoLess(mem', Zero)
  BY <1>1, NoLessThanItself
<1>14. ASSUME NEW w \in Writers, BeginTurn(w)
       PROVE  \A v \in Writers : Behind(v)' /\ Ahead(v)'
  BY <1>12, <1>13, <1>14
<1>15. ASSUME NEW w \in Writers, WriteTurn(w), BeginTurn(w) PROVE FileGrows'
  <2>1. HasFile' => NoLess(mem', value')
    BY <1>4, <1>15 DEF WriteTurn, Serving, HasFile
  <2> QED
    BY <1>5, <1>14, <1>15, <2>1
<1>16. CASE StartTurn /\ BeginTurn("main")
  <2>1. PICK saved \in Sums :
          /\ IF HasFile THEN saved = value ELSE saved = Zero
          /\ mem'.stats = saved.stats /\ mem'.ledger = saved.ledger
          /\ \E order \in Orders :
                mem'.history = Backfilled(saved.history, saved.ledger, order)
    BY <1>16 DEF StartTurn
  <2>2. PICK order \in Orders : mem'.history = Backfilled(saved.history, saved.ledger, order)
    BY <2>1
  <2>3. NoLess(mem', saved)
    <3>1. /\ mem'.history \in [Days -> Nat] /\ saved.history \in [Days -> Nat]
          /\ \A d \in Days : mem'.history[d] >= saved.history[d]
      BY <1>1, <2>2, SumsFields, BackfillFills
    <3> QED
      BY <2>1, <3>1 DEF NoLess
  <2>4. HasFile' => value' = value /\ HasFile
    BY <1>16 DEF StartTurn, HasFile
  <2>5. HasFile' => NoLess(mem', value')
    BY <2>1, <2>3, <2>4
  <2> QED
    BY <1>5, <1>14, <1>16, <2>5, ConstantTypes
<1>17. CASE GoneTurn
  <2>1. \A w \in Writers : copy'[w].part = "none" /\ ~Saving(w)' /\ up' = "down"
    BY <1>17 DEF GoneTurn, Saving
  <2> QED
    BY <1>5, <1>17, <2>1 DEF GoneTurn
<1>18. CASE UNCHANGED vars
  BY <1>18 DEF vars, regVars, FileGrows, HasFile, Saving
<1> QED
  BY <1>7, <1>8, <1>9, <1>10, <1>11, <1>15, <1>16, <1>17, <1>18, StepIsTurn

(* OneWriter and FileGrows hold at the start.                              *)
LEMMA AloneInit == Init => OneWriter /\ FileGrows
BY FileAssumption DEF Init, RegisterInit, OneWriter, FileGrows, NotCopying, Writing, Saving,
   HasFile

(* OneWriter and FileGrows hold always.                                    *)
LEMMA AloneInv == Spec => [](OneWriter /\ FileGrows)
<1>1. Init => OneWriter /\ FileGrows
  BY AloneInit
<1>2. IndInv /\ (OneWriter /\ FileGrows) /\ [Next]_vars => (OneWriter /\ FileGrows)'
  BY OneWriterStep, FileGrowsStep
<1> QED
  BY <1>1, <1>2, BaseInv, PTL DEF Spec

(* While one thread at a time writes, the file never goes back: no crash,  *)
(* failed save, stop or reset takes away a day's count or a sample that    *)
(* was on file (state.rs: snapshot, restore; persist.rs: save).            *)
THEOREM TheFileNeverGoesBack == Spec => FileNeverGoesBack
<1> DEFINE Grows == HasFile /\ "overlap" \notin mishap' =>
                       /\ HasFile'
                       /\ value.ledger \subseteq value'.ledger
                       /\ \A d \in Days : value.history[d] <= value'.history[d]
<1>1. ASSUME IndInv, OneWriter, FileGrows, [Next]_vars PROVE Grows
  <2> SUFFICES ASSUME HasFile, "overlap" \notin mishap'
               PROVE  /\ HasFile'
                      /\ value.ledger \subseteq value'.ledger
                      /\ \A d \in Days : value.history[d] <= value'.history[d]
    OBVIOUS
  <2>1. value \in Sums /\ value.history \in [Days -> Nat]
    BY <1>1, SavedAreDocs, SumsFields
  <2>2. CASE value' = value
    BY <2>1, <2>2 DEF HasFile
  <2>3. ASSUME NEW w \in Writers, EndTurn(w) PROVE value' = value \/ NoLess(value', value)
    <3>1. "overlap" \notin mishap
      BY <2>3 DEF EndTurn
    <3>2. ~clash /\ (Saving(w) => NoLess(offer[w], value))
      BY <1>1, <3>1 DEF OneWriter, FileGrows
    <3> QED
      BY <2>3, <3>2 DEF EndTurn
  <2>4. ASSUME NEW w \in Writers, EndTurn(w) PROVE HasFile'
    <3>1. ~clash
      BY <1>1, <2>4 DEF OneWriter, EndTurn
    <3> QED
      BY <1>1, <2>4, <3>1, SavedAreDocs DEF EndTurn, HasFile
  <2>5. ASSUME NEW w \in Writers, CopyTurn(w) \/ SaveTurn(w) \/ WriteTurn(w)
        PROVE  value' = value
    BY <2>5 DEF CopyTurn, SaveTurn, WriteTurn
  <2>6. ASSUME NEW r \in Requests, CountFrame(r) PROVE value' = value
    BY <2>6 DEF CountFrame
  <2>7. StartTurn \/ ClearTurn => value' = value
    BY DEF StartTurn, ClearTurn, HasFile
  <2>8. GoneTurn => value' = value
    BY <1>1 DEF GoneTurn, OneWriter
  <2>9. UNCHANGED vars => value' = value
    BY DEF vars, regVars
  <2>10. TypeOK /\ (Next \/ UNCHANGED vars)
    BY <1>1 DEF IndInv
  <2>11. \/ value' = value
         \/ HasFile' /\ NoLess(value', value)
    BY <2>3, <2>4, <2>5, <2>6, <2>7, <2>8, <2>9, <2>10, StepIsTurn
  <2> QED
    BY <2>2, <2>11 DEF NoLess
<1>2. IndInv /\ (OneWriter /\ FileGrows) /\ [Next]_vars =>
         [HasFile /\ "overlap" \notin mishap' =>
             /\ HasFile'
             /\ value.ledger \subseteq value'.ledger
             /\ \A d \in Days : value.history[d] <= value'.history[d]]_vars
  BY <1>1
<1> QED
  BY <1>2, BaseInv, AloneInv, PTL DEF Spec, FileNeverGoesBack

-----------------------------------------------------------------------------
(* The console's reset                                                     *)

(* A request still to come is in no total and was not taken away.          *)
NotYet ==
    \A r \in Requests : req[r] = "coming" =>
        /\ r \notin mem.stats /\ r \notin cleared
        /\ \A w \in Writers : r \notin copy[w].doc.stats /\ (Saving(w) => r \notin offer[w].stats)
        /\ HasFile => r \notin value.stats

Rid(stats) == stats \cap cleared = {}

Undisturbed == mishap \cap {"overlap", "failed"} = {}

(* From the moment the reset has cleared the statistics, first memory and  *)
(* what the console writes is rid of them, then all that is written.       *)
ResetHolds ==
    /\ reset = "coming" => cleared = {}
    /\ reset # "write" => ~Writing("console")
    /\ reset = "write" =>
          /\ Serving /\ Rid(mem.stats)
          /\ copy["console"].part # "none" => Rid(copy["console"].doc.stats)
          /\ Saving("console") => Rid(offer["console"].stats)
    /\ reset = "returned" /\ Undisturbed =>
          /\ HasFile /\ Rid(value.stats) /\ Rid(mem.stats)
          /\ \A w \in Writers : /\ copy[w].part # "none" => Rid(copy[w].doc.stats)
                                /\ Saving(w) => Rid(offer[w].stats)

(* NotYet is kept by every step.                                           *)
LEMMA NotYetStep ==
    ASSUME IndInv, NotYet, [Next]_vars PROVE NotYet'
<1> USE DEF IndInv
<1>1. ASSUME NEW r \in Requests, CountFrame(r),
             StatsTurn(r) \/ DayTurn(r) \/ SampleTurn(r) \/ DirtyTurn(r)
      PROVE  NotYet'
  <2>1. \A x \in Requests : req'[x] = "coming" => x # r /\ req[x] = "coming"
    BY <1>1 DEF CountFrame, StatsTurn, DayTurn, SampleTurn, DirtyTurn
  <2>2. \A x \in Requests \ {r} : x \in mem'.stats => x \in mem.stats
    BY <1>1 DEF StatsTurn, DayTurn, SampleTurn, DirtyTurn
  <2> QED
    BY <1>1, <2>1, <2>2 DEF NotYet, CountFrame, Saving, HasFile
<1>2. ASSUME NEW w \in Writers, CopyTurn(w) PROVE NotYet'
  <2>1. copy'[w].doc.stats \in {mem.stats, copy[w].doc.stats}
    BY <1>2 DEF CopyTurn
  <2> QED
    BY <1>2, <2>1 DEF NotYet, CopyTurn, Saving, HasFile
<1>3. ASSUME NEW w \in Writers, SaveTurn(w) PROVE NotYet'
  BY <1>3, ZeroFields DEF NotYet, SaveTurn, Saving, HasFile
<1>4. ASSUME NEW w \in Writers, EndTurn(w) PROVE NotYet'
  <2>1. \/ value' = value \/ value' = Torn
        \/ \E v \in Writers : Saving(v) /\ value' = offer[v]
    BY <1>4 DEF EndTurn
  <2> QED
    BY <1>4, <2>1 DEF NotYet, EndTurn, Saving, HasFile
<1>5. ASSUME NEW w \in Writers, WriteTurn(w), BeginTurn(w) PROVE NotYet'
  BY <1>5, ZeroFields DEF NotYet, WriteTurn, BeginTurn, Saving, HasFile
<1>6. CASE StartTurn /\ BeginTurn("main")
  <2>1. PICK saved \in Sums :
          /\ IF HasFile THEN saved = value ELSE saved = Zero
          /\ mem'.stats = saved.stats
    BY <1>6 DEF StartTurn
  <2> QED
    BY <1>6, <2>1, ZeroFields, ConstantTypes DEF NotYet, StartTurn, BeginTurn, Saving, HasFile
<1>7. CASE ClearTurn
  <2>1. \A r \in mem'.stats \cup cleared' : r \in mem.stats \cup cleared
    BY <1>7 DEF ClearTurn
  <2> QED
    BY <1>7, <2>1 DEF NotYet, ClearTurn, Saving, HasFile
<1>8. CASE GoneTurn
  BY <1>8, ZeroFields DEF NotYet, GoneTurn, Saving, HasFile
<1>9. CASE UNCHANGED vars
  BY <1>9 DEF NotYet, vars, regVars, Saving, HasFile
<1> QED
  BY <1>1, <1>2, <1>3, <1>4, <1>5, <1>6, <1>7, <1>8, <1>9, StepIsTurn

(* ResetHolds is kept by every step.                                       *)
LEMMA ResetHoldsStep ==
    ASSUME IndInv, OneWriter, NotYet, ResetHolds, [Next]_vars PROVE ResetHolds'
<1> USE DEF IndInv
<1>1. "console" \in Writers
  BY ConstantTypes
<1> DEFINE Before == reset = "coming" => cleared = {}
           Idle == reset # "write" => ~Writing("console")
           During == reset = "write" =>
                        /\ Serving /\ Rid(mem.stats)
                        /\ copy["console"].part # "none" => Rid(copy["console"].doc.stats)
                        /\ Saving("console") => Rid(offer["console"].stats)
           Mem == reset = "returned" /\ Undisturbed => Rid(mem.stats)
           File == reset = "returned" /\ Undisturbed => HasFile /\ Rid(value.stats)
           Pens == reset = "returned" /\ Undisturbed =>
                      \A w \in Writers : /\ copy[w].part # "none" => Rid(copy[w].doc.stats)
                                         /\ Saving(w) => Rid(offer[w].stats)
<1>2. ResetHolds <=> Before /\ Idle /\ During /\ Mem /\ File /\ Pens
  BY DEF ResetHolds
<1>3. Before /\ Idle /\ During /\ Mem /\ File /\ Pens
  BY <1>2
<1>4. ResetHolds' <=> Before' /\ Idle' /\ During' /\ Mem' /\ File' /\ Pens'
  BY DEF ResetHolds
<1>5. ASSUME NEW r \in Requests, CountFrame(r),
             StatsTurn(r) \/ DayTurn(r) \/ SampleTurn(r) \/ DirtyTurn(r)
      PROVE  ResetHolds'
  <2>1. Rid(mem.stats) => Rid(mem.stats)'
    <3>1. mem'.stats = mem.stats \/ (req[r] = "coming" /\ mem'.stats = mem.stats \cup {r})
      BY <1>5 DEF StatsTurn, DayTurn, SampleTurn, DirtyTurn
    <3> QED
      BY <1>5, <3>1 DEF NotYet, Rid, CountFrame
  <2>2. Before' /\ Idle' /\ File' /\ Pens'
    BY <1>3, <1>5 DEF CountFrame, Writing, Saving, HasFile, Undisturbed, Rid
  <2>3. During' /\ Mem'
    BY <1>1, <1>3, <1>5, <2>1 DEF CountFrame, Saving, Undisturbed, Rid, Serving
  <2> QED
    BY <1>4, <2>2, <2>3
<1>6. ASSUME NEW w \in Writers, CopyTurn(w) PROVE ResetHolds'
  <2>1. copy'[w].doc.stats \in {mem.stats, copy[w].doc.stats} /\ copy[w].part # "none"
    BY <1>6 DEF CopyTurn
  <2>2. Before' /\ Mem' /\ File'
    BY <1>3, <1>6 DEF CopyTurn, HasFile, Undisturbed, Rid
  <2>3. Idle'
    BY <1>1, <1>3, <1>6 DEF CopyTurn, Writing, Saving
  <2>4. During'
    BY <1>1, <1>3, <1>6, <2>1 DEF CopyTurn, Saving, Rid, Serving
  <2>5. Pens'
    BY <1>3, <1>6, <2>1 DEF CopyTurn, Saving, Rid, Undisturbed
  <2> QED
    BY <1>4, <2>2, <2>3, <2>4, <2>5
<1>7. ASSUME NEW w \in Writers, SaveTurn(w) PROVE ResetHolds'
  <2>1. Before' /\ Mem' /\ File'
    BY <1>3, <1>7 DEF SaveTurn, HasFile, Undisturbed, Rid
  <2>2. Idle'
    BY <1>1, <1>3, <1>7 DEF SaveTurn, Writing, Saving
  <2>3. During'
    BY <1>1, <1>3, <1>7 DEF SaveTurn, Saving, Rid, Serving
  <2>4. Pens'
    BY <1>3, <1>7 DEF SaveTurn, Saving, Rid, Undisturbed
  <2> QED
    BY <1>4, <2>1, <2>2, <2>3, <2>4
<1>8. ASSUME NEW w \in Writers, EndTurn(w), w # "console" PROVE ResetHolds'
  <2>1. reset' = reset /\ (Undisturbed' => value' = offer[w])
    <3>1. Undisturbed' => ~clash
      BY <1>8 DEF Undisturbed, OneWriter, EndTurn
    <3> QED
      BY <1>8, <3>1 DEF EndTurn, Undisturbed
  <2>2. Undisturbed' => Undisturbed
    BY <1>8 DEF EndTurn, Undisturbed
  <2>3. Before' /\ Mem'
    BY <1>3, <1>8, <2>1, <2>2 DEF EndTurn, Rid
  <2>4. Idle'
    BY <1>1, <1>3, <1>8, <2>1 DEF EndTurn, Writing, Saving
  <2>5. During'
    BY <1>1, <1>3, <1>8, <2>1 DEF EndTurn, Saving, Rid, Serving
  <2>6. Saving(w) => offer[w] # NoDoc /\ offer[w] # Torn
    BY SavedAreDocs
  <2>7. File'
    BY <1>3, <1>8, <2>1, <2>2, <2>6 DEF EndTurn, Rid, HasFile
  <2>8. Pens'
    BY <1>3, <1>8, <2>1, <2>2 DEF EndTurn, Saving, Rid
  <2> QED
    BY <1>4, <2>3, <2>4, <2>5, <2>7, <2>8
<1>9. CASE EndTurn("console")
  <2>1. /\ Saving("console") /\ Writing("console") /\ copy["console"].part = "none"
        /\ reset' = "returned" /\ ~Saving("console")'
    BY <1>1, <1>9 DEF EndTurn, Writing, Lives
  <2>2. reset = "write" /\ Rid(mem.stats) /\ Rid(offer["console"].stats)
    BY <1>3, <2>1
  <2>3. Undisturbed' => /\ value' = offer["console"]
                        /\ \A v \in Writers \ {"console"} : ~Writing(v)
    <3>1. Undisturbed' => "overlap" \notin mishap
      BY <1>9 DEF Undisturbed, EndTurn
    <3>2. Undisturbed' => ~clash /\ \A v \in Writers \ {"console"} : ~Writing(v)
      BY <1>1, <2>1, <3>1 DEF OneWriter
    <3> QED
      BY <1>9, <3>2 DEF EndTurn, Undisturbed
  <2>4. Before' /\ During'
    BY <2>1
  <2>5. Idle'
    BY <1>9, <2>1 DEF EndTurn, Writing
  <2>6. Mem' /\ File'
    BY <1>1, <1>9, <2>1, <2>2, <2>3, SavedAreDocs DEF EndTurn, Rid, HasFile
  <2>7. Pens'
    BY <1>9, <2>1, <2>3 DEF EndTurn, Writing, Saving
  <2> QED
    BY <1>4, <2>4, <2>5, <2>6, <2>7
<1>10. ASSUME NEW w \in Writers, BeginTurn(w), w = "console" => reset = "write"
       PROVE  /\ Before' /\ Idle' /\ Pens'
              /\ copy'["console"].part # "none" =>
                    copy'["console"] = copy["console"] \/ copy'["console"].doc = Zero
              /\ offer' = offer /\ cleared' = cleared /\ reset' = reset
              /\ Undisturbed' => Undisturbed
  <2>1. /\ offer' = offer /\ cleared' = cleared /\ reset' = reset
        /\ Undisturbed' => Undisturbed
    BY <1>10 DEF BeginTurn, Undisturbed
  <2>2. Before' /\ Idle'
    BY <1>1, <1>3, <1>10, <2>1 DEF BeginTurn, Writing, Saving
  <2>3. Pens'
    BY <1>3, <1>10, <2>1, ZeroFields DEF BeginTurn, Saving, Rid
  <2> QED
    BY <1>1, <1>10, <2>1, <2>2, <2>3 DEF BeginTurn
<1>11. ASSUME NEW w \in Writers, WriteTurn(w), BeginTurn(w) PROVE ResetHolds'
  <2>1. w = "console" => reset = "write"
    BY <1>11 DEF WriteTurn
  <2>2. /\ Before' /\ Idle' /\ Pens'
        /\ copy'["console"].part # "none" =>
              copy'["console"] = copy["console"] \/ copy'["console"].doc = Zero
        /\ offer' = offer /\ cleared' = cleared /\ reset' = reset
        /\ Undisturbed' => Undisturbed
    BY <1>10, <1>11, <2>1
  <2>3. value' = value /\ mem' = mem /\ Serving'
    BY <1>11 DEF WriteTurn
  <2>4. Mem' /\ File'
    BY <1>3, <2>2, <2>3 DEF Rid, HasFile
  <2>5. During'
    BY <1>3, <2>2, <2>3, ZeroFields DEF Rid, Saving
  <2> QED
    BY <1>4, <2>2, <2>4, <2>5
<1>12. CASE StartTurn /\ BeginTurn("main")
  <2>1. reset # "write" /\ reset' = reset
    BY <1>3, <1>12 DEF StartTurn, Serving, BeginTurn
  <2>2. Before' /\ Idle' /\ Pens' /\ cleared' = cleared /\ (Undisturbed' => Undisturbed)
    BY <1>10, <1>12, ConstantTypes
  <2>3. During'
    BY <2>1
  <2>4. HasFile => value' = value /\ HasFile' /\ mem'.stats = value.stats
    BY <1>12 DEF StartTurn, HasFile
  <2>5. Mem' /\ File'
    BY <1>3, <2>1, <2>2, <2>4 DEF Rid
  <2> QED
    BY <1>4, <2>2, <2>3, <2>5
<1>13. CASE ClearTurn
  <2>1. Idle' /\ File' /\ Pens'
    BY <1>1, <1>3, <1>13 DEF ClearTurn, Writing, Saving, HasFile, Rid, Undisturbed
  <2>2. Before'
    BY <1>3, <1>13 DEF ClearTurn
  <2>3. During' /\ Mem'
    BY <1>1, <1>3, <1>13 DEF ClearTurn, Writing, Saving, Rid, Undisturbed, Serving
  <2> QED
    BY <1>4, <2>1, <2>2, <2>3
<1>14. CASE GoneTurn
  <2>1. /\ \A w \in Writers : copy'[w].part = "none" /\ ~Saving(w)'
        /\ mem' = Zero /\ cleared' = cleared /\ mishap' = mishap
    BY <1>14 DEF GoneTurn, Saving
  <2>2. reset' # "write" /\ (reset' \in {"coming", "returned"} => reset' = reset)
    BY <1>14 DEF GoneTurn
  <2>3. Before' /\ Idle' /\ During' /\ Mem' /\ Pens'
    BY <1>1, <1>3, <2>1, <2>2, ZeroFields DEF Writing, Rid
  <2>4. File'
    BY <1>3, <1>14, <2>1, <2>2 DEF GoneTurn, OneWriter, Undisturbed, HasFile, Rid
  <2> QED
    BY <1>4, <2>3, <2>4
<1>15. CASE UNCHANGED vars
  <2>1. Before' /\ Idle' /\ During' /\ Mem' /\ File' /\ Pens'
    BY <1>3, <1>15 DEF vars, regVars, Writing, Saving, HasFile, Rid, Undisturbed, Serving
  <2> QED
    BY <1>4, <2>1
<1> QED
  BY <1>5, <1>6, <1>7, <1>8, <1>9, <1>11, <1>12, <1>13, <1>14, <1>15, StepIsTurn

(* NotYet and ResetHolds hold at the start.                                *)
LEMMA ResetInit == Init => NotYet /\ ResetHolds
<1> SUFFICES ASSUME Init PROVE NotYet /\ ResetHolds
  OBVIOUS
<1>1. /\ mem = Zero /\ cleared = {} /\ reset = "coming" /\ value \in {OldFile, NoDoc}
      /\ \A w \in Writers : ~Saving(w) /\ copy[w].part = "none" /\ copy[w].doc = Zero
      /\ \A r \in Requests : req[r] = "coming" => r \notin OldRequests
  BY DEF Init, RegisterInit, NotCopying, Saving
<1>2. NotYet
  BY <1>1, ZeroFields, FileAssumption DEF NotYet, HasFile
<1>3. ResetHolds
  BY <1>1, ConstantTypes DEF ResetHolds, Writing
<1> QED
  BY <1>2, <1>3

(* What the console's reset took away stays away, in memory and on file,   *)
(* through restarts, once it has answered, no save failed and no other     *)
(* thread was writing (api.rs: reset_stats; state.rs: restore).            *)
THEOREM TheResetSticks == Spec => []ResetSticks
<1>1. Init => NotYet /\ ResetHolds
  BY ResetInit
<1>2. IndInv /\ (OneWriter /\ FileGrows) /\ (NotYet /\ ResetHolds) /\ [Next]_vars =>
         (NotYet /\ ResetHolds)'
  BY NotYetStep, ResetHoldsStep
<1>3. NotYet /\ ResetHolds => ResetSticks
  BY DEF ResetHolds, ResetSticks, Undisturbed, Rid
<1> QED
  BY <1>1, <1>2, <1>3, BaseInv, AloneInv, PTL DEF Spec

-----------------------------------------------------------------------------
(* Nothing is left behind                                                  *)

(* The statistics, and the sample, of a request are on their way to the    *)
(* file: they will be copied yet, or they are copied; or they are on it.   *)
StatsFollow(r) ==
    \/ \E w \in Writers :
          \/ copy[w].part = "stats"
          \/ copy[w].part \in {"ledgers", "history", "save"} /\ r \in copy[w].doc.stats
          \/ Saving(w) /\ r \in offer[w].stats
    \/ (\A w \in Writers : ~Writing(w)) /\ HasFile /\ r \in value.stats

SampleFollows(r) ==
    \/ \E w \in Writers :
          \/ copy[w].part \in {"stats", "ledgers"}
          \/ copy[w].part \in {"history", "save"} /\ r \in copy[w].doc.ledger
          \/ Saving(w) /\ r \in offer[w].ledger
    \/ (\A w \in Writers : ~Writing(w)) /\ HasFile /\ r \in value.ledger

(* While nothing disturbs the saving, what is done and not marked dirty    *)
(* follows, and the process serves only with a file.                       *)
DoneFollows ==
    mishap = {} =>
        /\ Serving => HasFile
        /\ up # "down" /\ ~dirty =>
              \A r \in Requests : req[r] = "done" =>
                 /\ r \in mem.stats => StatsFollow(r)
                 /\ r \in mem.ledger => SampleFollows(r)

(* DoneFollows holds at the start.                                         *)
LEMMA DoneInit == Init => DoneFollows
BY DEF Init, DoneFollows, Serving

(* DoneFollows is kept by every step.                                      *)
LEMMA DoneStep ==
    ASSUME IndInv, OneWriter, DoneFollows, [Next]_vars PROVE DoneFollows'
<1> USE DEF IndInv
<1> SUFFICES ASSUME mishap' = {} PROVE DoneFollows'
  BY DEF DoneFollows
<1> DEFINE Follow(r) == /\ r \in mem.stats => StatsFollow(r)
                        /\ r \in mem.ledger => SampleFollows(r)
           AllFollow == up # "down" /\ ~dirty =>
                           \A r \in Requests : req[r] = "done" => Follow(r)
           Kept == Serving => HasFile
<1>1. mishap = {} => /\ Kept /\ AllFollow /\ ~clash /\ value # Torn
                     /\ \A v, w \in Writers : Writing(v) /\ Writing(w) => v = w
  BY DEF DoneFollows, OneWriter
<1>2. Kept' /\ AllFollow' => DoneFollows'
  BY DEF DoneFollows
<1>3. ASSUME value' = value, copy' = copy, offer' = offer, up' = up, mishap' = mishap,
             dirty' = dirty \/ dirty' = TRUE,
             ~dirty' => \A r \in Requests : req'[r] = "done" =>
                           /\ req[r] = "done"
                           /\ r \in mem'.stats => r \in mem.stats
                           /\ r \in mem'.ledger => r \in mem.ledger
      PROVE  DoneFollows'
  <2>1. \A r \in Requests : /\ StatsFollow(r)' <=> StatsFollow(r)
                            /\ SampleFollows(r)' <=> SampleFollows(r)
    BY <1>3 DEF StatsFollow, SampleFollows, Writing, Saving, HasFile
  <2>2. Kept'
    BY <1>1, <1>3 DEF Serving, HasFile
  <2>3. ASSUME up' # "down", ~dirty', NEW r \in Requests, req'[r] = "done"
        PROVE  Follow(r)'
    <3>1. Follow(r)
      BY <1>1, <1>3, <2>3
    <3>2. (r \in mem'.stats => r \in mem.stats) /\ (r \in mem'.ledger => r \in mem.ledger)
      BY <1>3, <2>3
    <3> QED
      BY <2>1, <3>1, <3>2
  <2>4. AllFollow'
    BY <2>3
  <2> QED
    BY <1>2, <2>2, <2>4
<1>4. ASSUME NEW r \in Requests, CountFrame(r),
             StatsTurn(r) \/ DayTurn(r) \/ SampleTurn(r) \/ DirtyTurn(r)
      PROVE  DoneFollows'
  <2>1. dirty' = dirty \/ dirty' = TRUE
    BY <1>4 DEF StatsTurn, DayTurn, SampleTurn, DirtyTurn
  <2>2. ~dirty' => \A x \in Requests : req'[x] = "done" => x # r /\ req[x] = "done"
    BY <1>4 DEF CountFrame, StatsTurn, DayTurn, SampleTurn, DirtyTurn
  <2>3. \A x \in Requests \ {r} : /\ x \in mem'.stats => x \in mem.stats
                                  /\ x \in mem'.ledger => x \in mem.ledger
    BY <1>4 DEF StatsTurn, DayTurn, SampleTurn, DirtyTurn
  <2> QED
    BY <1>3, <1>4, <2>1, <2>2, <2>3 DEF CountFrame
<1>5. CASE ClearTurn
  BY <1>3, <1>5 DEF ClearTurn
<1>6. ASSUME NEW w \in Writers, CopyTurn(w) PROVE DoneFollows'
  <2>1. /\ mishap = {} /\ up' = up /\ dirty' = dirty /\ req' = req /\ mem' = mem
        /\ value' = value /\ offer' = offer
    BY <1>6 DEF CopyTurn
  <2>2. ~Saving(w) /\ \A v \in Writers \ {w} : ~Writing(v)
    BY <1>1, <1>6, <2>1 DEF CopyTurn, Writing, Lives
  <2>3. Kept'
    BY <1>1, <2>1 DEF Serving, HasFile
  <2>4. ASSUME NEW r \in Requests, r \in mem.stats => StatsFollow(r), r \in mem.stats
        PROVE  StatsFollow(r)'
    <3>1. copy[w].part = "stats" \/ r \in copy[w].doc.stats
      BY <1>6, <2>2, <2>4 DEF StatsFollow, CopyTurn, Writing, Saving
    <3> QED
      BY <1>6, <2>4, <3>1 DEF StatsFollow, CopyTurn
  <2>5. ASSUME NEW r \in Requests, r \in mem.ledger => SampleFollows(r), r \in mem.ledger
        PROVE  SampleFollows(r)'
    <3>1. copy[w].part \in {"stats", "ledgers"} \/ r \in copy[w].doc.ledger
      BY <1>6, <2>2, <2>5 DEF SampleFollows, CopyTurn, Writing, Saving
    <3> QED
      BY <1>6, <2>5, <3>1 DEF SampleFollows, CopyTurn
  <2> QED
    BY <1>1, <1>2, <2>1, <2>3, <2>4, <2>5
<1>7. ASSUME NEW w \in Writers, SaveTurn(w) PROVE DoneFollows'
  <2>1. /\ mishap = {} /\ up' = up /\ dirty' = dirty /\ req' = req /\ mem' = mem
        /\ value' = value
    BY <1>7 DEF SaveTurn
  <2>2. ~Saving(w) /\ \A v \in Writers \ {w} : ~Writing(v)
    BY <1>1, <1>7, <2>1 DEF SaveTurn, Writing
  <2>3. Kept'
    BY <1>1, <2>1 DEF Serving, HasFile
  <2>4. copy[w].doc # NoDoc /\ offer'[w] = copy[w].doc /\ Saving(w)'
    BY <1>7, SavedAreDocs DEF SaveTurn, Saving
  <2>5. ASSUME NEW r \in Requests, r \in mem.stats => StatsFollow(r), r \in mem.stats
        PROVE  StatsFollow(r)'
    <3>1. r \in copy[w].doc.stats
      BY <1>7, <2>2, <2>5 DEF StatsFollow, SaveTurn, Writing, Saving
    <3> QED
      BY <2>4, <3>1 DEF StatsFollow
  <2>6. ASSUME NEW r \in Requests, r \in mem.ledger => SampleFollows(r), r \in mem.ledger
        PROVE  SampleFollows(r)'
    <3>1. r \in copy[w].doc.ledger
      BY <1>7, <2>2, <2>6 DEF SampleFollows, SaveTurn, Writing, Saving
    <3> QED
      BY <2>4, <3>1 DEF SampleFollows
  <2> QED
    BY <1>1, <1>2, <2>1, <2>3, <2>5, <2>6
<1>8. ASSUME NEW w \in Writers, EndTurn(w) PROVE DoneFollows'
  <2>1. mishap = {} /\ dirty' = dirty /\ req' = req /\ mem' = mem /\ up # "down"
    BY <1>8 DEF EndTurn, Lives, Writing
  <2>2. /\ Saving(w) /\ copy[w].part = "none" /\ value' = offer[w]
        /\ \A v \in Writers \ {w} : ~Writing(v)
    BY <1>1, <1>8, <2>1 DEF EndTurn, Lives, Writing
  <2>3. HasFile' /\ Kept'
    BY <2>2, SavedAreDocs DEF HasFile
  <2>4. \A v \in Writers : ~Writing(v)'
    BY <1>8, <2>2 DEF EndTurn, Writing, Saving
  <2>5. ASSUME NEW r \in Requests, r \in mem.stats => StatsFollow(r), r \in mem.stats
        PROVE  StatsFollow(r)'
    <3>1. r \in offer[w].stats
      BY <2>2, <2>5 DEF StatsFollow, Writing
    <3> QED
      BY <2>2, <2>3, <2>4, <3>1 DEF StatsFollow
  <2>6. ASSUME NEW r \in Requests, r \in mem.ledger => SampleFollows(r), r \in mem.ledger
        PROVE  SampleFollows(r)'
    <3>1. r \in offer[w].ledger
      BY <2>2, <2>6 DEF SampleFollows, Writing
    <3> QED
      BY <2>2, <2>3, <2>4, <3>1 DEF SampleFollows
  <2> QED
    BY <1>1, <1>2, <2>1, <2>3, <2>5, <2>6
(* Who begins to write will copy all there is.                             *)
<1>9. ASSUME NEW w \in Writers, BeginTurn(w), Kept' PROVE DoneFollows'
  <2>1. copy'[w].part = "stats"
    BY <1>9 DEF BeginTurn
  <2>2. \A r \in Requests : StatsFollow(r)' /\ SampleFollows(r)'
    BY <2>1 DEF StatsFollow, SampleFollows
  <2> QED
    BY <1>2, <1>9, <2>2
<1>10. ASSUME NEW w \in Writers, WriteTurn(w), BeginTurn(w) PROVE Kept'
  <2>1. mishap = {}
    BY <1>10 DEF BeginTurn
  <2> QED
    BY <1>1, <1>10, <2>1 DEF WriteTurn, HasFile
<1>11. StartTurn => Kept'
  BY DEF StartTurn, Serving
<1>12. CASE GoneTurn
  BY <1>12 DEF GoneTurn, DoneFollows, Serving
<1>13. CASE UNCHANGED vars
  BY <1>3, <1>13 DEF vars, regVars
<1> QED
  BY <1>4, <1>5, <1>6, <1>7, <1>8, <1>9, <1>10, <1>11, <1>12, <1>13, StepIsTurn,
     ConstantTypes

(* When the process serves, nothing is marked dirty and nobody writes,     *)
(* what a finished request has added to memory is on file: a mark set      *)
(* while the flusher copies is not lost (state.rs: mark_dirty, the flusher *)
(* of spawn_flusher).                                                      *)
THEOREM QuietIsSaved == Spec => []QuietMeansSaved
<1>1. Init => DoneFollows
  BY DoneInit
<1>2. IndInv /\ (OneWriter /\ FileGrows) /\ DoneFollows /\ [Next]_vars => DoneFollows'
  BY DoneStep
<1>3. DoneFollows => QuietMeansSaved
  <2> SUFFICES ASSUME DoneFollows, up = "serving", ~dirty, mishap = {},
                      \A w \in Writers : ~Writing(w),
                      NEW r \in Requests, req[r] = "done"
               PROVE  /\ HasFile
                      /\ r \in mem.stats => r \in value.stats
                      /\ r \in mem.ledger => r \in value.ledger
    BY DEF QuietMeansSaved
  <2>1. /\ HasFile
        /\ r \in mem.stats => StatsFollow(r)
        /\ r \in mem.ledger => SampleFollows(r)
    BY DEF DoneFollows, Serving
  <2>2. \A w \in Writers : copy[w].part = "none" /\ ~Saving(w)
    BY DEF Writing
  <2> QED
    BY <2>1, <2>2 DEF StatsFollow, SampleFollows
<1> QED
  BY <1>1, <1>2, <1>3, BaseInv, AloneInv, PTL DEF Spec

-----------------------------------------------------------------------------
(* The register                                                            *)

TornByClash == value = Torn => clash

(* TornByClash is kept by every step.                                      *)
LEMMA TornStep ==
    ASSUME IndInv, TornByClash, [Next]_vars PROVE TornByClash'
<1> USE DEF IndInv
<1>1. value' = value /\ clash' = clash => TornByClash'
  BY DEF TornByClash
<1>2. ASSUME NEW r \in Requests, CountFrame(r) PROVE TornByClash'
  BY <1>1, <1>2 DEF CountFrame
<1>3. ASSUME NEW w \in Writers, CopyTurn(w) \/ (WriteTurn(w) /\ BeginTurn(w)) PROVE TornByClash'
  BY <1>1, <1>3 DEF CopyTurn, WriteTurn, BeginTurn
<1>4. ASSUME NEW w \in Writers, SaveTurn(w) PROVE TornByClash'
  BY <1>4 DEF SaveTurn, TornByClash
<1>5. ASSUME NEW w \in Writers, EndTurn(w) PROVE TornByClash'
  BY <1>5, SavedAreDocs DEF EndTurn, TornByClash
<1>6. StartTurn => TornByClash'
  BY FileAssumption DEF StartTurn, TornByClash
<1>7. ClearTurn \/ GoneTurn \/ UNCHANGED vars => TornByClash'
  BY DEF ClearTurn, GoneTurn, vars, regVars, TornByClash
<1> QED
  BY <1>2, <1>3, <1>4, <1>5, <1>6, <1>7, StepIsTurn

(* Every step is a step of the register or a stutter.                      *)
LEMMA RegisterStep ==
    ASSUME IndInv, TornByClash, [Next]_vars PROVE [RegisterNext]_regVars
<1> USE DEF IndInv
<1>1. offer \in [Writers -> Sums \cup {NoDoc}] /\ value \in Values
  BY SavedAreDocs DEF TypeOK
<1>2. ASSUME UNCHANGED regVars PROVE [RegisterNext]_regVars
  BY <1>2
<1>3. ASSUME NEW r \in Requests, Count(r) PROVE UNCHANGED regVars
  BY <1>3 DEF Count, CountStats, CountDay, CountSample, MarkDirty, Step
<1>4. ASSUME NEW w \in Writers, CopyStats(w) \/ CopyLedgers(w) \/ CopyHistory(w)
      PROVE  UNCHANGED regVars
  BY <1>4 DEF CopyStats, CopyLedgers, CopyHistory, CopyPart
<1>5. MarkElsewhere \/ Flush \/ ResetStats \/ ResetWrite \/ Stop => UNCHANGED regVars
  BY DEF MarkElsewhere, Flush, ResetStats, ResetWrite, Stop
<1>6. ASSUME NEW w \in Writers, StartSave(w) PROVE RegisterNext
  <2>1. Offer(w, copy[w].doc) /\ copy[w].doc \in Docs
    BY <1>6, SavedAreDocs DEF StartSave
  <2>2. offer'[w] = copy[w].doc
    BY <1>1, <2>1 DEF Offer
  <2> QED
    BY <2>1, <2>2 DEF RegisterNext
(* What an overlap may do to the file is among what the register allows.   *)
<1>7. ASSUME clash, clash' = clash, value' \in Values,
             \E ended \in SUBSET Writers :
                offer' = [w \in Writers |-> IF w \in ended THEN NoDoc ELSE offer[w]]
      PROVE  RegisterNext
  BY <1>7 DEF RegisterNext, Scramble
<1>8. ASSUME NEW w \in Writers, EndSave(w) PROVE RegisterNext
  <2>1. CASE Commit(w) \/ Withdraw(w)
    BY <2>1 DEF RegisterNext
  <2>2. CASE Tear(w)
    <3>1. clash /\ clash' = clash /\ offer' = [offer EXCEPT ![w] = NoDoc]
      BY <2>2 DEF Tear
    <3>2. value' \in Values
      BY <1>1, <2>2, SavedAreDocs DEF Tear, Values
    <3>3. offer' = [v \in Writers |-> IF v \in {w} THEN NoDoc ELSE offer[v]]
      BY <1>1, <3>1
    <3> QED
      BY <1>7, <3>1, <3>2, <3>3
  <2> QED
    BY <1>8, <2>1, <2>2 DEF EndSave
<1>9. CASE Start
  <2>1. offer' = offer /\ clash' = clash /\ value' = IF value = Torn THEN NoDoc ELSE value
    BY <1>9 DEF Start
  <2>2. CASE value = Torn
    <3>1. \E ended \in SUBSET Writers :
             offer' = [v \in Writers |-> IF v \in ended THEN NoDoc ELSE offer[v]]
      <4> WITNESS {} \in SUBSET Writers
      <4> QED
        BY <1>1, <2>1
    <3>2. clash /\ clash' = clash /\ value' \in Values
      BY <2>1, <2>2 DEF TornByClash, Values
    <3> QED
      BY <1>7, <3>1, <3>2
  <2>3. CASE value # Torn
    BY <1>2, <2>1, <2>3 DEF regVars
  <2> QED
    BY <2>2, <2>3
<1>10. CASE Exit \/ Crash
  <2>1. CASE Forget
    BY <2>1 DEF RegisterNext
  <2>2. CASE /\ clash /\ value' = Torn /\ offer' = [w \in Writers |-> NoDoc]
             /\ UNCHANGED clash
    <3>1. offer' = [v \in Writers |-> IF v \in Writers THEN NoDoc ELSE offer[v]]
      BY <2>2
    <3> QED
      BY <1>7, <2>2, <3>1 DEF Values
  <2> QED
    BY <1>10, <2>1, <2>2 DEF Exit, Crash
<1>11. CASE UNCHANGED vars
  BY <1>11 DEF vars
<1> QED
  BY <1>2, <1>3, <1>4, <1>5, <1>6, <1>8, <1>9, <1>10, <1>11 DEF Next, WriteStep

(* The threads use the file as the register allows, whatever the order of  *)
(* their saves, crashes and restarts: what AtomicFile implements is what   *)
(* Persistence relies on (persist.rs: save, load_raw).                     *)
THEOREM UsesTheRegister == Spec => RegisterSpec
<1>1. Init => RegisterInit /\ TornByClash
  BY FileAssumption DEF Init, RegisterInit, TornByClash
<1>2. IndInv /\ TornByClash /\ [Next]_vars => TornByClash' /\ [RegisterNext]_regVars
  BY TornStep, RegisterStep
<1> QED
  BY <1>1, <1>2, BaseInv, PTL DEF Spec, RegisterSpec
=============================================================================
