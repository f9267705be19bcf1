---------------------------- MODULE AtomicRegister ----------------------------
(***************************************************************************)
(* What "serialise + atomic replace" (persist::save) promises of a file:   *)
(* its value changes in one step, to a document a thread is saving, and no *)
(* crash changes it.  The promise ends with the first two saves that       *)
(* overlap: nothing in the code keeps them apart, and from then on nothing *)
(* is said of the value.                                                   *)
(***************************************************************************)
CONSTANTS Writers,   \* threads that save
          Docs,      \* documents they may save
          NoDoc,     \* no file
          Torn       \* a file that is none of the documents

VARIABLES value,     \* what a reader of the file gets
          offer,     \* what each thread is saving, or NoDoc
          clash      \* two saves have overlapped

regVars == <<value, offer, clash>>

Values == Docs \cup {NoDoc, Torn}

RegisterInit ==
  /\ value \in Docs \cup {NoDoc}
  /\ offer = [w \in Writers |-> NoDoc]
  /\ clash = FALSE

Saving(w) == offer[w] # NoDoc

\* A thread begins to save a document.
Offer(w, d) ==
  /\ ~Saving(w)
  /\ offer' = [offer EXCEPT ![w] = d]
  /\ clash' = (clash \/ \E v \in Writers \ {w} : Saving(v))
  /\ UNCHANGED value

\* Its document becomes the value, at once and whole.
Commit(w) ==
  /\ Saving(w)
  /\ value' = offer[w]
  /\ offer' = [offer EXCEPT ![w] = NoDoc]
  /\ UNCHANGED clash

\* Its save fails: the value is as it was.
Withdraw(w) ==
  /\ Saving(w)
  /\ offer' = [offer EXCEPT ![w] = NoDoc]
  /\ UNCHANGED <<value, clash>>

\* The process dies: every save in progress is forgotten.
Forget ==
  /\ offer' = [w \in Writers |-> NoDoc]
  /\ UNCHANGED <<value, clash>>

\* After an overlap a step may leave any value behind.
Scramble ==
  /\ clash
  /\ value' \in Values
  /\ \E ended \in SUBSET Writers :
       offer' = [w \in Writers |-> IF w \in ended THEN NoDoc ELSE offer[w]]
  /\ UNCHANGED clash

RegisterNext ==
  \/ \E w \in Writers : Offer(w, offer'[w]) /\ offer'[w] \in Docs
  \/ \E w \in Writers : Commit(w) \/ Withdraw(w)
  \/ Forget \/ Scramble

RegisterSpec == RegisterInit /\ [][RegisterNext]_regVars
=============================================================================
