---------------------------- MODULE UsageScanner ----------------------------
(***************************************************************************)
(* The usage a streamed answer reports (src/sse.rs).  The answer comes in  *)
(* pieces, cut anywhere; the scanner keeps what is left of a line.         *)
(*                                                                         *)
(* A stream is a sequence of symbols: "nl" ends a line, "data" is the      *)
(* prefix of an event, "open" the beginning of a JSON object, a symbol in  *)
(* DOMAIN Reports the rest of one that reports so much, and anything else  *)
(* is text.  Limit is the most the buffer may hold, 512 KiB in the code.   *)
(***************************************************************************)
EXTENDS Integers, Sequences, SequencesExt

CONSTANTS Reports, Limit

ASSUME ScannerAssumption ==
    /\ Reports \in [DOMAIN Reports -> [prompt : Nat, completion : Nat]]
    /\ Limit \in Nat \ {0}

NoUsage == [prompt |-> 0, completion |-> 0]

Higher(a, b) == IF a > b THEN a ELSE b

(* A mutant: a later report takes the place of an earlier one.             *)
MergedLast(u, v) == IF v = NoUsage THEN u ELSE v

(* RawUsage::merge: each count by itself.                                  *)
Merged(u, v) == [prompt |-> Higher(u.prompt, v.prompt),
                 completion |-> Higher(u.completion, v.completion)]

(* consume_line: an event, or a line that is a JSON object.                *)
LineUsage(line) ==
    LET payload == IF line # <<>> /\ Head(line) = "data" THEN Tail(line) ELSE line
    IN  IF Len(payload) = 2 /\ payload[1] = "open" /\ payload[2] \in DOMAIN Reports
        THEN Reports[payload[2]]
        ELSE NoUsage

Fresh == [buf |-> <<>>, usage |-> NoUsage]

Symbol(scan, sym) ==
    IF sym = "nl" THEN [buf |-> <<>>, usage |-> Merged(scan.usage, LineUsage(scan.buf))]
                  ELSE [scan EXCEPT !.buf = Append(@, sym)]

(* A mutant: the buffer is emptied with every piece.                       *)
FeedForgets(scan, piece) ==
    LET fed == FoldLeft(Symbol, scan, piece)
    IN  [fed EXCEPT !.buf = <<>>]

(* feed: every whole line is consumed; then a buffer that is too long is   *)
(* emptied.                                                                *)
Feed(scan, piece) ==
    LET fed == FoldLeft(Symbol, scan, piece)
    IN  IF Len(fed.buf) > Limit THEN [fed EXCEPT !.buf = <<>>] ELSE fed

(* finish: what is left is a line too.                                     *)
Finished(scan) == Merged(scan.usage, LineUsage(scan.buf))
=============================================================================
