----------------------------- MODULE ConfigText -----------------------------
(***************************************************************************)
(* What a configuration is, read and written: parse (src/config.rs), the   *)
(* document the console edits and the text it saves (config_json,          *)
(* doc_to_yaml, src/api.rs), and the text it exports (build_doc,           *)
(* src/configwrite.rs).                                                    *)
(*                                                                         *)
(* A setting is told apart by how it travels, not by its value: Options    *)
(* are the sections' settings that differ from their defaults, Extras the  *)
(* optional settings of an endpoint, its own headers among them.  drop     *)
(* counts how often a list of drop_params names one parameter.  A text     *)
(* that does not parse is Broken.                                          *)
(***************************************************************************)
EXTENDS Integers, SequencesExt

CONSTANTS Unchanged, NoKey

Broken == [broken |-> TRUE]

Options == {"stream_off", "quiet", "dump", "offset"}
Extras  == {"anthropic_url", "prices", "limit", "never", "headers"}

(* A name: a stem with "-copy" so many times, and the counters after it.   *)
Name(base) == [base |-> base, copies |-> 0, n |-> <<>>]
NoName     == Name("")

Suffixed(name, n) == [name EXCEPT !.n = Append(@, n)]
CopyOf(name)      == [name EXCEPT !.n = <<>>, !.copies = @ + 1]

(* A mutant: a name that is taken is given the suffix -2, free or not.     *)
FreeNameOnce(want, used) == IF want \in used THEN Suffixed(want, 2) ELSE want

FreeName(want, used) ==
    IF want \in used
    THEN Suffixed(want, Min({n \in 2..Cardinality(used) + 2 : Suffixed(want, n) \notin used}))
    ELSE want

NamesOf(accounts) == {accounts[i].name : i \in DOMAIN accounts}

-----------------------------------------------------------------------------
(* Reading                                                                 *)

NoOrder == -1

(* What is of one kind in a list, in the list's order.                     *)
OfKind(list, kind) ==
    FoldLeft(LAMBDA some, e : IF e.kind = kind THEN Append(some, e) ELSE some, <<>>, list)

(* One section's entries, in list order, which is the default of order.    *)
Section(text, kind) ==
    LET mine == OfKind(text.entries, kind)
    IN  [i \in DOMAIN mine |->
            [mine[i] EXCEPT !.order = IF @ = NoOrder THEN i - 1 ELSE @]]

(* An endpoint without a name is given one from its credential; a name     *)
(* that was used before gets the next free counter.  The parameters every  *)
(* endpoint drops are folded into each one's own list.                     *)
Entered(done, e, drop) ==
    LET want == IF e.name = NoName THEN Name(e.key) ELSE e.name
    IN  Append(done, [name |-> FreeName(want, NamesOf(done)), kind |-> e.kind,
                      key |-> e.key, on |-> e.on, order |-> e.order,
                      extra |-> e.extra, drop |-> drop + e.drop])

Accounts(text) ==
    FoldLeft(LAMBDA done, e : Entered(done, e, text.drop), <<>>,
             Section(text, "plans") \o Section(text, "fallback"))

Parses(text) == text # Broken /\ text.entries # <<>>

(* The texts that are not broken: an entry is in one of the two sections,  *)
(* and its key is neither empty nor the console's placeholder.             *)
IsName(n) == n = [base |-> n.base, copies |-> n.copies, n |-> n.n]
             /\ n.copies \in Nat /\ n.n \in Seq(Nat)

IsKey(k) == k \notin {"", Unchanged, NoKey}

IsEntry(e) ==
    /\ e = [name |-> e.name, kind |-> e.kind, key |-> e.key, on |-> e.on,
            order |-> e.order, extra |-> e.extra, drop |-> e.drop]
    /\ IsName(e.name) /\ e.kind \in {"plans", "fallback"} /\ IsKey(e.key)
    /\ e.on \in BOOLEAN /\ e.order \in Nat \cup {NoOrder} /\ e.drop \in Nat

IsText(text) ==
    /\ text = [options |-> text.options, drop |-> text.drop, entries |-> text.entries]
    /\ text.drop \in Nat
    /\ text.entries \in Seq(ToSet(text.entries))
    /\ \A e \in ToSet(text.entries) : IsEntry(e)

Parse(text) == [options |-> text.options, drop |-> text.drop, accounts |-> Accounts(text)]

-----------------------------------------------------------------------------
(* The console's document                                                  *)

IsEnabled(a) == a.on /\ "never" \notin a.extra

(* A row of the editor: the key is a placeholder, and a row that is brief  *)
(* leaves the optional settings out.                                       *)
Row(a) == [name |-> a.name, renamedFrom |-> NoName, kind |-> a.kind, key |-> Unchanged,
           on |-> IsEnabled(a), extra |-> a.extra \ {"anthropic_url"}, drop |-> a.drop,
           brief |-> FALSE]

Shown(conf) == [options |-> conf.options \ {"dump"}, drop |-> conf.drop,
                rows |-> [i \in DOMAIN conf.accounts |-> Row(conf.accounts[i])]]

AccountNamed(conf, name) ==
    conf.accounts[CHOOSE i \in DOMAIN conf.accounts : conf.accounts[i].name = name]

(* A mutant: the placeholder is looked up by the present name alone.       *)
KeyByNameOnly(row, old) ==
    IF row.key # Unchanged THEN row.key
    ELSE IF row.name \in NamesOf(old.accounts) THEN AccountNamed(old, row.name).key
    ELSE NoKey

(* The placeholder stands for what is stored under the previous name, or   *)
(* under the present one.                                                  *)
Key(row, old) ==
    LET names == NamesOf(old.accounts)
    IN  IF row.key # Unchanged THEN row.key
        ELSE IF row.renamedFrom \in names THEN AccountNamed(old, row.renamedFrom).key
        ELSE IF row.name \in names THEN AccountNamed(old, row.name).key
        ELSE NoKey

(* What the row leaves out is carried over from the live endpoint of the   *)
(* name, as far as the code has a fallback for it.                         *)
Extra(row, old) ==
    IF ~row.brief THEN row.extra
    ELSE IF row.name \in NamesOf(old.accounts)
         THEN AccountNamed(old, row.name).extra \cap {"prices", "limit"}
         ELSE {}

(* order is the row's position in its section, by tens.  The headers and   *)
(* the dropped parameters are written where no endpoint is read from.      *)
EndpointYaml(row, position, old) ==
    [name |-> row.name, kind |-> row.kind, key |-> Key(row, old), on |-> row.on,
     order |-> 10 * position, extra |-> Extra(row, old) \ {"headers"}, drop |-> 0]

(* "headers:" is written without the indent of its entry and so becomes a  *)
(* key of the document, which nothing reads: for an endpoint with headers, *)
(* and also, to hold its list, for one with dropped parameters.            *)
Spills(row) == ~row.brief /\ (row.drop > 0 \/ "headers" \in row.extra)

(* The document is still YAML if that happens once, with one of the two,   *)
(* and at the end of a section.                                            *)
NestsClean(rows) ==
    \A i \in DOMAIN rows : Spills(rows[i]) =>
        /\ ~(rows[i].drop > 0 /\ "headers" \in rows[i].extra)
        /\ \A j \in DOMAIN rows \ {i} :
              ~Spills(rows[j]) /\ (rows[j].kind = rows[i].kind => j < i)

Rows(doc, kind) == OfKind(doc.rows, kind)

(* server.stream and log.quiet are shown and not written; the switch the   *)
(* console has no control for is carried over from the live configuration. *)
TextOf(doc, old) ==
    LET written(kind) == [i \in DOMAIN Rows(doc, kind) |-> EndpointYaml(Rows(doc, kind)[i], i, old)]
    IN  [options |-> (doc.options \ {"stream_off", "quiet"}) \cup (old.options \cap {"dump"}),
         drop |-> doc.drop,
         entries |-> written("plans") \o written("fallback")]

DocToYaml(doc, old) == IF NestsClean(doc.rows) THEN TextOf(doc, old) ELSE Broken

(* What the console sends is refused if a row has no key, and also if the  *)
(* parser cannot read what it is made into.                                *)
Accepted(doc, old) ==
    /\ doc.rows # <<>>
    /\ \A i \in DOMAIN doc.rows : Key(doc.rows[i], old) # NoKey
    /\ Parses(DocToYaml(doc, old))

(* persist_accounts: a list of accounts under the live configuration's     *)
(* sections, with the real keys.                                           *)
PersistDoc(accounts, live) ==
    [Shown(live) EXCEPT !.rows =
        [i \in DOMAIN accounts |-> [Row(accounts[i]) EXCEPT !.key = accounts[i].key]]]

-----------------------------------------------------------------------------
(* The export                                                              *)

(* A mutant: the folded list is written back as the endpoint's own.        *)
OwnDropFolded(a, conf) == a.drop

(* What the sections drop already is not written a second time.            *)
OwnDrop(a, conf) == IF conf.drop > 0 THEN 0 ELSE a.drop

(* The switch, the prices, the output limit and a plan's rules are not     *)
(* written.                                                                *)
AccountToYaml(a, conf) ==
    [name |-> a.name, kind |-> a.kind, key |-> a.key, on |-> TRUE, order |-> a.order,
     extra |-> a.extra \cap (IF a.kind = "fallback" THEN {"anthropic_url", "headers", "never"}
                                                    ELSE {"anthropic_url", "headers"}),
     drop |-> OwnDrop(a, conf)]

BuildDoc(conf) ==
    LET all == OfKind(conf.accounts, "plans") \o OfKind(conf.accounts, "fallback")
    IN  [options |-> conf.options, drop |-> conf.drop,
         entries |-> [i \in DOMAIN all |-> AccountToYaml(all[i], conf)]]
=============================================================================
