---------------------------- MODULE MCConfigStore ----------------------------
(* An instance of ConfigStore: two plans, one without a name, and a cash       *)
(* account that has headers, which the first save loses; texts written by hand *)
(* with one name three times over and dropped parameters, and broken.          *)
EXTENDS ConfigStore

MCEntry(name, kind, key, extra) ==
    [name |-> name, kind |-> kind, key |-> key, on |-> TRUE, order |-> NoOrder,
     extra |-> extra, drop |-> 0]

MCFirst(extra) ==
    [options |-> {"quiet", "dump"}, drop |-> 0,
     entries |-> <<MCEntry(Name("a"), "plans", "k1", {"prices", "limit"}),
                   MCEntry(NoName, "plans", "k2", {}),
                   MCEntry(Name("b"), "fallback", "k2", {"anthropic_url", "never"} \cup extra)>>]

MCNamesakes == [options |-> {"offset"}, drop |-> 1,
                entries |-> <<MCEntry(Name("a"), "plans", "k1", {}),
                              [MCEntry(Name("a"), "plans", "k2", {"prices"}) EXCEPT !.drop = 1],
                              MCEntry(Name("a"), "fallback", "k1", {})>>]

MCPlainTexts == {MCFirst({})}
MCFirstTexts == {MCFirst({"headers"})}
MCHandTexts == {MCNamesakes, Broken}
MCNewNames == {Name("b")}
MCNewKeys == {"k2"}
=============================================================================
