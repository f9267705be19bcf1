----------------------------- MODULE ConfigStore -----------------------------
(***************************************************************************)
(* The configuration in its three places: the file with its backups        *)
(* (src/configbackup.rs), the live configuration with its list of          *)
(* accounts, and the registry of what is kept per endpoint (AppState,      *)
(* src/proxy.rs; Registry, src/state.rs).  Consoles write the file and     *)
(* reload it (src/api.rs), an operator edits it by hand, and the watcher   *)
(* reloads it when its length or second of change is another.              *)
(*                                                                         *)
(* Every thread goes through its steps in order, one shared access each.   *)
(* A write replaces the file in one step: module AtomicFile is about the   *)
(* temporary file it goes through.                                         *)
(***************************************************************************)
EXTENDS ConfigText

CONSTANTS
    Consoles,       \* connection threads that serve the console
    HandTexts,      \* texts that are written by hand
    FirstTexts,     \* texts the process may be started with
    NewNames, NewKeys,  \* what an editor may enter
    MaxActs, MaxClock   \* bounds: calls, edits and restarts together; seconds

ASSUME ConfigStoreAssumption ==
    /\ "watcher" \notin Consoles
    /\ \A t \in FirstTexts : Parses(t) /\ IsText(t)
    /\ \A t \in HandTexts : t = Broken \/ IsText(t)
    /\ \A n \in NewNames : IsName(n)
    /\ \A k \in NewKeys : IsKey(k)

Threads == Consoles \cup {"watcher"}

VARIABLES
    clock,
    file,       \* the text and the second it was written in
    backups,    \* texts by name: the second, the tag and a counter
    cfg,        \* AppState.config
    accounts,   \* AppState.accounts: the endpoints and their runtimes
    registry,   \* Registry.map: the runtimes by name
    born,       \* runtimes made so far, to tell them apart
    seen,       \* the file as the watcher last saw it
    job,        \* what each thread is doing
    owed,       \* for the properties: texts that must be found in a backup
    overtaken,  \* whether the last to install had not loaded last, and
                \* whether two reloads were ever under way at once
    unseen,     \* whether the last edit by hand kept the length and the second
    acts
files == <<file, backups>>
live  == <<cfg, accounts, registry, born>>
ghost == <<owed, overtaken, unseen>>
vars  == <<clock, files, live, seen, job, ghost, acts>>

NoBackup == [none |-> TRUE]
Idle == [at |-> "idle"]
Loaders == {"build", "retain", "config", "accounts"}

Act == acts < MaxActs /\ acts' = acts + 1

-----------------------------------------------------------------------------
(* The registry                                                            *)

(* The allowance an endpoint draws on: its provider and credential.        *)
AllowanceGroup(a) == a.key

NewRuntime(a, id) == [group |-> AllowanceGroup(a), id |-> id]

(* get_or_create_in_group: a name the registry has keeps what it has.      *)
(* The runtimes of a list of accounts, made where there is none.           *)
Runtimes(list, map, id) ==
    [name \in NamesOf(list) |->
        IF name \in DOMAIN map THEN map[name]
        ELSE NewRuntime(AccountNamed([accounts |-> list], name), id)]

-----------------------------------------------------------------------------
(* Reloading: AppState::reload, by the watcher or by a console             *)

(* A reload that is under way when another one loads is the older one.     *)
Outrun(t) == [u \in Threads |-> IF u # t /\ job[u].at \in Loaders
                                THEN [job[u] EXCEPT !.late = TRUE] ELSE job[u]]

Load(t) ==
    /\ job[t].at = "load"
    /\ job' = IF Parses(file.text)
              THEN [Outrun(t) EXCEPT ![t] =
                        [at |-> "build", conf |-> Parse(file.text), late |-> FALSE]]
              ELSE [job EXCEPT ![t] = Idle]
    /\ overtaken' = [overtaken EXCEPT !.met = @ \/ \E u \in Threads \ {t} : job[u].at \in Loaders]
    /\ UNCHANGED <<clock, files, live, seen, owed, unseen, acts>>

(* build_accounts: every endpoint's runtime is found or made.              *)
Build(t) ==
    /\ job[t].at = "build"
    /\ LET rts == Runtimes(job[t].conf.accounts, registry, born)
       IN  /\ registry' = [name \in DOMAIN rts \cup DOMAIN registry |->
                              IF name \in DOMAIN rts THEN rts[name] ELSE registry[name]]
           /\ born' = IF DOMAIN rts \subseteq DOMAIN registry THEN born ELSE born + 1
           /\ job' = [job EXCEPT ![t] =
                        [at |-> "retain", conf |-> @.conf, late |-> @.late, rts |-> rts]]
    /\ UNCHANGED <<clock, files, cfg, accounts, seen, ghost, acts>>

(* Registry::retain drops the runtimes this configuration does not name.   *)
Retain(t) ==
    /\ job[t].at = "retain"
    /\ registry' = Restrict(registry, DOMAIN registry \cap NamesOf(job[t].conf.accounts))
    /\ job' = [job EXCEPT ![t].at = "config"]
    /\ UNCHANGED <<clock, files, cfg, accounts, born, seen, ghost, acts>>

SetConfig(t) ==
    /\ job[t].at = "config"
    /\ cfg' = job[t].conf
    /\ overtaken' = [overtaken EXCEPT !.config = job[t].late]
    /\ job' = [job EXCEPT ![t].at = "accounts"]
    /\ UNCHANGED <<clock, files, accounts, registry, born, seen, owed, unseen, acts>>

SetAccounts(t) ==
    /\ job[t].at = "accounts"
    /\ accounts' = [list |-> job[t].conf.accounts, rts |-> job[t].rts]
    /\ overtaken' = [overtaken EXCEPT !.accounts = job[t].late]
    /\ job' = [job EXCEPT ![t] = Idle]
    /\ UNCHANGED <<clock, files, cfg, registry, born, seen, owed, unseen, acts>>

Reload(t) == Load(t) \/ Build(t) \/ Retain(t) \/ SetConfig(t) \/ SetAccounts(t)

(* file_signature: the length and the second.  How many endpoints a text   *)
(* has stands for its length.                                              *)
Length(text) == IF text = Broken THEN 0 ELSE Len(text.entries)

(* A mutant: the signature is the length alone.                            *)
SignatureByLength(f) == [length |-> Length(f.text)]

Signature(f) == [length |-> Length(f.text), at |-> f.at]

(* The watcher notes the signature before it loads, and a load that fails  *)
(* is not tried again.                                                     *)
Poll ==
    /\ job["watcher"] = Idle
    /\ Signature(file) # Signature(seen)
    /\ seen' = file
    /\ job' = [job EXCEPT !["watcher"] = [at |-> "load"]]
    /\ UNCHANGED <<clock, files, live, ghost, acts>>

-----------------------------------------------------------------------------
(* Backups                                                                 *)

(* A mutant: the name is used whether there is such a backup or not.       *)
BackupNameTaken(tag) == [at |-> clock, tag |-> tag, n |-> 0]

(* The first of config-<stamp>-<tag>, -2, -3, ... that does not exist.     *)
BackupName(tag) ==
    LET named(n) == [at |-> clock, tag |-> tag, n |-> n]
        taken    == DOMAIN backups
    IN  named(Min({n \in {0} \cup 2..Cardinality(taken) + 2 : named(n) \notin taken}))

(* configbackup::create: the file is read, a name that is free is looked   *)
(* for, and what was read is written under it.  Nothing holds the name in  *)
(* between: of two threads that have chosen the same one, the second       *)
(* writes over what the first has written, and kept, which is what a call  *)
(* may rely on, is empty for both.                                         *)
Copy(t) ==
    /\ job[t].at = "copy"
    /\ job' = [job EXCEPT ![t] = [@ EXCEPT !.at = "name", !.read = file.text,
                                           !.kept = {file.text}]]
    /\ UNCHANGED <<clock, files, live, seen, ghost, acts>>

ChooseName(t) ==
    /\ job[t].at = "name"
    /\ LET name == BackupName(job[t].tag)
           same == {u \in Threads : job[u].at = "put" /\ job[u].under = name}
       IN  job' = [u \in Threads |->
                     IF u = t THEN [job[t] EXCEPT !.at = "put", !.under = name,
                                                  !.kept = IF same = {} THEN @ ELSE {}]
                     ELSE IF u \in same THEN [job[u] EXCEPT !.kept = {}] ELSE job[u]]
    /\ UNCHANGED <<clock, files, live, seen, ghost, acts>>

Putting(name, text) ==
    backups' = [b \in DOMAIN backups \cup {name} |-> IF b = name THEN text ELSE backups[b]]

AfterCopy(j) == IF j.from = NoBackup THEN "write" ELSE "fetch"

Put(t) ==
    /\ job[t].at = "put"
    /\ Putting(job[t].under, job[t].read)
    /\ job' = [job EXCEPT ![t].at = AfterCopy(job[t])]
    /\ UNCHANGED <<clock, file, live, seen, ghost, acts>>

(* Only some callers give up when the copy fails.  A write that fails may  *)
(* leave a part of the text under the name.                                *)
CopyFails(t) ==
    /\ job[t].at \in {"copy", "name", "put"}
    /\ \/ UNCHANGED backups
       \/ job[t].at = "put" /\ Putting(job[t].under, Broken)
    /\ job' = [job EXCEPT ![t] = IF @.must THEN Idle ELSE [@ EXCEPT !.at = "write", !.kept = {}]]
    /\ UNCHANGED <<clock, file, live, seen, ghost, acts>>

-----------------------------------------------------------------------------
(* Writing: configbackup::write replaces the file, or fails and leaves it   *)

Write(t) ==
    /\ job[t].at = "write"
    /\ file' = [text |-> job[t].text, at |-> clock]
    /\ owed' = IF job[t].must THEN owed \cup (job[t].kept \cap {file.text}) ELSE owed
    /\ unseen' = FALSE
    /\ job' = [job EXCEPT ![t] = [at |-> "load"]]
    /\ UNCHANGED <<clock, backups, live, seen, overtaken, acts>>

WriteFails(t) ==
    /\ job[t].at = "write"
    /\ job' = [job EXCEPT ![t] = Idle]
    /\ UNCHANGED <<clock, files, live, seen, ghost, acts>>

-----------------------------------------------------------------------------
(* The console's calls                                                     *)

Call(t) == job[t] = Idle /\ Act

Begin(t, at, tag, must, text, from) ==
    job' = [job EXCEPT ![t] = [at |-> at, tag |-> tag, must |-> must, text |-> text,
                               from |-> from, read |-> Broken, under |-> NoBackup,
                               kept |-> {}]]

With(doc, i, row) == [doc EXCEPT !.rows[i] = row]

Renamed(row, name) == [row EXCEPT !.name = name, !.renamedFrom = row.name]
Rekeyed(row, key)  == [row EXCEPT !.key = key]

(* A new row has the settings of the first.                                *)
WithNew(doc, name, key) ==
    [doc EXCEPT !.rows = Append(@, [@[1] EXCEPT !.name = name, !.key = key])]

WithNames(doc, i, j) ==
    With(With(doc, i, Renamed(doc.rows[i], doc.rows[j].name)),
         j, Renamed(doc.rows[j], doc.rows[i].name))

(* The documents an editor may send for what it was shown: of the          *)
(* first row another name, key or kind of row, two rows exchanged or their *)
(* names, the last row removed, a new row, an option cleared.              *)
EditedDocs ==
    LET doc  == Shown(cfg)
        r    == doc.rows
        last == Len(r)
    IN  {[doc EXCEPT !.drop = 0],
         With(doc, 1, [r[1] EXCEPT !.brief = TRUE]),
         With(With(doc, 1, r[last]), last, r[1]),
         WithNames(doc, 1, last),
         [doc EXCEPT !.rows = Front(@)]}
        \cup {With(doc, 1, Renamed(r[1], n)) : n \in NewNames}
        \cup {With(doc, 1, Rekeyed(r[1], k)) : k \in NewKeys}
        \cup {WithNew(doc, n, k) : n \in NewNames, k \in NewKeys}

(* PUT /api/config: an edited document, or an import in its shape.         *)
SaveFromJson(t) ==
    /\ Call(t)
    /\ \E doc \in EditedDocs :
        /\ Accepted(doc, cfg)
        /\ Begin(t, "copy", "autosave", FALSE, DocToYaml(doc, cfg), NoBackup)
    /\ UNCHANGED <<clock, files, live, seen, ghost>>

(* PUT /api/config/raw and the import of a text; a backup is optional for  *)
(* the import.                                                             *)
SaveText(t) ==
    /\ Call(t)
    /\ \E text \in HandTexts \cup {BuildDoc(cfg)} :
        /\ Parses(text)
        /\ \E at \in {"copy", "write"} : Begin(t, at, "pre-raw-edit", FALSE, text, NoBackup)
    /\ UNCHANGED <<clock, files, live, seen, ghost>>

(* set_endpoint_state, duplicate_endpoint and the calibration change a     *)
(* copy of the live list, which persist_accounts then writes.              *)
Toggled(conf, i, enabled) == [conf.accounts EXCEPT ![i].on = enabled]

Duplicated(conf, i, base) ==
    InsertAt(conf.accounts, i + 1,
             [conf.accounts[i] EXCEPT !.name = FreeName(base, NamesOf(conf.accounts))])

ChangeAccounts(t) ==
    /\ Call(t)
    /\ \E i \in DOMAIN cfg.accounts :
        \/ \E enabled \in BOOLEAN :
              Begin(t, "compose", "pre-toggle", TRUE, Toggled(cfg, i, enabled), NoBackup)
        \/ \E base \in {CopyOf(cfg.accounts[i].name)} \cup NewNames :
              Begin(t, "compose", "pre-duplicate", TRUE, Duplicated(cfg, i, base), NoBackup)
    /\ UNCHANGED <<clock, files, live, seen, ghost>>

(* persist_accounts reads the live configuration once more, and gives up   *)
(* if the parser cannot read what it has composed.                         *)
Persisted(list) == DocToYaml(PersistDoc(list, cfg), cfg)

Compose(t) ==
    /\ job[t].at = "compose"
    /\ LET text == Persisted(job[t].text)
       IN  job' = [job EXCEPT ![t] = IF Parses(text)
                                     THEN [@ EXCEPT !.at = "copy", !.text = text]
                                     ELSE Idle]
    /\ UNCHANGED <<clock, files, live, seen, ghost, acts>>

(* configbackup::restore: the safety copy, then the backup is read.        *)
RestoreBackup(t) ==
    /\ Call(t)
    /\ \E b \in DOMAIN backups : Begin(t, "copy", "pre-restore", TRUE, Broken, b)
    /\ UNCHANGED <<clock, files, live, seen, ghost>>

FetchBackup(t) ==
    /\ job[t].at = "fetch"
    /\ LET from == job[t].from
       IN  job' = [job EXCEPT ![t] = IF from \in DOMAIN backups
                                     THEN [@ EXCEPT !.at = "write", !.text = backups[from]]
                                     ELSE Idle]
    /\ UNCHANGED <<clock, files, live, seen, ghost, acts>>

DeleteBackup(t) ==
    /\ Call(t)
    /\ \E b \in DOMAIN backups :
        /\ backups' = Restrict(backups, DOMAIN backups \ {b})
        /\ owed' = owed \ {backups[b]}
        /\ job' = [u \in Threads |-> IF job[u].at \in {"fetch", "write"}
                                     THEN [job[u] EXCEPT !.kept = @ \ {backups[b]}]
                                     ELSE job[u]]
    /\ UNCHANGED <<clock, file, live, seen, overtaken, unseen>>

Console(t) ==
    \/ SaveFromJson(t) \/ SaveText(t) \/ ChangeAccounts(t) \/ Compose(t)
    \/ RestoreBackup(t) \/ FetchBackup(t) \/ DeleteBackup(t)
    \/ Copy(t) \/ ChooseName(t) \/ Put(t) \/ CopyFails(t) \/ Write(t) \/ WriteFails(t)

-----------------------------------------------------------------------------
(* The operator edits the file, broken or not, and the process is started  *)
(* again: the file is loaded, the registry starts empty, and the watcher   *)
(* takes its first signature.                                              *)
HandEdit ==
    /\ Act
    /\ \E text \in HandTexts \ {file.text} :
        /\ file' = [text |-> text, at |-> clock]
        /\ unseen' = (Length(text) = Length(seen.text) /\ clock = seen.at)
    /\ UNCHANGED <<clock, backups, live, seen, job, owed, overtaken>>

Restart ==
    /\ Act
    /\ Parses(file.text)
    /\ LET conf == Parse(file.text)
           none == [n \in {} |-> 0]
           rts  == Runtimes(conf.accounts, none, born)
       IN  /\ cfg' = conf /\ registry' = rts
           /\ accounts' = [list |-> conf.accounts, rts |-> rts]
    /\ born' = born + 1
    /\ seen' = file
    /\ job' = [t \in Threads |-> Idle]
    /\ overtaken' = [config |-> FALSE, accounts |-> FALSE, met |-> FALSE]
    /\ unseen' = FALSE
    /\ UNCHANGED <<clock, files, owed>>

Tick ==
    /\ clock < MaxClock /\ clock' = clock + 1
    /\ UNCHANGED <<files, live, seen, job, ghost, acts>>

Init ==
    /\ clock = 1
    /\ \E text \in FirstTexts : file = [text |-> text, at |-> 1]
    /\ backups = [b \in {} |-> Broken]
    /\ cfg = Parse(file.text)
    /\ registry = Runtimes(cfg.accounts, [n \in {} |-> 0], 0)
    /\ accounts = [list |-> cfg.accounts, rts |-> registry]
    /\ born = 1
    /\ seen = file
    /\ job = [t \in Threads |-> Idle]
    /\ owed = {} /\ overtaken = [config |-> FALSE, accounts |-> FALSE, met |-> FALSE]
    /\ unseen = FALSE
    /\ acts = 0

Next ==
    \/ \E t \in Threads : Reload(t)
    \/ \E t \in Consoles : Console(t)
    \/ Poll \/ HandEdit \/ Restart \/ Tick

Spec == Init /\ [][Next]_vars

-----------------------------------------------------------------------------
(* Properties                                                              *)

Settled == (\A t \in Threads : job[t] = Idle) /\ Signature(file) = Signature(seen)

(* A reload that installed after a younger one.                            *)
Overtaken == overtaken.config \/ overtaken.accounts

(* "The config file on disk stays the single source of truth" (api.rs:4):  *)
(* once every reload is over, the live configuration and the accounts are  *)
(* what the file says, whoever wrote it, unless it is broken, it was last  *)
(* edited by hand to the length and in the second that the watcher knows   *)
(* (so it cannot see the edit), or an older reload came in last.           *)
(* And "keeps per-account runtime state for accounts that survive"         *)
(* (proxy.rs:96): unless two reloads met, what a live endpoint counts in   *)
(* is what the registry has and the state file will get.                   *)
FileIsTruth ==
    Settled /\ Parses(file.text) /\ ~unseen /\ ~Overtaken =>
        /\ cfg = Parse(file.text)
        /\ accounts.list = cfg.accounts
        /\ ~overtaken.met => accounts.rts = registry

(* "Safety copy first: whatever happens next, the pre-restore state is     *)
(* already on disk" (configbackup.rs:188), and so for every call that is   *)
(* to fail without a copy: what it replaced is in a backup until somebody  *)
(* deletes it, and no later backup takes its name.  Two copies under way   *)
(* that chose one name are excepted, where "Never overwrites"              *)
(* (configbackup.rs:57) does not hold.                                     *)
ReplacedIsKept == owed \subseteq {backups[b] : b \in DOMAIN backups}

(* The fields of an endpoint that a console's save is to leave alone; it   *)
(* does drop anthropic_url, and the headers (EndpointYaml).                *)
Carried(a) == [name |-> a.name, kind |-> a.kind, key |-> a.key, on |-> IsEnabled(a),
               extra |-> a.extra \ {"anthropic_url", "headers"}]
CarriedAll(list) == [i \in DOMAIN list |-> Carried(list[i])]

(* A text the console makes is one the router can load, with these         *)
(* endpoints; if it need not be, it is refused or has them.                *)
Loads(text, list, need) ==
    IF Parses(text) THEN CarriedAll(Parse(text).accounts) = list ELSE ~need

(* No endpoint has headers, or parameters to drop.                         *)
Plain(list) == \A i \in DOMAIN list : list[i].drop = 0 /\ "headers" \notin list[i].extra

(* "Editing an unrelated field cannot silently wipe a credential"          *)
(* (api.rs:515) nor move it, and "anything the console can save is         *)
(* something the router can load" (api.rs:336): a toggle, a copy and an    *)
(* exchange of two names leave every other field of every endpoint as it   *)
(* was.  With headers or dropped parameters somewhere the call may be      *)
(* refused instead, but what is saved still has everything else in its     *)
(* place.                                                                  *)
EditsAreLocal ==
    LET now  == cfg.accounts
        doc  == Shown(cfg)
        need == Plain(now)
    IN  Settled => \A i \in DOMAIN now :
            LET copied == Duplicated(cfg, i, CopyOf(now[i].name))
            IN  /\ Loads(Persisted(Toggled(cfg, i, FALSE)),
                         [CarriedAll(now) EXCEPT ![i].on = FALSE], need)
                /\ Loads(Persisted(copied), CarriedAll(copied), need)
                /\ \A j \in DOMAIN now : now[i].kind = now[j].kind =>
                    LET swapped == WithNames(doc, i, j)
                    IN  /\ need => Accepted(swapped, cfg)
                        /\ Loads(DocToYaml(swapped, cfg),
                                 [CarriedAll(now) EXCEPT ![i].name = now[j].name,
                                                         ![j].name = now[i].name], need)

(* The export reads back with every endpoint, name and credential, and     *)
(* with the lists of dropped parameters as they are: it may be imported    *)
(* and exported for ever.                                                  *)
ExportReadsBack ==
    LET back == Parse(BuildDoc(cfg))
    IN  Settled =>
        /\ back.options = cfg.options /\ back.drop = cfg.drop
        /\ NamesOf(back.accounts) = NamesOf(cfg.accounts)
        /\ \A i \in DOMAIN cfg.accounts :
              LET a == cfg.accounts[i]
                  b == AccountNamed(back, a.name)
              IN  b.key = a.key /\ b.kind = a.kind /\ b.order = a.order
                  /\ b.drop <= a.drop /\ (a.drop > 0) = (b.drop > 0)

-----------------------------------------------------------------------------
(* What the documents say and the code does not do.                        *)

(* "The same provider reached with two different credentials is two plans, *)
(* and merging them would invent an allowance that neither credential has" *)
(* (proxy.rs:119): an endpoint draws on the allowance of its own key.      *)
PlanOfItsKey ==
    Settled => \A i \in DOMAIN accounts.list :
        LET a == accounts.list[i] IN accounts.rts[a.name].group = AllowanceGroup(a)

=============================================================================
