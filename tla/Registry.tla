------------------------------ MODULE Registry ------------------------------
(***************************************************************************)
(* The configuration file and the commands that edit it (main.rs: init,    *)
(* add, remove, write_config; config.rs: Config::validate).  Each command  *)
(* is a process of its own.  It reads the file, works on its copy, reads   *)
(* the file again to see that nobody has changed it, writes a temporary    *)
(* file and renames that over the configuration.  No lock is held: the     *)
(* comparison and the rename are two steps.                                *)
(*                                                                         *)
(* The text of a file is the document it parses to.  Of a document the     *)
(* model keeps what validation compares between its parts.                 *)
(***************************************************************************)
EXTENDS Naturals, FiniteSets

CONSTANTS
    Ids,             \* identifiers of sources and models
    Processes,       \* commands that run at the same time
    Missing,         \* there is no configuration file
    Ops,             \* the commands that are run
    Authored,        \* files an operator may have written before
    MaxRoutes,       \* 64 sources and 64 models
    MaxCommands      \* bound of the model: commands started

VARIABLES
    file,        \* the configuration on disk, or Missing
    proc,        \* each process's progress
    started,     \* commands started
    ledger,      \* history: the ids registered by the commands that succeeded
    writes,      \* history: how often the file was replaced
    overlap      \* history: a rename replaced a file newer than its comparison

vars == <<file, proc, started, ledger, writes, overlap>>

(* An McpSourceConfig or a ModelConfig.                                    *)
Entries == [id : Ids, kind : {"mcp", "model"}, shared : BOOLEAN,
            loopback : BOOLEAN, reviewed : BOOLEAN]

Documents == [remote : BOOLEAN, deny : BOOLEAN, entries : SUBSET Entries]

RegistryConstants ==
    /\ {MaxRoutes, MaxCommands} \subseteq Nat
    /\ Authored \subseteq Documents /\ Missing \notin Documents

Commands == [op : {"init", "force"}]
       \cup [op : {"remove"}, id : Ids]
       \cup [op : {"add"}, id : Ids, kind : {"mcp", "model"}, loopback : BOOLEAN]

Registered(doc) == IF doc = Missing THEN {} ELSE {e.id : e \in doc.entries}

-----------------------------------------------------------------------------

Kind(doc, kind) == {e \in doc.entries : e.kind = kind}

(* A remote listener needs a policy that denies by default and sources     *)
(* that may be shared between tenants, and reaches nothing on loopback.    *)
ValidRemote(doc) ==
    /\ doc.deny
    /\ \A e \in Kind(doc, "mcp") : e.shared
    /\ \A e \in doc.entries : ~e.loopback

Valid(doc) ==
    /\ doc.remote => ValidRemote(doc)
    /\ Cardinality(Kind(doc, "mcp")) <= MaxRoutes
    /\ Cardinality(Kind(doc, "model")) <= MaxRoutes
    /\ \A e, f \in doc.entries : e.id = f.id => e = f
    /\ \A e \in Kind(doc, "mcp") : e.reviewed

default_config == [remote |-> FALSE, deny |-> TRUE, entries |-> {}]

(* What add registers is reviewed, and a source it adds is not shareable.  *)
Entry(c) == [id |-> c.id, kind |-> c.kind, shared |-> FALSE,
             loopback |-> c.loopback, reviewed |-> TRUE]

Pushed(doc, c) == [doc EXCEPT !.entries = @ \cup {Entry(c)}]

Retained(doc, c) == [doc EXCEPT !.entries = {e \in @ : e.id # c.id}]

-----------------------------------------------------------------------------

Idle == [pc |-> "idle", command |-> [op |-> "init"], expected |-> Missing,
         document |-> Missing, seen |-> 0]

Init ==
    /\ file \in Authored \cup {Missing}
    /\ proc = [p \in Processes |-> Idle]
    /\ started = 0
    /\ ledger = Registered(file)
    /\ writes = 0
    /\ overlap = FALSE

Start(p) ==
    /\ proc[p].pc = "idle"
    /\ started < MaxCommands
    /\ started' = started + 1
    /\ \E c \in Commands :
         /\ c.op \in Ops
         /\ proc' = [proc EXCEPT ![p] =
                       [Idle EXCEPT !.pc = "read", !.command = c]]
    /\ UNCHANGED <<file, ledger, writes, overlap>>

Fail(p) == proc' = [proc EXCEPT ![p] = Idle]

(* remove: the file must be valid with and without the entry.              *)
ReadToRemove(p) ==
    LET c == proc[p].command
        document == Retained(file, c)
    IN  /\ proc[p].pc = "read" /\ c.op = "remove"
        /\ IF /\ file # Missing
              /\ Valid(file)
              /\ c.id \in Registered(file)
              /\ Valid(document)
           THEN proc' = [proc EXCEPT ![p].pc = "compare", ![p].expected = file,
                                     ![p].document = document]
           ELSE Fail(p)
        /\ UNCHANGED <<file, started, ledger, writes, overlap>>

(* add: the file is read before its peer is asked what it offers.  Only    *)
(* the address is validated at this point.                                 *)
ReadToAdd(p) ==
    LET c == proc[p].command
    IN  /\ proc[p].pc = "read" /\ c.op = "add"
        /\ IF file # Missing /\ (file.remote => ~c.loopback)
           THEN proc' = [proc EXCEPT ![p].pc = "inspect", ![p].expected = file]
           ELSE Fail(p)
        /\ UNCHANGED <<file, started, ledger, writes, overlap>>

(* The peer answers, or not; the document with the new entry must be valid *)
(* and its ids distinct.                                                   *)
Inspected(p) ==
    LET c == proc[p].command
        document == Pushed(proc[p].expected, c)
    IN  /\ proc[p].pc = "inspect"
        /\ \/ /\ c.id \notin Registered(proc[p].expected)
              /\ Valid(document)
              /\ proc' = [proc EXCEPT ![p].pc = "compare",
                                      ![p].document = document]
           \/ Fail(p)
        /\ UNCHANGED <<file, started, ledger, writes, overlap>>

(* init: without --force an existing file ends the command.                *)
ReadToInitialize(p) ==
    LET c == proc[p].command
    IN  /\ proc[p].pc = "read" /\ c.op \in {"init", "force"}
        /\ IF file # Missing /\ c.op = "init"
           THEN Fail(p)
           ELSE proc' = [proc EXCEPT ![p].pc = "compare",
                                     ![p].document = default_config]
        /\ UNCHANGED <<file, started, ledger, writes, overlap>>

(* add and remove name the contents they read, init names none.            *)
Expects(p) == proc[p].command.op \in {"add", "remove"}

CompareAssumed(p) ==
    /\ proc[p].pc = "compare"
    /\ proc' = [proc EXCEPT ![p].pc = "persist", ![p].seen = writes]
    /\ UNCHANGED <<file, started, ledger, writes, overlap>>

(* write_config up to the temporary file: the file still holds what the    *)
(* command read, or the command gives up.                                  *)
Compare(p) ==
    /\ proc[p].pc = "compare"
    /\ \/ /\ Expects(p) => file = proc[p].expected
          /\ proc[p].command.op = "init" => file = Missing
          /\ proc' = [proc EXCEPT ![p].pc = "persist", ![p].seen = writes]
       \/ /\ \/ Expects(p) /\ file # proc[p].expected
             \/ proc[p].command.op = "init" /\ file # Missing
          /\ Fail(p)
    /\ UNCHANGED <<file, started, ledger, writes, overlap>>

Effect(c) ==
    CASE c.op = "add" -> ledger \cup {c.id}
      [] c.op = "remove" -> ledger \ {c.id}
      [] OTHER -> {}

PersistClobbering(p) ==
    LET c == proc[p].command
    IN  /\ proc[p].pc = "persist"
        /\ file' = proc[p].document
        /\ ledger' = IF c.op = "init" /\ file # Missing THEN ledger ELSE Effect(c)
        /\ writes' = writes + 1
        /\ overlap' = (overlap \/ (writes # proc[p].seen /\ c.op # "init"))
        /\ proc' = [proc EXCEPT ![p] = Idle]
        /\ UNCHANGED started

(* write_config from there: the rename.  init's refuses an existing file.  *)
Persist(p) ==
    LET c == proc[p].command
    IN  /\ proc[p].pc = "persist"
        /\ IF c.op = "init" /\ file # Missing
           THEN UNCHANGED <<file, ledger, writes, overlap>>
           ELSE /\ file' = proc[p].document
                /\ ledger' = Effect(c)
                /\ writes' = writes + 1
                /\ overlap' = (overlap \/ writes # proc[p].seen)
        /\ proc' = [proc EXCEPT ![p] = Idle]
        /\ UNCHANGED started

(* A command is killed, or a read or write of the disk fails: its          *)
(* temporary file is not the configuration.                                *)
Crash(p) ==
    /\ proc[p].pc # "idle"
    /\ Fail(p)
    /\ UNCHANGED <<file, started, ledger, writes, overlap>>

Done ==
    /\ started = MaxCommands
    /\ \A p \in Processes : proc[p].pc = "idle"
    /\ UNCHANGED vars

Next ==
    \/ \E p \in Processes :
         \/ Start(p)
         \/ ReadToRemove(p) \/ ReadToAdd(p) \/ Inspected(p)
         \/ ReadToInitialize(p)
         \/ Compare(p) \/ Persist(p) \/ Crash(p)
    \/ Done

Spec == Init /\ [][Next]_vars

-----------------------------------------------------------------------------

(* The file registers what the commands that succeeded said, one after the *)
(* other, unless a rename met a file replaced after that command had       *)
(* compared it: a command whose peer took its time to answer, an init      *)
(* racing another and a killed command lose nobody's edit.                 *)
EditsKept == Registered(file) = ledger \/ overlap

(* write_config answers GM_CONFIG_CONCURRENT_MODIFICATION when another     *)
(* command has edited the file meanwhile: no edit that was reported as     *)
(* done is lost to a command that had not seen it.  Not kept, and checked  *)
(* by no run: the comparison and the rename are two steps.                 *)
NoEditLost == Registered(file) = ledger

=============================================================================
