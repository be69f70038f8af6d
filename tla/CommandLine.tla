----------------------------- MODULE CommandLine -----------------------------
(***************************************************************************)
(* The commands of scrapyrs in one project directory: startproject,        *)
(* genspider, settings NAME VALUE, crawl and runspider. Each is a process  *)
(* of its own that may be killed at any time; what they share is the       *)
(* settings file, the spiders directory and the file of a spider, none of  *)
(* which anybody locks. list and the reading forms of settings load the    *)
(* settings and change nothing, as the first step of crawl does.           *)
(***************************************************************************)
EXTENDS Sequences, FiniteSets, Settings

CONSTANTS
    Sets,          \* the commands settings NAME VALUE
    Starts, Gens,  \* startproject and genspider
    Crawls, Files, \* crawl, and runspider
    KeyOf, ShapeOf,   \* what each of Sets gives a value, and the value's shape
    Format,        \* that of the settings file
    Template,      \* the settings startproject writes, as a load reads them
    MaxKills       \* bound on the commands that are killed

Commands == Sets \cup Starts \cup Gens \cup Crawls \cup Files
Readers  == Crawls \cup Files

CommandLineConstants ==
    /\ Givers = Sets /\ 0 \notin Sets
    /\ Wanted \in [Keys -> Types]
    /\ Later \in [Givers -> [Keys -> LineValues \cup {Unset}]] /\ Quotes \subseteq Givers
    /\ KeyOf \in [Sets -> Keys] /\ ShapeOf \in [Sets -> ArgumentShapes]
    /\ Format \in Formats /\ MaxKills \in Nat
    /\ Template \in [Keys -> {Unset} \cup [shape: LineShapes, by: {0}]]
    /\ Starts # {} => Format = "python"  \* what it writes is settings.py
    /\ Sets \cap Starts = {} /\ Gens \cap Readers = {}
    /\ (Sets \cup Starts) \cap (Gens \cup Readers) = {}

ASSUME CommandLineAssumption == CommandLineConstants

VARIABLES
    file,     \* the settings file as a load finds it
    state,    \* whether it is empty, what one command has written, or neither
    dir,      \* whether the spiders directory exists
    spider,   \* the spider's file: absent, empty, or whose
    pc,       \* where each command stands
    mine,     \* the settings it has loaded
    config,   \* the configuration a crawl runs with
    log,      \* history: the successful writes of the settings file
    base      \* history: how many of them each command has read, -1 for a file
              \* that was not whole

vars == <<file, state, dir, spider, pc, mine, config, log, base>>

Places == {"begin", "find", "read", "load", "save", "write", "mkdir",
           "running", "done", "failed", "killed"}

\* What is read from a Python file, and what is not, has one line per value.
Read == IF Format = "python" THEN Lined ELSE Raws

TypeOK ==
    /\ file \in Found /\ file.raw \in Read
    /\ state \in {"empty", "whole", "torn"}
    /\ dir \in BOOLEAN
    /\ spider \in Gens \cup {"absent", "empty"}
    /\ pc \in [Commands -> Places]
    /\ mine \in [Commands -> Read]
    /\ config \in [Readers -> Read]
    /\ \A c \in Readers, k \in Keys : config[c][k] = Unset \/ Fits(config[c][k], Wanted[k])
    /\ log \in Seq(Sets \cup Starts)
    /\ base \in [Commands -> Int]

Init ==
    /\ file = Blank /\ state = "empty"
    /\ dir = FALSE /\ spider = "absent"
    /\ pc = [c \in Commands |-> "begin"]
    /\ mine = [c \in Commands |-> Default]
    /\ config = [c \in Readers |-> Default]
    /\ log = <<>>
    /\ base = [c \in Commands |-> -1]

Goes(c, from, to) == pc[c] = from /\ pc' = [pc EXCEPT ![c] = to]

\* load_settings: whatever cannot be read is replaced by the defaults.
Loads(c, from, to) ==
    IF file.panics
    THEN Goes(c, from, "failed") /\ UNCHANGED <<mine, base>>
    ELSE /\ Goes(c, from, to)
         /\ mine' = [mine EXCEPT ![c] = file.raw]
         /\ base' = [base EXCEPT ![c] = IF state = "whole" THEN Len(log) ELSE -1]

\* fs::write truncates the file when it opens it.
Truncates == file' = Blank /\ state' = "empty"

\* A write over what another command has written since may not replace it all.
Writes(c, written) ==
    /\ \/ file' = written /\ state' = "whole"
       \/ state # "empty" /\ file' \in Mixed(Format, written, file) /\ state' = "torn"
    /\ log' = Append(log, c)

-----------------------------------------------------------------------------
(* settings NAME VALUE *)

LoadToSet(c) ==
    /\ c \in Sets /\ Loads(c, "begin", "save")
    /\ UNCHANGED <<file, state, dir, spider, config, log>>

\* The value the command was given, and the settings it saves with it.
Value(c)   == [shape |-> ShapeOf[c], by |-> c]
Changed(c) == [mine[c] EXCEPT ![KeyOf[c]] = Value(c)]

\* The text of the file is made before the file is opened.
OpenToSave(c) ==
    /\ c \in Sets
    /\ IF Writable(Format, Changed(c))
       THEN Goes(c, "save", "write") /\ Truncates
       ELSE Goes(c, "save", "failed") /\ UNCHANGED <<file, state>>
    /\ UNCHANGED <<dir, spider, mine, config, log, base>>

\* Mutation: only the setting that was given is saved.
SaveAlone(c) ==
    /\ c \in Sets /\ Goes(c, "write", "done")
    /\ \E written \in Rendered(Format, [Default EXCEPT ![KeyOf[c]] = Value(c)], KeyOf[c]) :
          Writes(c, written)
    /\ UNCHANGED <<dir, spider, mine, config, base>>

Save(c) ==
    /\ c \in Sets /\ Goes(c, "write", "done")
    /\ \E written \in Rendered(Format, Changed(c), KeyOf[c]) : Writes(c, written)
    /\ UNCHANGED <<dir, spider, mine, config, base>>

-----------------------------------------------------------------------------
(* startproject and genspider *)

TemplateFile == [raw |-> Template, panics |-> FALSE]

\* It asks for no earlier settings file.
OpenTemplate(c) ==
    /\ c \in Starts /\ Goes(c, "begin", "write") /\ Truncates
    /\ UNCHANGED <<dir, spider, mine, config, log, base>>

WriteTemplate(c) ==
    /\ c \in Starts /\ Goes(c, "write", "mkdir")
    /\ Writes(c, TemplateFile)
    /\ UNCHANGED <<dir, spider, mine, config, base>>

\* The files it creates after the directory are read by nobody.
MakeSpiders(c) ==
    /\ c \in Starts /\ Goes(c, "mkdir", "done")
    /\ dir' = TRUE
    /\ UNCHANGED <<file, state, spider, mine, config, log, base>>

CheckSpider(c) ==
    /\ c \in Gens
    /\ Goes(c, "begin", IF dir /\ spider = "absent" THEN "save" ELSE "failed")
    /\ UNCHANGED <<file, state, dir, spider, mine, config, log, base>>

OpenSpider(c) ==
    /\ c \in Gens /\ Goes(c, "save", "write")
    /\ spider' = "empty"
    /\ UNCHANGED <<file, state, dir, mine, config, log, base>>

WriteSpider(c) ==
    /\ c \in Gens /\ Goes(c, "write", "done")
    /\ spider' = c
    /\ UNCHANGED <<file, state, dir, mine, config, log, base>>

-----------------------------------------------------------------------------
(* crawl and runspider *)

\* The settings are loaded once for nothing.
LoadToFind(c) ==
    /\ c \in Readers /\ Loads(c, "begin", "find")
    /\ UNCHANGED <<file, state, dir, spider, config, log>>

\* The spider's file is looked for, and read; nobody uses what it says.
FindSpider(c) ==
    /\ c \in Readers
    /\ Goes(c, "find", IF spider # "absent" /\ (dir \/ c \in Files) THEN "load" ELSE "failed")
    /\ UNCHANGED <<file, state, dir, spider, mine, config, log, base>>

LoadToRun(c) ==
    /\ c \in Readers /\ Loads(c, "load", "read")
    /\ UNCHANGED <<file, state, dir, spider, config, log>>

\* Mutation: the adapters take a value of whatever type.
ConfigureUnchecked(c) ==
    /\ c \in Readers /\ Goes(c, "read", "running")
    /\ config' = [config EXCEPT ![c] = mine[c]]
    /\ UNCHANGED <<file, state, dir, spider, mine, log, base>>

Configure(c) ==
    /\ c \in Readers /\ Goes(c, "read", "running")
    /\ config' = [config EXCEPT ![c] = Configured(mine[c])]
    /\ UNCHANGED <<file, state, dir, spider, mine, log, base>>

-----------------------------------------------------------------------------
(* A command is killed *)

Ended(c) == pc[c] \in {"running", "done", "failed", "killed"}

\* Its write may have got some of the way; over another's, it is left out.
Cut(c) ==
    \/ UNCHANGED <<file, state, spider>>
    \/ /\ pc[c] = "write" /\ state = "empty"
       /\ \/ c \in Starts /\ file' \in Torn(Format, TemplateFile)
          \/ c \in Sets /\ \E written \in Rendered(Format, Changed(c), KeyOf[c]) :
                               file' \in Torn(Format, written)
       /\ state' = "torn" /\ UNCHANGED spider

Kill(c) ==
    /\ ~Ended(c)
    /\ Cardinality({d \in Commands : pc[d] = "killed"}) < MaxKills
    /\ pc' = [pc EXCEPT ![c] = "killed"]
    /\ Cut(c)
    /\ UNCHANGED <<dir, mine, config, log, base>>

Step(c) ==
    \/ LoadToSet(c) \/ OpenToSave(c) \/ Save(c)
    \/ OpenTemplate(c) \/ WriteTemplate(c) \/ MakeSpiders(c)
    \/ CheckSpider(c) \/ OpenSpider(c) \/ WriteSpider(c)
    \/ LoadToFind(c) \/ FindSpider(c) \/ LoadToRun(c) \/ Configure(c)
    \/ Kill(c)

Next == \E c \in Commands : Step(c)

Spec == Init /\ [][Next]_vars

-----------------------------------------------------------------------------
(* Properties *)

\* What the entry that command c adds assigns, under its own key and others.
Gives(c) == Lines(Format, KeyOf[c], Value(c))

\* What write number i put under its own key.
Given(i) == Gives(log[i])[KeyOf[log[i]]]

\* Of the first n writes, one after number i has given that key another value, in
\* its own entry or in a later line of its text, or comes from a command that had
\* not read the file with write number i.
Overtaken(i, n) ==
    \E j \in (i + 1) .. n :
        \/ base[log[j]] < i
        \/ log[j] \in Sets /\ Gives(log[j])[KeyOf[log[i]]] # Unset

\* The settings raw hold what the first n writes gave, as far as it was not
\* overtaken.
Keeps(raw, n) ==
    \A i \in 1 .. n :
        log[i] \in Sets => raw[KeyOf[log[i]]] = Given(i) \/ Overtaken(i, n)

\* A setting that was saved stays in the file, as the format renders it, until a
\* command that had read the file before, or could not read it, overwrites it, or
\* one whose text or whose key assigns the same key. If the file cannot be loaded
\* any more, the last command has put a text with a lone quote in it: what a load
\* has read can always be read again (main.rs manage_settings, settings.rs
\* from_python and save).
SetsKept ==
    state = "whole" =>
        IF file.panics
        THEN log[Len(log)] \in Sets /\ Panics(Format, Value(log[Len(log)]))
        ELSE Keeps(file.raw, Len(log))

\* A crawl that found the file whole runs with every setting saved until then
\* that was not overtaken, or with the default where the value's type is another
\* than the adapter asks for (main.rs run_spider_file, config_adapters.rs).
CrawlSees ==
    \A c \in Readers :
        pc[c] = "running" =>
            \A i \in 1 .. base[c] :
                log[i] \in Sets =>
                    LET k == KeyOf[log[i]]
                    IN  \/ config[c][k] = IF Fits(Given(i), Wanted[k]) THEN Given(i) ELSE Unset
                        \/ Overtaken(i, base[c])

-----------------------------------------------------------------------------
(* The inductive invariant *)

\* Why: who has written never loads again, so what it had read stays fixed.
WritersPast == \A i \in DOMAIN log : pc[log[i]] \in {"mkdir", "done", "killed"}

\* Why: startproject overtakes everything, as it has read nothing.
StartsBlind == \A c \in Starts : base[c] = -1

\* Why: a command saves, and a crawl runs with, what it has loaded.
ReadsKept ==
    \A c \in Commands : base[c] <= Len(log) /\ Keeps(mine[c], base[c])

\* The conjunction that is inductive.
IInv ==
    /\ TypeOK /\ WritersPast /\ StartsBlind
    /\ ReadsKept /\ SetsKept /\ CrawlSees

=============================================================================
