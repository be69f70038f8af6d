----------------------------- MODULE Pipelines -----------------------------
(***************************************************************************)
(* The item pipelines: a chain of stages that open, process an item and    *)
(* close one after the other, the first failure ending the pass. A JSON    *)
(* file stage keeps an array of items on disk; its file outlives it.       *)
(*                                                                         *)
(* Every operation of one stage is an action: a JSON stage works behind    *)
(* its file mutex and without an await inside, so a pass along the chain   *)
(* can be overtaken by another one between two stages.                     *)
(***************************************************************************)
EXTENDS Integers, Sequences

CONSTANTS
    Chain,        \* the kind of each stage, in order
    Items,
    Rejected,     \* the items a filter stage turns down
    PipeFaults    \* the operations that may fail

\* "pass" is DummyPipeline and LogPipeline, "json" a JsonFilePipeline that
\* truncates its file, "append" one that does not. "custom" is a stage of the
\* user's own: PipelineType::Chained has none, so a chain with such a stage is
\* itself a user's Pipeline that calls its stages in order.
Kinds == {"pass", "filter", "json", "append", "custom"}

PipelinesConstants ==
    /\ Chain \in Seq(Kinds)
    /\ Items \cap {"[", ",", "]", "torn"} = {}
    /\ Rejected \subseteq Items
    /\ PipeFaults \subseteq {"open", "bracket", "write", "comma", "seal", "custom"}

VARIABLES
    content,   \* what is in the file of each stage
    handle,    \* whether its file handle is Some
    filed,     \* history: the items written to it since it was last opened
    spoiled    \* history: the stages that a failure touched or kept from
               \* running since they were last opened

pipeVars == <<content, handle, filed, spoiled>>

\* "[" is the array's opening with its newline, "," a comma and a newline and
\* "]" a newline and the closing bracket: two bytes each, an item has more.
\* "torn" is a piece of an item.
Tokens == Items \cup {"[", ",", "]", "torn"}

Stages == 1 .. Len(Chain)
Files == {i \in Stages : Chain[i] \in {"json", "append"}}

PipeTypeOK ==
    /\ content \in [Stages -> Seq(Tokens)]
    /\ handle \in [Stages -> BOOLEAN]
    /\ filed \in [Stages -> Seq(Items)]
    /\ spoiled \subseteq Stages

PipeInit ==
    /\ content = [i \in Stages |-> <<>>]
    /\ handle = [i \in Stages |-> FALSE]
    /\ filed = [i \in Stages |-> <<>>]
    /\ spoiled = {}

\* A failure at stage i leaves the pass there: the later stages do not run.
Spoils(i) == spoiled' = spoiled \cup {j \in Stages : j >= i}

-----------------------------------------------------------------------------
(* open_spider *)

\* File::create truncates, and the handle is set before the bracket is written.
OpenJson(i, ok) ==
    /\ Chain[i] = "json"
    /\ \/ /\ ok
          /\ content' = [content EXCEPT ![i] = <<"[">>]
          /\ handle' = [handle EXCEPT ![i] = TRUE]
          /\ filed' = [filed EXCEPT ![i] = <<>>]
          /\ spoiled' = spoiled \ {i}
       \/ /\ ~ok /\ "open" \in PipeFaults
          /\ Spoils(i)
          /\ UNCHANGED <<content, handle, filed>>
       \/ /\ ~ok /\ "bracket" \in PipeFaults
          /\ content' = [content EXCEPT ![i] = <<>>]
          /\ handle' = [handle EXCEPT ![i] = TRUE]
          /\ Spoils(i)
          /\ UNCHANGED filed

\* An appending stage writes nothing when it opens.
OpenAppend(i, ok) ==
    /\ Chain[i] = "append"
    /\ \/ /\ ok
          /\ handle' = [handle EXCEPT ![i] = TRUE]
          /\ filed' = [filed EXCEPT ![i] = <<>>]
          /\ spoiled' = spoiled \ {i}
       \/ ~ok /\ "open" \in PipeFaults /\ Spoils(i) /\ UNCHANGED <<handle, filed>>
    /\ UNCHANGED content

\* The trait's own open_spider and close_spider do nothing.
OtherHook(i, ok) ==
    /\ i \notin Files
    /\ \/ ok /\ UNCHANGED spoiled
       \/ ~ok /\ Chain[i] = "custom" /\ "custom" \in PipeFaults /\ Spoils(i)
    /\ UNCHANGED <<content, handle, filed>>

OpenStage(i, ok) == OpenJson(i, ok) \/ OpenAppend(i, ok) \/ OtherHook(i, ok)

-----------------------------------------------------------------------------
(* process_dynamic_item *)

Put(i, tokens) == content' = [content EXCEPT ![i] = @ \o tokens]

Records(i, x) == filed' = [filed EXCEPT ![i] = Append(@, x)]

\* The item, the comma and the flush; without a handle the stage does nothing
\* and reports no error.
WriteItem(i, x, ok) ==
    /\ i \in Files /\ UNCHANGED handle
    /\ \/ ok /\ handle[i] /\ Put(i, <<x, ",">>) /\ Records(i, x) /\ UNCHANGED spoiled
       \/ ok /\ ~handle[i] /\ UNCHANGED <<content, filed, spoiled>>
       \/ /\ ~ok /\ handle[i] /\ Spoils(i) /\ UNCHANGED filed
          /\ \/ "write" \in PipeFaults /\ Put(i, <<"torn">>)
             \/ "comma" \in PipeFaults /\ Put(i, <<x>>)

FilterItem(i, x, ok) ==
    /\ Chain[i] = "filter" /\ ok = (x \notin Rejected)
    /\ UNCHANGED pipeVars

PassItem(i, ok) ==
    /\ Chain[i] \in {"pass", "custom"}
    /\ ok \/ (Chain[i] = "custom" /\ "custom" \in PipeFaults)
    /\ UNCHANGED pipeVars

ProcessStage(i, x, ok) == WriteItem(i, x, ok) \/ FilterItem(i, x, ok) \/ PassItem(i, ok)

-----------------------------------------------------------------------------
(* close_spider *)

\* More than two bytes.
Long(c) == c # <<>> /\ c # <<"[">>

\* Two bytes back from the end, and the closing bracket. Appending ignores the
\* seek; what is overwritten is the last comma, or the end of an item that has
\* none.
Sealed(i, c) ==
    IF Chain[i] = "append" \/ ~Long(c) THEN Append(c, "]")
    ELSE IF c[Len(c)] = "," THEN [c EXCEPT ![Len(c)] = "]"]
    ELSE [c EXCEPT ![Len(c)] = "torn"] \o <<"]">>

\* The handle is taken first: a stage that failed to close is not closed again.
CloseFile(i, ok) ==
    /\ i \in Files
    /\ handle' = [handle EXCEPT ![i] = FALSE]
    /\ \/ /\ ok
          /\ content' = IF handle[i]
                        THEN [content EXCEPT ![i] = Sealed(i, @)]
                        ELSE content
          /\ UNCHANGED spoiled
       \/ ~ok /\ handle[i] /\ "seal" \in PipeFaults /\ Spoils(i) /\ UNCHANGED content
    /\ UNCHANGED filed

CloseStage(i, ok) == CloseFile(i, ok) \/ OtherHook(i, ok)

-----------------------------------------------------------------------------
(* What a file should look like *)

\* The JSON array of the items of s.
Rendered(s) ==
    IF s = <<>> THEN <<"[", "]">>
    ELSE [k \in 1 .. (2 * Len(s) + 1) |->
            IF k = 1 THEN "["
            ELSE IF k % 2 = 0 THEN s[k \div 2]
            ELSE IF k = 2 * Len(s) + 1 THEN "]" ELSE ","]

=============================================================================
