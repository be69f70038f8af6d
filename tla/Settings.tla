------------------------------- MODULE Settings -------------------------------
(***************************************************************************)
(* The settings of a crawler as values: what a load makes of the file that *)
(* save writes, and what the configuration adapters make of the result.    *)
(*                                                                         *)
(* A value is a shape and the command that gave it; 0 stands for the file  *)
(* that startproject writes. Keys are identifiers.                         *)
(***************************************************************************)
EXTENDS Integers

CONSTANTS
    Keys,
    Wanted,     \* the type the adapters ask for under each key
    Givers,     \* who gives values, 0 left out
    Later,      \* what the lines after the first of the text each of Givers
                \* gives assign, where they have an =
    Quotes      \* the givers of a text with a line that is an = and one quote

Formats == {"python", "json", "toml", "yaml"}
Types   == {"bool", "word", "natural", "number", "text", "list"}

\* What one line of a Python file can hold. "natural" fits 32 bits and "large" only
\* 64, "number" is negative or a fraction, "mixed" a list with something other than
\* texts in it; "cut" is the first line of a text, and a text again.
LineShapes == {"null", "bool", "natural", "large", "number", "text", "cut", "list", "mixed"}

\* What the command line's own parser makes of an argument: never a list. "broken"
\* is a text with a line break in it.
ArgumentShapes == {"null", "bool", "natural", "large", "number", "text", "broken"}

Unset == [shape |-> "unset", by |-> 0]

LineValues == [shape: LineShapes, by: Givers \cup {0}]
Values     == LineValues \cup [shape: {"broken"}, by: Givers]

Raws  == [Keys -> Values \cup {Unset}]
Lined == [Keys -> LineValues \cup {Unset}]

\* A file as a load finds it: what it reads, or a panic.
Found == [raw: Raws, panics: BOOLEAN]

Default == [k \in Keys |-> Unset]
Blank   == [raw |-> Default, panics |-> FALSE]

\* What the entry of the key k assigns. save writes a text between quotes as it is,
\* and from_python goes line by line: what stands after a line break is cut off, and
\* taken for an assignment of its own if it has an =, even one of k.
Lines(format, k, v) ==
    IF format = "python" /\ v.shape = "broken"
    THEN [j \in Keys |-> IF j # k \/ Later[v.by][j] # Unset THEN Later[v.by][j]
                         ELSE [v EXCEPT !.shape = "cut"]]
    ELSE [j \in Keys |-> IF j = k THEN v ELSE Unset]

\* The entry of k among the others, which have one line each: everything read from
\* a Python file has. Of two lines for one key the second counts, so an entry is
\* overruled if it is one of those before that of k.
Parsed(format, raw, k, before) ==
    LET lines == Lines(format, k, raw[k])
    IN  [j \in Keys |-> IF j = k \/ (lines[j] # Unset /\ (j \in before \/ raw[j] = Unset))
                        THEN lines[j] ELSE raw[j]]

\* The slice between the quotes of a value that is one quote is out of bounds.
Panics(format, v) == format = "python" /\ v.shape = "broken" /\ v.by \in Quotes

\* What a load may find in the file that save writes, after the value of k was set:
\* the entries come in the order of the map, which is any.
Rendered(format, raw, k) ==
    {[raw |-> Parsed(format, raw, k, before), panics |-> Panics(format, raw[k])] :
        before \in SUBSET Keys}

\* TOML has no null, and YAML is not compiled in.
Writable(format, raw) ==
    /\ format # "yaml"
    /\ format = "toml" => \A k \in Keys : raw[k].shape # "null"

\* What may be found if the writing of a file was cut short. JSON reports an error
\* and TOML may, so load_settings falls back to the defaults; a Python file is
\* read as far as it goes. That an entry may be cut within its value is left out.
Torn(format, whole) ==
    IF format = "json" THEN {Blank}
    ELSE {[raw |-> [k \in Keys |-> IF k \in kept THEN whole.raw[k] ELSE Unset], panics |-> p] :
            kept \in SUBSET Keys, p \in {FALSE, whole.panics}}

\* The shorter of two writes leaves the end of the longer one behind it, which counts
\* as it comes second; nothing is read if a character was cut.
Mixed(format, over, under) ==
    IF format = "json" THEN {Blank}
    ELSE {Blank} \cup
         {[raw |-> [k \in Keys |-> IF k \in left /\ under.raw[k] # Unset
                                   THEN under.raw[k] ELSE over.raw[k]],
           panics |-> over.panics \/ p] :
            left \in SUBSET Keys, p \in {FALSE, under.panics}}

\* Settings::get of that type succeeds.
Fits(v, type) ==
    v.shape \in CASE type = "bool"    -> {"bool"}
                  [] type = "word"    -> {"natural"}
                  [] type = "natural" -> {"natural", "large"}
                  [] type = "number"  -> {"natural", "large", "number"}
                  [] type = "text"    -> {"text", "broken", "cut"}
                  [] type = "list"    -> {"list"}

\* Mutation: a number of the wrong kind is converted.
ConfiguredLossy(raw) ==
    [k \in Keys |-> IF Fits(raw[k], IF Wanted[k] = "natural" THEN "number" ELSE Wanted[k])
                    THEN raw[k] ELSE Unset]

\* The adapters: the value under a key, or the default without a word.
Configured(raw) == [k \in Keys |-> IF Fits(raw[k], Wanted[k]) THEN raw[k] ELSE Unset]

=============================================================================
