------------------------- MODULE CommandLineProofs -------------------------
(***************************************************************************)
(* Proofs about CommandLine for any commands, keys, formats and kills.     *)
(***************************************************************************)
EXTENDS CommandLine, TLAPS

Slots == Values \cup {Unset}

\* The entry of a value with one line assigns that value; any other assigns values
\* with one line. Its own key is always among them.
LEMMA EntryLines ==
    ASSUME CommandLineConstants, NEW k \in Keys, NEW v \in Slots
    PROVE  /\ Format = "python" => Lines(Format, k, v) \in Lined
           /\ Lines(Format, k, v) \in Raws
           /\ v \in Values => Lines(Format, k, v)[k] # Unset
           /\ v.shape # "broken" \/ Format # "python" =>
                 Lines(Format, k, v) = [j \in Keys |-> IF j = k THEN v ELSE Unset]
<1> USE DEF Slots, Values, Lined, Raws
<1>0. v.shape = "broken" => v.by \in Givers
  BY DEF LineValues, LineShapes, Unset
<1>1. CASE Format = "python" /\ v.shape = "broken"
  <2>1. PICK later : later = Later[v.by]
    OBVIOUS
  <2>2. later \in [Keys -> LineValues \cup {Unset}]
    BY <1>0, <1>1, <2>1 DEF CommandLineConstants
  <2>3. PICK cut : cut = [v EXCEPT !.shape = "cut"]
    OBVIOUS
  <2>4. cut \in LineValues /\ cut.shape = "cut"
    BY <1>1, <2>3 DEF LineValues, LineShapes, Unset
  <2>5. Lines(Format, k, v) = [j \in Keys |-> IF j # k \/ later[j] # Unset THEN later[j] ELSE cut]
    BY <1>1, <2>1, <2>3 DEF Lines
  <2>6. Lines(Format, k, v) \in Lined
    BY <2>2, <2>4, <2>5
  <2>7. Lines(Format, k, v)[k] # Unset
    BY <2>4, <2>5 DEF Unset
  <2> QED
    BY <1>1, <2>6, <2>7
<1>2. CASE ~(Format = "python" /\ v.shape = "broken")
  <2>1. Lines(Format, k, v) = [j \in Keys |-> IF j = k THEN v ELSE Unset]
    BY <1>2 DEF Lines
  <2>2. v \in Values => v # Unset
    BY DEF LineValues, LineShapes, Unset
  <2>3. Format = "python" => v \in LineValues \cup {Unset}
    BY <1>2
  <2> QED
    BY <2>1, <2>2, <2>3
<1> QED
  BY <1>1, <1>2

\* What a load makes of a file with one new entry: the settings as they were, but
\* for what the lines of that entry assign.
LEMMA ParsedKeeps ==
    ASSUME CommandLineConstants, NEW raw \in Read, NEW k \in Keys, NEW v \in Values,
           NEW before \in SUBSET Keys
    PROVE  LET changed == [raw EXCEPT ![k] = v]
               lines   == Lines(Format, k, v)
           IN  /\ Parsed(Format, changed, k, before) \in Read
               /\ Parsed(Format, changed, k, before)[k] = lines[k]
               /\ \A j \in Keys : lines[j] = Unset /\ j # k =>
                     Parsed(Format, changed, k, before)[j] = raw[j]
<1> DEFINE changed == [raw EXCEPT ![k] = v]
           lines   == Lines(Format, k, v)
<1>1. raw \in Raws /\ (Format = "python" => raw \in Lined)
  BY DEF Read, Raws, Lined, Values
<1>2. changed[k] = v /\ \A j \in Keys : j # k => changed[j] = raw[j]
  BY <1>1 DEF Raws
<1>3. Parsed(Format, changed, k, before) =
        [j \in Keys |-> IF j = k \/ (lines[j] # Unset /\ (j \in before \/ changed[j] = Unset))
                        THEN lines[j] ELSE changed[j]]
  BY <1>2 DEF Parsed
<1>4. lines \in Read
  BY EntryLines DEF Read, Slots
<1>5. CASE Format = "python"
  <2>1. Read = [Keys -> LineValues \cup {Unset}]
    BY <1>5 DEF Read, Lined
  <2> QED
    BY <2>1, <1>2, <1>3, <1>4
<1>6. CASE Format # "python"
  <2>1. Read = [Keys -> Values \cup {Unset}]
    BY <1>6 DEF Read, Raws
  <2> QED
    BY <2>1, <1>2, <1>3, <1>4
<1> QED
  BY <1>5, <1>6

\* What a command saves.
LEMMA ValueType ==
    ASSUME CommandLineConstants, NEW c \in Sets
    PROVE  Value(c) \in Values /\ KeyOf[c] \in Keys
<1>1. ShapeOf[c] \in ArgumentShapes /\ KeyOf[c] \in Keys /\ c \in Givers
  BY DEF CommandLineConstants
<1> QED
  BY <1>1 DEF Value, Values, LineValues, ArgumentShapes, LineShapes

\* A file found is one that can be read or that panics.
Texts == {f \in Found : f.raw \in Read}

LEMMA Written ==
    ASSUME CommandLineConstants, TypeOK, NEW c \in Sets,
           NEW written \in Rendered(Format, Changed(c), KeyOf[c])
    PROVE  /\ written \in Texts
           /\ written.panics = Panics(Format, Value(c))
           /\ written.raw[KeyOf[c]] = Gives(c)[KeyOf[c]]
           /\ \A j \in Keys : Gives(c)[j] = Unset /\ j # KeyOf[c] => written.raw[j] = mine[c][j]
<1>1. Value(c) \in Values /\ KeyOf[c] \in Keys /\ mine[c] \in Read
  BY ValueType DEF TypeOK, Commands
<1>2. Read \subseteq Raws
  BY DEF Read, Lined, Raws, Values
<1>3. Changed(c)[KeyOf[c]] = Value(c)
  BY <1>1, <1>2 DEF Changed, Raws
<1>4. PICK before \in SUBSET Keys :
         written = [raw |-> Parsed(Format, Changed(c), KeyOf[c], before),
                    panics |-> Panics(Format, Value(c))]
  BY <1>3 DEF Rendered
<1>5. /\ Parsed(Format, Changed(c), KeyOf[c], before) \in Read
      /\ Parsed(Format, Changed(c), KeyOf[c], before)[KeyOf[c]] = Gives(c)[KeyOf[c]]
      /\ \A j \in Keys : Gives(c)[j] = Unset /\ j # KeyOf[c] =>
            Parsed(Format, Changed(c), KeyOf[c], before)[j] = mine[c][j]
  BY <1>1, ParsedKeeps DEF Changed, Gives
<1>6. Panics(Format, Value(c)) \in BOOLEAN
  BY DEF Panics
<1> QED
  BY <1>2, <1>4, <1>5, <1>6 DEF Texts, Found

\* Neither a cut nor an overlapped write leaves anything but settings.
LEMMA Pieces ==
    ASSUME NEW over \in Texts, NEW under \in Texts
    PROVE  Torn(Format, over) \subseteq Texts /\ Mixed(Format, over, under) \subseteq Texts
<1>0. /\ over.raw \in Read /\ under.raw \in Read
      /\ over.panics \in BOOLEAN /\ under.panics \in BOOLEAN
  BY DEF Texts, Found
<1> DEFINE S == IF Format = "python" THEN LineValues \cup {Unset} ELSE Values \cup {Unset}
<1>1. Read = [Keys -> S] /\ Unset \in S /\ [Keys -> S] \subseteq Raws
  BY DEF Read, Lined, Raws, Values
<1> HIDE DEF S
<1>2. \A raw \in Read, p \in BOOLEAN : [raw |-> raw, panics |-> p] \in Texts
  BY <1>1 DEF Texts, Found
<1>3. Default \in Read
  BY <1>1 DEF Default
<1>4. \A kept \in SUBSET Keys : [k \in Keys |-> IF k \in kept THEN over.raw[k] ELSE Unset] \in Read
  BY <1>0, <1>1
<1>5. \A left \in SUBSET Keys :
        [k \in Keys |-> IF k \in left /\ under.raw[k] # Unset THEN under.raw[k] ELSE over.raw[k]] \in Read
  BY <1>0, <1>1
<1>6. Torn(Format, over) \subseteq Texts
  <2>1. Blank \in Texts
    BY <1>2, <1>3 DEF Blank
  <2>2. \A kept \in SUBSET Keys, p \in {FALSE, over.panics} :
          [raw |-> [k \in Keys |-> IF k \in kept THEN over.raw[k] ELSE Unset], panics |-> p] \in Texts
    BY <1>0, <1>2, <1>4
  <2>3. CASE Format = "json"
    BY <2>1, <2>3 DEF Torn
  <2>4. ASSUME Format # "json", NEW f \in Torn(Format, over) PROVE f \in Texts
    <3>1. PICK kept \in SUBSET Keys, p \in {FALSE, over.panics} :
             f = [raw |-> [k \in Keys |-> IF k \in kept THEN over.raw[k] ELSE Unset], panics |-> p]
      BY <2>4 DEF Torn
    <3> QED
      BY <3>1, <2>2
  <2> QED
    BY <2>3, <2>4
<1>7. Mixed(Format, over, under) \subseteq Texts
  <2>1. Blank \in Texts
    BY <1>2, <1>3 DEF Blank
  <2>2. \A left \in SUBSET Keys, p \in {FALSE, under.panics} :
          [raw |-> [k \in Keys |-> IF k \in left /\ under.raw[k] # Unset
                                   THEN under.raw[k] ELSE over.raw[k]],
           panics |-> over.panics \/ p] \in Texts
    BY <1>0, <1>2, <1>5
  <2>3. CASE Format = "json"
    BY <2>1, <2>3 DEF Mixed
  <2>4. ASSUME Format # "json", NEW f \in Mixed(Format, over, under), f # Blank
        PROVE  f \in Texts
    <3>1. PICK left \in SUBSET Keys, p \in {FALSE, under.panics} :
             f = [raw |-> [k \in Keys |-> IF k \in left /\ under.raw[k] # Unset
                                          THEN under.raw[k] ELSE over.raw[k]],
                  panics |-> over.panics \/ p]
      BY <2>4 DEF Mixed
    <3> QED
      BY <3>1, <2>2
  <2> QED
    BY <2>1, <2>3, <2>4
<1> QED
  BY <1>6, <1>7

\* The empty file and the template are files.
LEMMA GivenFiles == CommandLineConstants => Blank \in Texts /\ TemplateFile \in Texts
<1>1. ASSUME CommandLineConstants PROVE Default \in Read /\ Template \in Read /\ Read \subseteq Raws
  BY <1>1 DEF CommandLineConstants, Default, Read, Lined, Raws, Values, LineValues
<1> QED
  BY <1>1 DEF Blank, TemplateFile, Texts, Found

-----------------------------------------------------------------------------
(* Types *)

\* What a load leaves: the settings it has read, and how many writes these hold.
LEMMA LoadsType ==
    ASSUME TypeOK, NEW c \in Commands, NEW from, NEW to \in Places, Loads(c, from, to)
    PROVE  /\ pc' \in [Commands -> Places]
           /\ mine' \in [Commands -> Read]
           /\ base' \in [Commands -> Int]
<1>1. pc' = [pc EXCEPT ![c] = "failed"] \/ pc' = [pc EXCEPT ![c] = to]
  BY DEF Loads, Goes
<1>2. pc' \in [Commands -> Places]
  BY <1>1 DEF TypeOK, Places
<1>3. Len(log) \in Int /\ -1 \in Int
  BY DEF TypeOK
<1>4. base' \in [Commands -> Int]
  BY <1>3 DEF TypeOK, Loads
<1>5. mine' \in [Commands -> Read]
  BY DEF TypeOK, Loads
<1> QED
  BY <1>2, <1>4, <1>5

States == {"empty", "whole", "torn"}

\* A write leaves settings in the file and itself in the log.
LEMMA WritesType ==
    ASSUME TypeOK, NEW c \in Sets \cup Starts, NEW written \in Texts, Writes(c, written)
    PROVE  /\ file' \in Texts /\ state' \in States
           /\ log' \in Seq(Sets \cup Starts)
<1>1. file \in Texts
  BY DEF TypeOK, Texts
<1>2. Mixed(Format, written, file) \subseteq Texts
  BY <1>1, Pieces
<1>3. file' \in Texts /\ state' \in States
  BY <1>2 DEF Writes, States
<1>4. log' \in Seq(Sets \cup Starts)
  BY DEF TypeOK, Writes
<1> QED
  BY <1>3, <1>4

\* Every step keeps the types.
LEMMA TypeStep == TypeOK /\ [Next]_vars => TypeOK'
<1> SUFFICES ASSUME TypeOK, [Next]_vars PROVE TypeOK'
  OBVIOUS
<1> USE CommandLineAssumption DEF CommandLineConstants
<1>0. Blank \in Texts /\ TemplateFile \in Texts /\ Read \subseteq Raws
  BY GivenFiles DEF Read, Lined, Raws, Values
<1>1. CASE UNCHANGED vars
  BY <1>1 DEF TypeOK, vars, Fits
<1>2. ASSUME NEW c \in Commands, Step(c) PROVE TypeOK'
  <2>1. CASE LoadToSet(c)
    <3>1. "save" \in Places /\ Loads(c, "begin", "save")
      BY <2>1 DEF LoadToSet, Places
    <3>2. pc' \in [Commands -> Places] /\ mine' \in [Commands -> Read] /\ base' \in [Commands -> Int]
      BY <3>1, LoadsType
    <3> QED
      BY <2>1, <3>2 DEF LoadToSet, TypeOK, Fits
  <2>2. CASE OpenToSave(c)
    <3>1. pc' \in [Commands -> Places]
      BY <2>2 DEF OpenToSave, Goes, TypeOK, Places
    <3>2. file' \in Texts /\ state' \in States
      BY <2>2, <1>0 DEF OpenToSave, Truncates, TypeOK, Texts, States
    <3> QED
      BY <2>2, <3>1, <3>2 DEF OpenToSave, TypeOK, Fits, Texts, States
  <2>3. CASE Save(c)
    <3>1. pc' \in [Commands -> Places]
      BY <2>3 DEF Save, Goes, TypeOK, Places
    <3>2. PICK written \in Rendered(Format, Changed(c), KeyOf[c]) : Writes(c, written)
      BY <2>3 DEF Save
    <3>3. c \in Sets
      BY <2>3 DEF Save
    <3>4. written \in Texts
      BY <3>2, <3>3, Written, CommandLineAssumption
    <3>5. file' \in Texts /\ state' \in States /\ log' \in Seq(Sets \cup Starts)
      BY <3>2, <3>3, <3>4, WritesType
    <3> QED
      BY <2>3, <3>1, <3>5 DEF Save, TypeOK, Fits, Texts, States
  <2>4. CASE OpenTemplate(c)
    <3>1. pc' \in [Commands -> Places]
      BY <2>4 DEF OpenTemplate, Goes, TypeOK, Places
    <3> QED
      BY <2>4, <3>1, <1>0 DEF OpenTemplate, Truncates, TypeOK, Fits, Texts
  <2>5. CASE WriteTemplate(c)
    <3>1. pc' \in [Commands -> Places]
      BY <2>5 DEF WriteTemplate, Goes, TypeOK, Places
    <3>2. file' \in Texts /\ state' \in States /\ log' \in Seq(Sets \cup Starts)
      BY <2>5, <1>0, WritesType DEF WriteTemplate
    <3> QED
      BY <2>5, <3>1, <3>2 DEF WriteTemplate, TypeOK, Fits, Texts, States
  <2>6. CASE MakeSpiders(c)
    <3>1. pc' \in [Commands -> Places]
      BY <2>6 DEF MakeSpiders, Goes, TypeOK, Places
    <3> QED
      BY <2>6, <3>1 DEF MakeSpiders, TypeOK, Fits
  <2>7. CASE CheckSpider(c) \/ OpenSpider(c) \/ WriteSpider(c)
    <3>1. pc' \in [Commands -> Places]
      BY <2>7 DEF CheckSpider, OpenSpider, WriteSpider, Goes, TypeOK, Places
    <3>2. spider' \in Gens \cup {"absent", "empty"}
      BY <2>7 DEF CheckSpider, OpenSpider, WriteSpider, TypeOK
    <3> QED
      BY <2>7, <3>1, <3>2 DEF CheckSpider, OpenSpider, WriteSpider, TypeOK, Fits
  <2>8. CASE LoadToFind(c)
    <3>1. "find" \in Places /\ Loads(c, "begin", "find")
      BY <2>8 DEF LoadToFind, Places
    <3>2. pc' \in [Commands -> Places] /\ mine' \in [Commands -> Read] /\ base' \in [Commands -> Int]
      BY <3>1, LoadsType
    <3> QED
      BY <2>8, <3>2 DEF LoadToFind, TypeOK, Fits
  <2>9. CASE FindSpider(c)
    <3>1. pc' \in [Commands -> Places]
      BY <2>9 DEF FindSpider, Goes, TypeOK, Places
    <3> QED
      BY <2>9, <3>1 DEF FindSpider, TypeOK, Fits
  <2>10. CASE LoadToRun(c)
    <3>1. "read" \in Places /\ Loads(c, "load", "read")
      BY <2>10 DEF LoadToRun, Places
    <3>2. pc' \in [Commands -> Places] /\ mine' \in [Commands -> Read] /\ base' \in [Commands -> Int]
      BY <3>1, LoadsType
    <3> QED
      BY <2>10, <3>2 DEF LoadToRun, TypeOK, Fits
  <2>11. CASE Configure(c)
    <3>1. pc' \in [Commands -> Places]
      BY <2>11 DEF Configure, Goes, TypeOK, Places
    <3>2. c \in Readers /\ mine[c] \in Read /\ config' = [config EXCEPT ![c] = Configured(mine[c])]
      BY <2>11 DEF Configure, TypeOK
    <3>3. Configured(mine[c]) = [k \in Keys |-> IF Fits(mine[c][k], Wanted[k]) THEN mine[c][k] ELSE Unset]
      BY DEF Configured
    <3>4. Configured(mine[c]) \in Read
      BY <3>2, <3>3 DEF Read, Lined, Raws
    <3>5. \A k \in Keys : Configured(mine[c])[k] = Unset \/ Fits(Configured(mine[c])[k], Wanted[k])
      BY DEF Configured
    <3>6. /\ config' \in [Readers -> Read]
          /\ \A d \in Readers : config'[d] = IF d = c THEN Configured(mine[c]) ELSE config[d]
      BY <3>2, <3>4 DEF TypeOK
    <3>7. \A d \in Readers, k \in Keys : config'[d][k] = Unset \/ Fits(config'[d][k], Wanted[k])
      BY <3>5, <3>6 DEF TypeOK
    <3> QED
      BY <2>11, <3>1, <3>6, <3>7 DEF Configure, TypeOK
  <2>12. CASE Kill(c)
    <3>1. pc' \in [Commands -> Places]
      BY <2>12 DEF Kill, TypeOK, Places
    <3>2. file' \in Texts /\ state' \in States /\ spider' = spider
      <4>1. CASE UNCHANGED <<file, state, spider>>
        BY <4>1 DEF TypeOK, Texts, States
      <4>2. CASE file' \in Torn(Format, TemplateFile) /\ state' = "torn" /\ UNCHANGED spider
        BY <4>2, <1>0, Pieces DEF States
      <4>3. ASSUME c \in Sets, NEW written \in Rendered(Format, Changed(c), KeyOf[c]),
                   file' \in Torn(Format, written), state' = "torn", UNCHANGED spider
            PROVE  file' \in Texts /\ state' \in States /\ spider' = spider
        <5>1. written \in Texts
          BY <4>3, Written, CommandLineAssumption
        <5> QED
          BY <4>3, <5>1, Pieces DEF States
      <4> QED
        BY <2>12, <4>1, <4>2, <4>3 DEF Kill, Cut
    <3> QED
      BY <2>12, <3>1, <3>2 DEF Kill, TypeOK, Fits, Texts, States
  <2> QED
    BY <1>2, <2>1, <2>2, <2>3, <2>4, <2>5, <2>6, <2>7, <2>8, <2>9, <2>10, <2>11, <2>12 DEF Step
<1> QED
  BY <1>1, <1>2 DEF Next

-----------------------------------------------------------------------------
(* What a write and a load leave behind *)

\* The log only grows, and who is in it keeps what it had read.
Grows ==
    /\ log' \in Seq(Sets \cup Starts) /\ Len(log) <= Len(log')
    /\ \A j \in DOMAIN log : log'[j] = log[j] /\ base'[log[j]] = base[log[j]]

\* Writers stay past their loads, so the log grows and what it says stays true.
LEMMA LogStep ==
    TypeOK /\ WritersPast /\ StartsBlind /\ [Next]_vars
        => WritersPast' /\ StartsBlind' /\ Grows
<1> SUFFICES ASSUME TypeOK, WritersPast, StartsBlind, [Next]_vars
             PROVE  WritersPast' /\ StartsBlind' /\ Grows
  OBVIOUS
<1> USE CommandLineAssumption DEF CommandLineConstants
<1>0. log' \in Seq(Sets \cup Starts)
  BY TypeStep DEF TypeOK
<1>1. CASE UNCHANGED vars
  BY <1>1, <1>0 DEF vars, WritersPast, StartsBlind, Grows, TypeOK
<1>2. ASSUME NEW c \in Commands, Step(c) PROVE WritersPast' /\ StartsBlind' /\ Grows
  <2> DEFINE Past == {"mkdir", "done", "killed"}
  <2>1. ASSUME log' = log,
               pc[c] \in Past => pc'[c] \in Past,
               pc' \in [Commands -> Places],
               \A d \in Commands : d # c => pc'[d] = pc[d],
               \/ base' = base
               \/ pc[c] \notin Past /\ c \notin Starts /\ \E n \in Int : base' = [base EXCEPT ![c] = n]
        PROVE  WritersPast' /\ StartsBlind' /\ Grows
    <3>1. \A j \in DOMAIN log : log[j] \in Commands /\ pc[log[j]] \in Past
      BY DEF WritersPast, TypeOK, Commands
    <3>2. WritersPast'
      BY <2>1, <3>1 DEF WritersPast
    <3>3. StartsBlind'
      BY <2>1 DEF StartsBlind, TypeOK, Commands
    <3>4. \A j \in DOMAIN log : base'[log[j]] = base[log[j]]
      BY <2>1, <3>1 DEF TypeOK
    <3> QED
      BY <2>1, <3>2, <3>3, <3>4, <1>0 DEF Grows, TypeOK
  <2>2. ASSUME c \in Sets \cup Starts, log' = Append(log, c), base' = base,
               pc' = [pc EXCEPT ![c] = "done"] \/ pc' = [pc EXCEPT ![c] = "mkdir"]
        PROVE  WritersPast' /\ StartsBlind' /\ Grows
    <3>1. /\ Len(log') = Len(log) + 1 /\ log'[Len(log) + 1] = c
          /\ \A j \in DOMAIN log : log'[j] = log[j]
          /\ DOMAIN log' = 1 .. (Len(log) + 1) /\ DOMAIN log = 1 .. Len(log)
          /\ Len(log) \in Nat
      BY <2>2 DEF TypeOK
    <3>2. Grows
      BY <2>2, <3>1, <1>0 DEF Grows
    <3>3. ASSUME NEW i \in DOMAIN log' PROVE pc'[log'[i]] \in Past
      <4>1. CASE i = Len(log) + 1
        BY <4>1, <3>1, <2>2 DEF TypeOK
      <4>2. CASE i \in DOMAIN log
        <5>1. log'[i] = log[i] /\ pc[log[i]] \in Past /\ log[i] \in Commands
          BY <4>2, <3>1 DEF WritersPast, TypeOK, Commands
        <5> QED
          BY <5>1, <2>2 DEF TypeOK
      <4> QED
        BY <4>1, <4>2, <3>1
    <3> QED
      BY <2>2, <3>2, <3>3 DEF WritersPast, StartsBlind
  <2>3. pc' \in [Commands -> Places]
    BY TypeStep DEF TypeOK
  <2>4. CASE Save(c) \/ WriteTemplate(c)
    BY <2>4, <2>2 DEF Save, WriteTemplate, Writes, Goes
  <2>5. CASE LoadToSet(c) \/ LoadToFind(c) \/ LoadToRun(c)
    <3>1. /\ log' = log /\ pc[c] \in {"begin", "load"} /\ c \notin Starts
          /\ base' = base \/ \E n \in Int : base' = [base EXCEPT ![c] = n]
          /\ pc' = [pc EXCEPT ![c] = pc'[c]]
      <4>1. Len(log) \in Int /\ -1 \in Int
        BY DEF TypeOK
      <4>2. c \notin Starts /\ log' = log
        BY <2>5 DEF LoadToSet, LoadToFind, LoadToRun, Readers
      <4>3. PICK from \in {"begin", "load"}, to \in {"save", "find", "read"} : Loads(c, from, to)
        BY <2>5 DEF LoadToSet, LoadToFind, LoadToRun
      <4>4. base' = base \/ \E n \in Int : base' = [base EXCEPT ![c] = n]
        BY <4>1, <4>3 DEF Loads
      <4>5. pc[c] = from /\ pc' = [pc EXCEPT ![c] = pc'[c]]
        BY <4>3 DEF Loads, Goes, TypeOK
      <4> QED
        BY <4>2, <4>4, <4>5
    <3> QED
      BY <3>1, <2>1, <2>3 DEF TypeOK
  <2>6. CASE \/ OpenToSave(c) \/ OpenTemplate(c) \/ MakeSpiders(c) \/ CheckSpider(c)
             \/ OpenSpider(c) \/ WriteSpider(c) \/ FindSpider(c) \/ Configure(c) \/ Kill(c)
    <3>1. log' = log /\ base' = base
      BY <2>6 DEF OpenToSave, OpenTemplate, MakeSpiders, CheckSpider, OpenSpider,
                  WriteSpider, FindSpider, Configure, Kill
    <3>2. pc' = [pc EXCEPT ![c] = pc'[c]] /\ (pc[c] \in Past => pc'[c] \in Past)
      BY <2>6 DEF OpenToSave, OpenTemplate, MakeSpiders, CheckSpider, OpenSpider,
                  WriteSpider, FindSpider, Configure, Kill, Goes, Ended, TypeOK
    <3> QED
      BY <3>1, <3>2, <2>1, <2>3 DEF TypeOK
  <2> QED
    BY <1>2, <2>4, <2>5, <2>6 DEF Step
<1> QED
  BY <1>1, <1>2 DEF Next

\* What was said of a prefix of the log stays true when it grows.
LEMMA PrefixStays ==
    ASSUME TypeOK, Grows, NEW n \in Int, n <= Len(log), NEW i \in 1 .. n
    PROVE  /\ log'[i] = log[i]
           /\ Given(i)' = Given(i)
           /\ \A m \in Int : n <= m /\ m <= Len(log') /\ Overtaken(i, n) => Overtaken(i, m)'
<1>1. \A j \in 1 .. n : /\ log'[j] = log[j] /\ base'[log[j]] = base[log[j]]
                       /\ j \in DOMAIN log
  BY DEF TypeOK, Grows
<1>2. Given(i)' = Given(i)
  BY <1>1 DEF Given, Gives, Value
<1>3. ASSUME NEW m \in Int, n <= m, Overtaken(i, n) PROVE Overtaken(i, m)'
  <2>1. PICK j \in (i + 1) .. n :
           base[log[j]] < i \/ (log[j] \in Sets /\ Gives(log[j])[KeyOf[log[i]]] # Unset)
    BY <1>3 DEF Overtaken
  <2>2. j \in 1 .. n /\ j \in (i + 1) .. m
    BY <1>3
  <2>3. base'[log'[j]] < i \/ (log'[j] \in Sets /\ Gives(log'[j])[KeyOf[log'[i]]] # Unset)
    BY <1>1, <2>1, <2>2
  <2> QED
    BY <2>2, <2>3 DEF Overtaken, Gives, Value
<1> QED
  BY <1>1, <1>2, <1>3

\* Settings that keep what was written go on keeping it.
LEMMA KeepsStays ==
    ASSUME TypeOK, Grows, NEW raw, NEW n \in Int, n <= Len(log), Keeps(raw, n)
    PROVE  \A i \in 1 .. n : log'[i] \in Sets =>
                raw[KeyOf[log'[i]]] = Given(i)' \/ Overtaken(i, n)'
<1> SUFFICES ASSUME NEW i \in 1 .. n, log'[i] \in Sets
             PROVE  raw[KeyOf[log'[i]]] = Given(i)' \/ Overtaken(i, n)'
  OBVIOUS
<1>1. n <= Len(log')
  BY DEF TypeOK, Grows
<1>2. /\ log'[i] = log[i] /\ Given(i)' = Given(i)
      /\ Overtaken(i, n) => Overtaken(i, n)'
  BY <1>1, PrefixStays
<1> QED
  BY <1>2 DEF Keeps

-----------------------------------------------------------------------------
(* The parts of the invariant *)

\* A load reads what the file keeps; nobody else changes what a command has read.
LEMMA ReadsStep == IInv /\ [Next]_vars => ReadsKept'
<1> SUFFICES ASSUME IInv, [Next]_vars PROVE ReadsKept'
  OBVIOUS
<1> USE CommandLineAssumption DEF CommandLineConstants
<1>0. TypeOK /\ ReadsKept /\ SetsKept /\ Grows /\ TypeOK'
  BY LogStep, TypeStep DEF IInv
<1>1. SUFFICES ASSUME NEW d \in Commands
               PROVE  base'[d] <= Len(log') /\ Keeps(mine[d], base[d])'
  BY DEF ReadsKept
<1>2. Len(log) \in Nat /\ Len(log') \in Nat /\ Len(log) <= Len(log')
      /\ base[d] \in Int /\ base[d] <= Len(log) /\ Keeps(mine[d], base[d])
  BY <1>0 DEF TypeOK, Grows, ReadsKept
<1>3. ASSUME mine'[d] = mine[d], base'[d] = base[d]
      PROVE  base'[d] <= Len(log') /\ Keeps(mine[d], base[d])'
  <2>1. PICK raw : raw = mine[d]
    OBVIOUS
  <2>2. PICK n \in Int : n = base[d]
    BY <1>2
  <2>3. \A i \in 1 .. n : log'[i] \in Sets =>
            raw[KeyOf[log'[i]]] = Given(i)' \/ Overtaken(i, n)'
    BY <1>0, <1>2, <2>1, <2>2, KeepsStays
  <2>4. Keeps(raw, n)'
    BY <2>3 DEF Keeps
  <2>5. raw = mine'[d] /\ n = base'[d]
    BY <1>3, <2>1, <2>2
  <2>6. Keeps(mine[d], base[d])'
    BY <2>4, <2>5
  <2> QED
    BY <1>2, <1>3, <2>6
<1>4. ASSUME ~file.panics, log' = log,
             mine'[d] = file.raw, base'[d] = IF state = "whole" THEN Len(log) ELSE -1
      PROVE  base'[d] <= Len(log') /\ Keeps(mine[d], base[d])'
  <2>1. CASE state = "whole"
    <3>1. PICK raw : raw = file.raw
      OBVIOUS
    <3>2. PICK n \in Int : n = Len(log)
      BY <1>2
    <3>3. \A i \in 1 .. n : log'[i] \in Sets =>
              raw[KeyOf[log'[i]]] = Given(i)' \/ Overtaken(i, n)'
      BY <1>0, <1>2, <1>4, <2>1, <3>1, <3>2, KeepsStays DEF SetsKept
    <3>4. Keeps(raw, n)'
      BY <3>3 DEF Keeps
    <3>5. raw = mine'[d] /\ n = base'[d]
      BY <1>4, <2>1, <3>1, <3>2
    <3>6. Keeps(mine[d], base[d])'
      BY <3>4, <3>5
    <3> QED
      BY <1>2, <1>4, <2>1, <3>6
  <2>2. CASE state # "whole"
    <3>1. base'[d] = -1 /\ 1 .. base'[d] = {}
      BY <1>4, <2>2
    <3> QED
      BY <3>1, <1>2 DEF Keeps
  <2> QED
    BY <2>1, <2>2
<1>5. CASE UNCHANGED vars
  BY <1>5, <1>3 DEF vars
<1>6. ASSUME NEW c \in Commands, Step(c)
      PROVE  base'[d] <= Len(log') /\ Keeps(mine[d], base[d])'
  <2>1. CASE LoadToSet(c) \/ LoadToFind(c) \/ LoadToRun(c)
    <3>0. CASE file.panics
      BY <2>1, <3>0, <1>3 DEF LoadToSet, LoadToFind, LoadToRun, Loads
    <3>1. ~file.panics =>
            /\ mine' = [mine EXCEPT ![c] = file.raw] /\ log' = log
            /\ base' = [base EXCEPT ![c] = IF state = "whole" THEN Len(log) ELSE -1]
      BY <2>1 DEF LoadToSet, LoadToFind, LoadToRun, Loads
    <3>2. mine \in [Commands -> Read] /\ base \in [Commands -> Int]
      BY <1>0 DEF TypeOK
    <3>3. CASE c = d /\ ~file.panics
      BY <3>1, <3>2, <3>3, <1>4
    <3>4. CASE c # d /\ ~file.panics
      BY <3>1, <3>2, <3>4, <1>3
    <3> QED
      BY <3>0, <3>3, <3>4
  <2>2. CASE \/ Save(c) \/ WriteTemplate(c) \/ OpenToSave(c) \/ OpenTemplate(c)
             \/ MakeSpiders(c) \/ CheckSpider(c) \/ OpenSpider(c) \/ WriteSpider(c)
             \/ FindSpider(c) \/ Configure(c) \/ Kill(c)
    <3>1. mine' = mine /\ base' = base
      BY <2>2 DEF Save, WriteTemplate, OpenToSave, OpenTemplate, MakeSpiders, CheckSpider,
                  OpenSpider, WriteSpider, FindSpider, Configure, Kill
    <3> QED
      BY <3>1, <1>3
  <2> QED
    BY <1>6, <2>1, <2>2 DEF Step
<1> QED
  BY <1>5, <1>6 DEF Next

\* A write that replaces the file keeps what its author had read, adds what it
\* was given, and overtakes the rest.
LEMMA SetsStep == IInv /\ [Next]_vars => SetsKept'
<1> SUFFICES ASSUME IInv, [Next]_vars PROVE SetsKept'
  OBVIOUS
<1> USE CommandLineAssumption DEF CommandLineConstants
<1>0. TypeOK /\ ReadsKept /\ SetsKept /\ Grows /\ TypeOK' /\ StartsBlind
  BY LogStep, TypeStep DEF IInv
<1>1. Len(log) \in Nat /\ Len(log') \in Nat
  BY <1>0 DEF TypeOK
<1>2. ASSUME file' = file, state' = state, log' = log
      PROVE  SetsKept'
  <2>1. CASE state = "whole" /\ ~file.panics
    <3>1. PICK raw : raw = file.raw
      OBVIOUS
    <3>2. PICK n \in Int : n = Len(log)
      BY <1>1
    <3>3. \A i \in 1 .. n : log'[i] \in Sets =>
              raw[KeyOf[log'[i]]] = Given(i)' \/ Overtaken(i, n)'
      BY <1>0, <1>1, <1>2, <2>1, <3>1, <3>2, KeepsStays DEF SetsKept
    <3>4. Keeps(raw, n)'
      BY <3>3 DEF Keeps
    <3>5. raw = file.raw' /\ n = Len(log')
      BY <1>2, <3>1, <3>2
    <3>6. Keeps(file.raw, Len(log))'
      BY <3>4, <3>5
    <3> QED
      BY <1>2, <2>1, <3>6 DEF SetsKept
  <2>2. CASE ~(state = "whole" /\ ~file.panics)
    BY <1>0, <1>2, <2>2 DEF SetsKept, Value
  <2> QED
    BY <2>1, <2>2
<1>3. ASSUME NEW c \in Commands, Save(c), state' = "whole", ~file'.panics
      PROVE  Keeps(file.raw, Len(log))'
  <2>1. PICK n \in Nat : n = Len(log)
    BY <1>1
  <2>2. PICK written \in Rendered(Format, Changed(c), KeyOf[c]) : Writes(c, written)
    BY <1>3 DEF Save
  <2>3. /\ c \in Sets /\ log' = Append(log, c) /\ base' = base
        /\ file' = written
    BY <1>3, <2>2 DEF Save, Writes
  <2>4. /\ written.raw[KeyOf[c]] = Gives(c)[KeyOf[c]]
        /\ \A j \in Keys : Gives(c)[j] = Unset /\ j # KeyOf[c] => written.raw[j] = mine[c][j]
    BY <1>0, <2>3, Written
  <2>5. /\ Len(log') = n + 1 /\ log'[n + 1] = c
        /\ \A i \in 1 .. n : log'[i] = log[i]
    BY <2>1, <2>3, <1>0 DEF TypeOK
  <2>6. SUFFICES ASSUME NEW i \in 1 .. (n + 1), log'[i] \in Sets
                 PROVE  file'.raw[KeyOf[log'[i]]] = Given(i)' \/ Overtaken(i, n + 1)'
    BY <2>5 DEF Keeps
  <2> DEFINE k == KeyOf[log'[i]]
  <2>7. k \in Keys
    BY <2>6
  <2>8. CASE i = n + 1
    BY <2>3, <2>4, <2>5, <2>8 DEF Given, Gives, Value
  <2>9. CASE i # n + 1 /\ (base[c] < i \/ Gives(c)[k] # Unset)
    <3>1. n + 1 \in (i + 1) .. (n + 1)
      BY <2>6, <2>9
    <3>2. base'[log'[n + 1]] < i \/ (log'[n + 1] \in Sets /\ Gives(log'[n + 1])[k] # Unset)
      BY <2>3, <2>5, <2>9
    <3> QED
      BY <3>1, <3>2 DEF Overtaken, Gives, Value
  <2>10. CASE i # n + 1 /\ ~(base[c] < i) /\ Gives(c)[k] = Unset
    <3>1. PICK m \in Int : m = base[c]
      BY <1>0 DEF TypeOK
    <3>2. i \in 1 .. m /\ m <= n /\ i \in 1 .. n /\ Keeps(mine[c], m)
      BY <1>0, <2>1, <2>6, <2>10, <3>1 DEF ReadsKept
    <3>3. log[i] = log'[i]
      BY <2>5, <3>2
    <3>4. mine[c][k] = Given(i) \/ Overtaken(i, m)
      BY <3>2, <3>3, <2>6 DEF Keeps
    <3>5. Given(i)' = Given(i) /\ (Overtaken(i, m) => Overtaken(i, n + 1)')
      BY <1>0, <2>1, <2>5, <3>2, PrefixStays
    <3>6. Gives(c)[KeyOf[c]] # Unset
      <4>1. Value(c) \in Values /\ KeyOf[c] \in Keys
        BY <2>3, ValueType
      <4> QED
        BY <4>1, EntryLines DEF Gives, Slots
    <3>7. k # KeyOf[c]
      BY <2>10, <3>6
    <3>8. written.raw[k] = mine[c][k]
      BY <2>4, <2>7, <2>10, <3>7
    <3> QED
      BY <2>3, <3>4, <3>5, <3>8
  <2> QED
    BY <2>8, <2>9, <2>10
<1>4. ASSUME NEW c \in Commands, Save(c), state' = "whole", file'.panics
      PROVE  log'[Len(log')] \in Sets /\ Panics(Format, Value(log'[Len(log')]))
  <2>1. PICK written \in Rendered(Format, Changed(c), KeyOf[c]) : Writes(c, written)
    BY <1>4 DEF Save
  <2>2. c \in Sets /\ log' = Append(log, c) /\ file' = written
    BY <1>4, <2>1 DEF Save, Writes
  <2>3. Panics(Format, Value(c))
    BY <1>0, <1>4, <2>2, Written
  <2>4. log'[Len(log')] = c
    BY <1>0, <2>2 DEF TypeOK
  <2> QED
    BY <2>2, <2>3, <2>4
<1>5. ASSUME NEW c \in Commands, WriteTemplate(c), state' = "whole"
      PROVE  ~file'.panics /\ Keeps(file.raw, Len(log))'
  <2>1. PICK n \in Nat : n = Len(log)
    BY <1>1
  <2>2. /\ c \in Starts /\ log' = Append(log, c) /\ base' = base /\ base[c] = -1
        /\ file' = TemplateFile
    BY <1>5, <1>0 DEF WriteTemplate, Writes, StartsBlind
  <2>3. Len(log') = n + 1 /\ log'[n + 1] = c
    BY <2>1, <2>2, <1>0 DEF TypeOK
  <2>4. SUFFICES ASSUME NEW i \in 1 .. (n + 1), log'[i] \in Sets
                 PROVE  Overtaken(i, n + 1)'
    BY <2>2, <2>3 DEF Keeps, TemplateFile
  <2>5. i # n + 1
    BY <2>2, <2>3, <2>4
  <2>6. n + 1 \in (i + 1) .. (n + 1) /\ base'[log'[n + 1]] < i
    BY <2>2, <2>3, <2>4, <2>5
  <2> QED
    BY <2>6 DEF Overtaken
<1>6. CASE UNCHANGED vars
  BY <1>6, <1>2 DEF vars
<1>7. ASSUME NEW c \in Commands, Step(c) PROVE SetsKept'
  <2>1. CASE \/ LoadToSet(c) \/ LoadToFind(c) \/ LoadToRun(c) \/ MakeSpiders(c)
             \/ CheckSpider(c) \/ OpenSpider(c) \/ WriteSpider(c) \/ FindSpider(c)
             \/ Configure(c)
    <3>1. file' = file /\ state' = state /\ log' = log
      BY <2>1 DEF LoadToSet, LoadToFind, LoadToRun, MakeSpiders, CheckSpider, OpenSpider,
                  WriteSpider, FindSpider, Configure
    <3> QED
      BY <3>1, <1>2
  <2>2. CASE OpenToSave(c) \/ OpenTemplate(c) \/ Kill(c)
    <3>1. \/ file' = file /\ state' = state /\ log' = log
          \/ state' # "whole"
      BY <2>2 DEF OpenToSave, OpenTemplate, Kill, Cut, Truncates
    <3> QED
      BY <3>1, <1>2 DEF SetsKept
  <2>3. CASE Save(c)
    BY <2>3, <1>3, <1>4 DEF SetsKept, Value
  <2>4. CASE WriteTemplate(c)
    BY <2>4, <1>5 DEF SetsKept
  <2> QED
    BY <1>7, <2>1, <2>2, <2>3, <2>4 DEF Step
<1> QED
  BY <1>6, <1>7 DEF Next

\* A crawl is configured from what it has read, and stays as it is.
LEMMA CrawlStep == IInv /\ [Next]_vars => CrawlSees'
<1> SUFFICES ASSUME IInv, [Next]_vars PROVE CrawlSees'
  OBVIOUS
<1> USE CommandLineAssumption DEF CommandLineConstants
<1>0. TypeOK /\ ReadsKept /\ CrawlSees /\ Grows /\ TypeOK'
  BY LogStep, TypeStep DEF IInv
<1>1. Len(log) \in Nat /\ Len(log') \in Nat /\ Len(log) <= Len(log')
  BY <1>0 DEF TypeOK, Grows
<1> DEFINE Sees(d, i) ==
        \/ config[d][KeyOf[log[i]]] = IF Fits(Given(i), Wanted[KeyOf[log[i]]])
                                     THEN Given(i) ELSE Unset
        \/ Overtaken(i, base[d])
<1>2. SUFFICES ASSUME NEW d \in Readers, pc'[d] = "running",
                      NEW i \in 1 .. base'[d], log'[i] \in Sets
               PROVE  Sees(d, i)'
  BY DEF CrawlSees
<1>3. d \in Commands /\ base[d] \in Int /\ base[d] <= Len(log)
  BY <1>0 DEF TypeOK, ReadsKept, Commands, Readers
<1>4. ASSUME base'[d] = base[d],
             \/ config'[d] = config[d] /\ pc[d] = "running"
             \/ config'[d] = Configured(mine[d])
      PROVE  Sees(d, i)'
  <2>1. PICK n \in Int : n = base[d]
    BY <1>3
  <2>2. i \in 1 .. n /\ n <= Len(log) /\ n <= Len(log')
    BY <2>1, <1>1, <1>2, <1>3, <1>4
  <2>3. log'[i] = log[i] /\ Given(i)' = Given(i) /\ (Overtaken(i, n) => Overtaken(i, n)')
    BY <1>0, <2>2, PrefixStays
  <2>4. KeyOf[log[i]] \in Keys
    BY <2>3, <1>2
  <2>5. \/ config'[d][KeyOf[log[i]]] = IF Fits(Given(i), Wanted[KeyOf[log[i]]])
                                     THEN Given(i) ELSE Unset
        \/ Overtaken(i, n)
    <3>1. CASE config'[d] = config[d] /\ pc[d] = "running"
      BY <3>1, <1>0, <1>2, <2>1, <2>2, <2>3 DEF CrawlSees
    <3>2. CASE config'[d] = Configured(mine[d])
      <4>1. mine[d][KeyOf[log[i]]] = Given(i) \/ Overtaken(i, n)
        BY <1>0, <1>2, <1>3, <2>1, <2>2, <2>3 DEF ReadsKept, Keeps
      <4> QED
        BY <3>2, <4>1, <2>4 DEF Configured
    <3> QED
      BY <1>4, <3>1, <3>2
  <2>6. base'[d] = n
    BY <2>1, <1>4
  <2> QED
    BY <2>3, <2>5, <2>6
<1>5. CASE UNCHANGED vars
  BY <1>5, <1>4, <1>2 DEF vars
<1>6. ASSUME NEW c \in Commands, Step(c) PROVE Sees(d, i)'
  <2>1. CASE Configure(c) /\ c = d
    BY <2>1, <1>4, <1>0 DEF Configure, TypeOK
  <2>2. CASE c # d
    <3>1. pc'[d] = pc[d] /\ base'[d] = base[d]
      BY <1>6, <2>2, <1>0, <1>3 DEF Step, LoadToSet, LoadToFind, LoadToRun, MakeSpiders,
            CheckSpider, OpenSpider, WriteSpider, FindSpider, Configure, OpenToSave, Save,
            OpenTemplate, WriteTemplate, Kill, Goes, Loads, TypeOK
    <3>2. config'[d] = config[d]
      BY <1>6, <2>2, <1>0 DEF Step, LoadToSet, LoadToFind, LoadToRun, MakeSpiders,
            CheckSpider, OpenSpider, WriteSpider, FindSpider, Configure, OpenToSave, Save,
            OpenTemplate, WriteTemplate, Kill, TypeOK
    <3> QED
      BY <3>1, <3>2, <1>2, <1>4
  <2>3. CASE ~Configure(c) /\ c = d
    <3>1. pc'[c] # "running"
      BY <1>6, <2>3, <1>0, <1>3 DEF Step, LoadToSet, LoadToFind, LoadToRun, MakeSpiders,
            CheckSpider, OpenSpider, WriteSpider, FindSpider, OpenToSave, Save,
            OpenTemplate, WriteTemplate, Kill, Goes, Loads, TypeOK
    <3> QED
      BY <3>1, <2>3, <1>2
  <2> QED
    BY <2>1, <2>2, <2>3
<1> QED
  BY <1>5, <1>6 DEF Next

-----------------------------------------------------------------------------
(* Theorems *)

\* The invariant holds before the first command.
LEMMA CommandLineInit == Init => IInv
<1> SUFFICES ASSUME Init PROVE IInv
  OBVIOUS
<1> USE CommandLineAssumption DEF CommandLineConstants, Init
<1>1. Default \in Read /\ Blank \in Found /\ Blank.raw = Default
      /\ \A k \in Keys : Default[k] = Unset
  BY DEF Default, Blank, Found, Read, Raws, Lined
<1>2. TypeOK
  <2>1. /\ file \in Found /\ file.raw \in Read /\ state \in States /\ dir \in BOOLEAN
        /\ spider \in Gens \cup {"absent", "empty"}
    BY <1>1 DEF States
  <2>5. log \in Seq(Sets \cup Starts)
    OBVIOUS
  <2>2. pc \in [Commands -> Places] /\ mine \in [Commands -> Read]
    BY <1>1 DEF Places
  <2>3. config \in [Readers -> Read]
        /\ \A c \in Readers, k \in Keys : config[c][k] = Unset
    BY <1>1
  <2>4. base \in [Commands -> Int]
    BY -1 \in Int
  <2> QED
    BY <2>1, <2>2, <2>3, <2>4, <2>5 DEF TypeOK, States
<1>3. WritersPast /\ StartsBlind /\ SetsKept
  BY DEF WritersPast, StartsBlind, SetsKept, Commands
<1>4. ReadsKept
  <2>1. 1 .. -1 = {} /\ -1 <= Len(<<>>)
    OBVIOUS
  <2> QED
    BY <2>1 DEF ReadsKept, Keeps
<1>5. CrawlSees
  BY DEF CrawlSees, Readers, Commands
<1> QED
  BY <1>2, <1>3, <1>4, <1>5 DEF IInv

\* The invariant holds of every behaviour, for any commands, keys and format
\* (main.rs and settings.rs).
THEOREM Invariance == Spec => []IInv
<1>1. IInv /\ [Next]_vars => IInv'
  BY TypeStep, LogStep, ReadsStep, SetsStep, CrawlStep DEF IInv
<1> QED
  BY <1>1, CommandLineInit, PTL DEF Spec

\* The settings, the configurations and the log keep their types, and no value of
\* another type reaches a configuration (main.rs, config_adapters.rs).
THEOREM TypeCorrect == Spec => []TypeOK
<1>1. IInv => TypeOK
  BY DEF IInv
<1> QED
  BY <1>1, Invariance, PTL

\* Whatever commands race or are killed, a file that is whole has every saved
\* setting that no later writer was bound to overwrite (main.rs manage_settings,
\* settings.rs save and from_python).
THEOREM LosesNoSetting == Spec => []SetsKept
<1>1. IInv => SetsKept
  BY DEF IInv
<1> QED
  BY <1>1, Invariance, PTL

\* A crawl that found the file whole runs with what was saved before it read it
\* (main.rs run_spider_file, config_adapters.rs).
THEOREM CrawlsWithWhatWasSaved == Spec => []CrawlSees
<1>1. IInv => CrawlSees
  BY DEF IInv
<1> QED
  BY <1>1, Invariance, PTL

=============================================================================
