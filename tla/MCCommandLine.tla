---------------------------- MODULE MCCommandLine ----------------------------
(* Two texts with line breaks under a key that wants a list, as startproject   *)
(* has it, of which one assigns the other key a number of the wrong kind too   *)
(* and one has a lone quote, and a number of the right kind for the other key, *)
(* while a project is created and a spider generated and crawled.              *)
EXTENDS CommandLine, TLC

CONSTANTS s1, s2, s3, urls, limit

MCKeyOf    == s1 :> urls @@ s2 :> urls @@ s3 :> limit
MCShapeOf  == s1 :> "broken" @@ s2 :> "broken" @@ s3 :> "large"
MCWanted   == urls :> "list" @@ limit :> "natural"
MCLater    == [s \in Sets |-> IF s = s1
                              THEN [Default EXCEPT ![limit] = [shape |-> "number", by |-> s1]]
                              ELSE Default]
MCTemplate == urls :> [shape |-> "list", by |-> 0] @@ limit :> Unset

=============================================================================
