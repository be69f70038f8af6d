-------------------------- MODULE LifecycleProofs --------------------------
(***************************************************************************)
(* Proofs about Lifecycle for any pipelines, any tasks, any items, any     *)
(* faults and any number of calls: its variables keep their types, the     *)
(* file of a run that nobody cut short is whole, and closes that overtake  *)
(* the crawl lose little. What one operation of one stage does to the      *)
(* files is proved first, whoever calls it.                                *)
(***************************************************************************)
EXTENDS Lifecycle, FiniteSetTheorems, SequenceTheorems, TLAPS

-----------------------------------------------------------------------------
(* The array *)

\* Strings and items alike.
LEMMA AreTokens ==
    /\ "[" \in Tokens /\ "," \in Tokens /\ "]" \in Tokens /\ "torn" \in Tokens
    /\ \A x \in Items : x \in Tokens
  BY DEF Tokens

\* Sequences of one and of two.
LEMMA Short ==
    ASSUME NEW S, NEW a \in S, NEW b \in S
    PROVE  /\ <<a>> \in Seq(S) /\ Len(<<a>>) = 1 /\ <<a>>[1] = a
           /\ <<a, b>> \in Seq(S) /\ Len(<<a, b>>) = 2
           /\ <<a, b>>[1] = a /\ <<a, b>>[2] = b
           /\ Append(<<a>>, b) = <<a, b>>
<1>1. <<a>> \in Seq(S) /\ Len(<<a>>) = 1 /\ <<a>>[1] = a
  OBVIOUS
<1>2. <<a, b>> \in Seq(S) /\ Len(<<a, b>>) = 2
  OBVIOUS
<1>3. <<a, b>>[1] = a /\ <<a, b>>[2] = b
  OBVIOUS
<1>4. Append(<<a>>, b) = <<a, b>>
  <2>1. PICK c : c = Append(<<a>>, b)
    OBVIOUS
  <2>2. PICK d : d = <<a, b>>
    OBVIOUS
  <2>3. c \in Seq(S) /\ Len(c) = 2 /\ c[1] = a /\ c[2] = b
    BY <1>1, <2>1, AppendProperties
  <2>4. d \in Seq(S) /\ Len(d) = 2 /\ d[1] = a /\ d[2] = b
    BY <1>2, <1>3, <2>2
  <2>5. \A i \in 1 .. Len(c) : c[i] = d[i]
    BY <2>3, <2>4
  <2>6. c = d
    BY <2>3, <2>4, <2>5, SeqEqual
  <2> QED
    BY <2>1, <2>2, <2>6
<1> QED
  BY <1>1, <1>2, <1>3, <1>4

\* The tokens of an open array.
LEMMA OpenedTokens ==
    ASSUME NEW s \in Seq(Items)
    PROVE  /\ Opened(s) \in Seq(Tokens) /\ Len(Opened(s)) = 2 * Len(s) + 1
           /\ \A k \in 1 .. (2 * Len(s) + 1) :
                 Opened(s)[k] = IF k = 1 THEN "["
                                ELSE IF k % 2 = 0 THEN s[k \div 2] ELSE ","
<1>1. PICK n \in Nat : n = Len(s)
  OBVIOUS
<1>2. ASSUME NEW k \in 1 .. (2 * n + 1), k % 2 = 0
      PROVE  s[k \div 2] \in Items
  <2>1. k \div 2 \in 1 .. n
    BY <1>2
  <2> QED
    BY <1>1, <2>1, ElementOfSeq
<1>3. PICK f : f = Opened(s)
  OBVIOUS
<1>4. f = [k \in 1 .. (2 * n + 1) |->
             IF k = 1 THEN "[" ELSE IF k % 2 = 0 THEN s[k \div 2] ELSE ","]
  BY <1>1, <1>3 DEF Opened
<1>5. \A k \in 1 .. (2 * n + 1) :
         (IF k = 1 THEN "[" ELSE IF k % 2 = 0 THEN s[k \div 2] ELSE ",") \in Tokens
  BY <1>2 DEF Tokens
<1>6. f \in [1 .. (2 * n + 1) -> Tokens]
  BY <1>4, <1>5
<1>7. 2 * n + 1 \in Nat
  OBVIOUS
<1>8. f \in Seq(Tokens) /\ Len(f) = 2 * n + 1
  BY <1>6, <1>7
<1> QED
  BY <1>1, <1>3, <1>4, <1>8

\* The tokens of a closed one.
LEMMA RenderedTokens ==
    ASSUME NEW s \in Seq(Items), s # <<>>
    PROVE  /\ Rendered(s) \in Seq(Tokens) /\ Len(Rendered(s)) = 2 * Len(s) + 1
           /\ \A k \in 1 .. (2 * Len(s) + 1) :
                 Rendered(s)[k] = IF k = 2 * Len(s) + 1 THEN "]" ELSE Opened(s)[k]
<1>1. PICK n \in Nat : n = Len(s)
  OBVIOUS
<1>2. n > 0
  BY <1>1, EmptySeq
<1>3. PICK m \in Nat : m = 2 * n + 1
  OBVIOUS
<1>4. m > 1 /\ m % 2 # 0
  BY <1>2, <1>3
<1>5. PICK f : f = Rendered(s)
  OBVIOUS
<1>6. f = [k \in 1 .. m |->
             IF k = 1 THEN "[" ELSE IF k % 2 = 0 THEN s[k \div 2]
             ELSE IF k = m THEN "]" ELSE ","]
  BY <1>1, <1>3, <1>5 DEF Rendered
<1>7. PICK o : o = Opened(s)
  OBVIOUS
<1>8. /\ o \in Seq(Tokens) /\ Len(o) = m
      /\ \A k \in 1 .. m : o[k] = IF k = 1 THEN "["
                                  ELSE IF k % 2 = 0 THEN s[k \div 2] ELSE ","
  BY <1>1, <1>3, <1>7, OpenedTokens
<1>9. ASSUME NEW k \in 1 .. m PROVE f[k] = IF k = m THEN "]" ELSE o[k]
  <2>1. f[k] = IF k = 1 THEN "[" ELSE IF k % 2 = 0 THEN s[k \div 2]
               ELSE IF k = m THEN "]" ELSE ","
    BY <1>6
  <2>2. CASE k = m
    <3>1. k # 1 /\ k % 2 # 0
      BY <1>4, <2>2
    <3> QED
      BY <2>1, <2>2, <3>1
  <2>3. CASE k # m
    <3>1. o[k] = IF k = 1 THEN "[" ELSE IF k % 2 = 0 THEN s[k \div 2] ELSE ","
      BY <1>8
    <3> QED
      BY <2>1, <2>3, <3>1
  <2> QED
    BY <2>2, <2>3
<1>10. ASSUME NEW k \in 1 .. m PROVE f[k] \in Tokens
  BY <1>8, <1>9, AreTokens, ElementOfSeq
<1>11. f \in [1 .. m -> Tokens]
  BY <1>6, <1>10
<1>12. f \in Seq(Tokens) /\ Len(f) = m
  BY <1>11
<1> QED
  BY <1>1, <1>3, <1>5, <1>7, <1>9, <1>12

\* The array of nothing.
LEMMA RenderedEmpty == Rendered(<<>>) = <<"[", "]">> /\ Opened(<<>>) = <<"[">>
<1>1. Rendered(<<>>) = <<"[", "]">>
  BY DEF Rendered
<1>2. PICK o : o = Opened(<<>>)
  OBVIOUS
<1>3. PICK e : e = <<>>
  OBVIOUS
<1>4. e \in Seq(Items) /\ Len(e) = 0
  BY <1>3
<1>5. /\ o \in Seq(Tokens) /\ Len(o) = 2 * Len(e) + 1
      /\ \A k \in 1 .. (2 * Len(e) + 1) :
            o[k] = IF k = 1 THEN "[" ELSE IF k % 2 = 0 THEN e[k \div 2] ELSE ","
  BY <1>2, <1>3, <1>4, OpenedTokens
<1>6. 2 * Len(e) + 1 = 1 /\ 1 \in 1 .. (2 * Len(e) + 1)
  BY <1>4
<1>7. Len(o) = 1 /\ o[1] = "["
  BY <1>5, <1>6
<1>8. PICK b : b = <<"[">>
  OBVIOUS
<1>9. b \in Seq(Tokens) /\ Len(b) = 1 /\ b[1] = "["
  BY <1>8, AreTokens, Short
<1>10. o = b
  <2>1. \A k \in 1 .. Len(o) : o[k] = b[k]
    BY <1>9, <1>7
  <2> QED
    BY <1>5, <1>9, <1>7, <2>1, SeqEqual
<1> QED
  BY <1>1, <1>2, <1>8, <1>10

\* Writing an item and its comma.
LEMMA OpenedAppend ==
    ASSUME NEW s \in Seq(Items), NEW x \in Items
    PROVE  Opened(s) \o <<x, ",">> = Opened(Append(s, x))
<1>1. PICK n \in Nat : n = Len(s)
  OBVIOUS
<1>2. PICK t : t = Append(s, x)
  OBVIOUS
<1>3. t \in Seq(Items) /\ Len(t) = n + 1
  BY <1>1, <1>2, AppendProperties
<1>4. t[n + 1] = x /\ \A j \in 1 .. n : t[j] = s[j]
  BY <1>1, <1>2, AppendProperties
<1>5. PICK p : p = <<x, ",">>
  OBVIOUS
<1>6. p \in Seq(Tokens) /\ Len(p) = 2 /\ p[1] = x /\ p[2] = ","
  BY <1>5, AreTokens, Short
<1>7. PICK o : o = Opened(s)
  OBVIOUS
<1>8. /\ o \in Seq(Tokens) /\ Len(o) = 2 * n + 1
      /\ \A k \in 1 .. (2 * n + 1) :
            o[k] = IF k = 1 THEN "[" ELSE IF k % 2 = 0 THEN s[k \div 2] ELSE ","
  BY <1>1, <1>7, OpenedTokens
<1>9. PICK c : c = Opened(t)
  OBVIOUS
<1>10. /\ c \in Seq(Tokens) /\ Len(c) = 2 * (n + 1) + 1
       /\ \A k \in 1 .. (2 * (n + 1) + 1) :
             c[k] = IF k = 1 THEN "[" ELSE IF k % 2 = 0 THEN t[k \div 2] ELSE ","
  BY <1>3, <1>9, OpenedTokens
<1>11. PICK b : b = o \o p
  OBVIOUS
<1>12. /\ b \in Seq(Tokens) /\ Len(b) = 2 * n + 3
       /\ \A k \in 1 .. (2 * n + 3) :
             b[k] = IF k <= 2 * n + 1 THEN o[k] ELSE p[k - (2 * n + 1)]
  <2>1. /\ b \in Seq(Tokens) /\ Len(b) = Len(o) + Len(p)
        /\ \A k \in 1 .. Len(o) + Len(p) :
              b[k] = IF k <= Len(o) THEN o[k] ELSE p[k - Len(o)]
    BY <1>6, <1>8, <1>11, ConcatProperties
  <2>2. Len(o) = 2 * n + 1 /\ Len(p) = 2
    BY <1>6, <1>8
  <2>3. n \in Nat
    BY <1>1
  <2>4. Len(o) + Len(p) = 2 * n + 3
    BY <2>2, <2>3
  <2> QED
    BY <2>1, <2>2, <2>4
<1>13. ASSUME NEW k \in 1 .. (2 * n + 3) PROVE b[k] = c[k]
  <2>1. k \in 1 .. (2 * (n + 1) + 1)
    OBVIOUS
  <2>2. CASE k <= 2 * n + 1
    <3>1. k \in 1 .. (2 * n + 1) /\ (k % 2 = 0 => k \div 2 \in 1 .. n)
      BY <2>2
    <3>2. k % 2 = 0 => t[k \div 2] = s[k \div 2]
      BY <1>4, <3>1
    <3> QED
      BY <1>8, <1>10, <1>12, <2>1, <2>2, <3>1, <3>2
  <2>3. CASE k = 2 * n + 2
    <3>1. k % 2 = 0 /\ k \div 2 = n + 1 /\ k # 1 /\ k - (2 * n + 1) = 1
      BY <2>3
    <3>2. c[k] = t[n + 1]
      BY <1>10, <2>1, <3>1
    <3>3. b[k] = p[1]
      BY <1>12, <2>3, <3>1
    <3> QED
      BY <1>4, <1>6, <3>2, <3>3
  <2>4. CASE k = 2 * n + 3
    <3>1. k % 2 # 0 /\ k # 1 /\ k - (2 * n + 1) = 2
      BY <2>4
    <3>2. c[k] = ","
      BY <1>10, <2>1, <3>1
    <3>3. b[k] = p[2]
      BY <1>12, <2>4, <3>1
    <3> QED
      BY <1>6, <3>2, <3>3
  <2> QED
    BY <2>2, <2>3, <2>4
<1>14. Len(b) = Len(c) /\ \A k \in 1 .. Len(b) : b[k] = c[k]
  <2>1. Len(c) = 2 * (n + 1) + 1 /\ n \in Nat
    BY <1>1, <1>10
  <2>2. Len(c) = 2 * n + 3
    BY <2>1
  <2> QED
    BY <1>12, <1>13, <2>2
<1>15. b = c
  BY <1>10, <1>12, <1>14, SeqEqual
<1> QED
  BY <1>2, <1>5, <1>7, <1>9, <1>11, <1>15

\* Closing it two bytes from its end.
LEMMA OpenedSealed ==
    ASSUME NEW i \in Stages, Chain[i] = "json", NEW s \in Seq(Items)
    PROVE  Sealed(i, Opened(s)) = Rendered(s)
<1>1. CASE s = <<>>
  <2>1. PICK c : c = <<"[">>
    OBVIOUS
  <2>2. Sealed(i, c) = Append(c, "]")
    BY <2>1 DEF Sealed, Long
  <2>3. Append(c, "]") = <<"[", "]">>
    <3>1. PICK a : a = "["
      OBVIOUS
    <3>2. PICK b : b = "]"
      OBVIOUS
    <3>3. Append(<<a>>, b) = <<a, b>>
      <4>1. a \in Tokens /\ b \in Tokens
        BY <3>1, <3>2, AreTokens
      <4> QED
        BY <4>1, Short
    <3> QED
      BY <2>1, <3>1, <3>2, <3>3
  <2> QED
    BY <1>1, <2>1, <2>2, <2>3, RenderedEmpty
<1>2. CASE s # <<>>
  <2>1. PICK n \in Nat : n = Len(s)
    OBVIOUS
  <2>2. n > 0
    BY <1>2, <2>1, EmptySeq
  <2>3. PICK m \in Nat : m = 2 * n + 1
    OBVIOUS
  <2>4. m > 1 /\ m % 2 # 0 /\ m \in 1 .. m
    BY <2>2, <2>3
  <2>5. PICK c : c = Opened(s)
    OBVIOUS
  <2>6. /\ c \in Seq(Tokens) /\ Len(c) = m
        /\ \A k \in 1 .. m : c[k] = IF k = 1 THEN "["
                                    ELSE IF k % 2 = 0 THEN s[k \div 2] ELSE ","
    BY <2>1, <2>3, <2>5, OpenedTokens
  <2>7. c[m] = ","
    <3>1. c[m] = IF m = 1 THEN "[" ELSE IF m % 2 = 0 THEN s[m \div 2] ELSE ","
      BY <2>4, <2>6
    <3>2. m # 1 /\ m % 2 # 0
      BY <2>3, <2>4
    <3> QED
      BY <3>1, <3>2
  <2>8. PICK b : b = <<"[">>
    OBVIOUS
  <2>9. Len(b) = 1
    BY <2>8, AreTokens, Short
  <2>10. c # b /\ c # <<>>
    <3>1. Len(c) = m
      BY <2>6
    <3>2. Len(c) # Len(b) /\ Len(c) # 0
      BY <2>4, <2>9, <3>1
    <3> QED
      BY <3>2, EmptySeq
  <2>11. Sealed(i, c) = [c EXCEPT ![m] = "]"]
    BY <2>6, <2>7, <2>8, <2>10 DEF Sealed, Long
  <2>12. PICK d : d = [c EXCEPT ![m] = "]"]
    OBVIOUS
  <2>13. m \in 1 .. Len(c)
    BY <2>4, <2>6
  <2>14. d \in Seq(Tokens) /\ Len(d) = Len(c)
         /\ \A k \in 1 .. Len(c) : d[k] = IF k = m THEN "]" ELSE c[k]
    <3>1. PICK e \in Tokens : e = "]"
      BY AreTokens
    <3>2. /\ [c EXCEPT ![m] = e] \in Seq(Tokens)
          /\ Len([c EXCEPT ![m] = e]) = Len(c)
          /\ \A k \in 1 .. Len(c) : [c EXCEPT ![m] = e][k] = IF k = m THEN e ELSE c[k]
      <4>1. c \in Seq(Tokens) /\ e \in Tokens
        BY <2>6, <3>1
      <4> QED
        BY <2>13, <4>1, ExceptSeq
    <3>3. d = [c EXCEPT ![m] = e]
      BY <2>12, <3>1
    <3> QED
      BY <3>1, <3>2, <3>3
  <2>15. /\ Len(d) = m
         /\ \A k \in 1 .. m : d[k] = IF k = m THEN "]" ELSE c[k]
    BY <2>6, <2>14
  <2>16. PICK r : r = Rendered(s)
    OBVIOUS
  <2>17. /\ r \in Seq(Tokens) /\ Len(r) = m
         /\ \A k \in 1 .. m : r[k] = IF k = m THEN "]" ELSE c[k]
    BY <1>2, <2>1, <2>3, <2>5, <2>16, RenderedTokens
  <2>18. Len(d) = Len(r) /\ \A k \in 1 .. Len(d) : d[k] = r[k]
    BY <2>14, <2>15, <2>17
  <2>19. d = r
    BY <2>14, <2>17, <2>18, SeqEqual
  <2> QED
    BY <2>5, <2>11, <2>12, <2>16, <2>19
<1> QED
  BY <1>1, <1>2

-----------------------------------------------------------------------------
(* What one operation of one stage does *)

\* Stage j keeps its file, its handle and what was filed.
Keeps(j) ==
    content'[j] = content[j] /\ handle'[j] = handle[j] /\ filed'[j] = filed[j]

\* A chain is a finite sequence.
LEMMA ChainLength == Len(Chain) \in Nat
<1>1. Chain \in Seq(Kinds)
  BY LifecycleAssumption DEF LifecycleConstants, PipelinesConstants
<1> QED
  BY <1>1, LenProperties

\* A failure at stage i spoils the stages from there on.
LEMMA SpoilsAfter ==
    ASSUME PipeTypeOK, NEW i \in Stages, Spoils(i)
    PROVE  spoiled' \subseteq Stages /\ Intact' \subseteq Intact
           /\ \A j \in Intact' : j < i
<1>1. spoiled' = spoiled \cup {j \in Stages : j >= i}
  BY DEF Spoils
<1>2. spoiled' \subseteq Stages
  BY <1>1 DEF PipeTypeOK
<1>3. Intact' = {j \in Stages : Chain[j] = "json"} \ spoiled'
  BY DEF Intact
<1>4. Intact' \subseteq Intact
  BY <1>1, <1>3 DEF Intact
<1>5. ASSUME NEW j \in Intact' PROVE j < i
  <2>1. j \in Stages /\ j \notin spoiled'
    BY <1>3, <1>5
  <2>2. ~(j >= i)
    BY <1>1, <2>1
  <2>3. i \in Nat /\ j \in Nat
    BY <2>1, ChainLength DEF Stages
  <2> QED
    BY <2>2, <2>3
<1> QED
  BY <1>2, <1>4, <1>5

\* Opening.
LEMMA OpenTypes ==
    ASSUME PipeTypeOK, NEW i \in Stages, NEW ok \in BOOLEAN, OpenStage(i, ok)
    PROVE  PipeTypeOK'
<1>1. <<>> \in Seq(Items) /\ <<>> \in Seq(Tokens) /\ <<"[">> \in Seq(Tokens)
  <2>1. PICK a \in Tokens : a = "["
    BY AreTokens
  <2> QED
    BY <2>1, Short
<1>2. PICK o \in Seq(Tokens) : o = <<"[">>
  BY <1>1
<1>3. PICK e : e = <<>>
  OBVIOUS
<1>4. e \in Seq(Items) /\ e \in Seq(Tokens)
  BY <1>1, <1>3
<1>5. Spoils(i) => spoiled' \subseteq Stages
  BY SpoilsAfter
<1>6. CASE OpenJson(i, ok)
  <2>1. content' \in {content, [content EXCEPT ![i] = o], [content EXCEPT ![i] = e]}
    BY <1>2, <1>3, <1>6 DEF OpenJson
  <2>2. content' \in [Stages -> Seq(Tokens)]
    BY <1>4, <2>1 DEF PipeTypeOK
  <2>3. handle' \in {handle, [handle EXCEPT ![i] = TRUE]}
    BY <1>6 DEF OpenJson
  <2>4. filed' \in {filed, [filed EXCEPT ![i] = e]}
    BY <1>3, <1>6 DEF OpenJson
  <2>5. spoiled' \subseteq Stages
    BY <1>5, <1>6 DEF OpenJson, PipeTypeOK
  <2> QED
    BY <1>4, <2>2, <2>3, <2>4, <2>5 DEF PipeTypeOK
<1>7. CASE OpenAppend(i, ok)
  <2>1. content' = content /\ handle' \in {handle, [handle EXCEPT ![i] = TRUE]}
    BY <1>7 DEF OpenAppend
  <2>2. filed' \in {filed, [filed EXCEPT ![i] = e]}
    BY <1>3, <1>7 DEF OpenAppend
  <2>3. spoiled' \subseteq Stages
    BY <1>5, <1>7 DEF OpenAppend, PipeTypeOK
  <2> QED
    BY <1>4, <2>1, <2>2, <2>3 DEF PipeTypeOK
<1>8. CASE OtherHook(i, ok)
  <2>1. spoiled' \subseteq Stages
    BY <1>5, <1>8 DEF OtherHook, PipeTypeOK
  <2> QED
    BY <1>8, <2>1 DEF OtherHook, PipeTypeOK
<1> QED
  BY <1>6, <1>7, <1>8 DEF OpenStage

LEMMA OpenEffect ==
    ASSUME PipeTypeOK, NEW i \in Stages, NEW ok \in BOOLEAN, OpenStage(i, ok)
    PROVE  /\ \A j \in Intact' : j # i => j \in Intact /\ Keeps(j)
           /\ ~ok => \A j \in Intact' : j < i
           /\ i \in Intact' => handle'[i] /\ content'[i] = Opened(filed'[i])
<1>1. Spoils(i) => \A j \in Intact' : j < i /\ j \in Intact
  BY SpoilsAfter
<1>2. CASE OpenJson(i, ok)
  <2>1. \/ ok /\ spoiled' = spoiled \ {i}
        \/ ~ok /\ Spoils(i)
    BY <1>2 DEF OpenJson
  <2>2. \A j \in Stages : j # i => Keeps(j)
    BY <1>2 DEF OpenJson, PipeTypeOK, Keeps
  <2>3. \A j \in Intact' : j # i => j \in Intact
    BY <1>1, <2>1 DEF Intact
  <2>4. ~ok => \A j \in Intact' : j < i
    BY <1>1, <2>1
  <2>5. CASE ok
    <3>1. handle'[i] /\ content'[i] = <<"[">> /\ filed'[i] = <<>>
      BY <1>2, <2>5 DEF OpenJson, PipeTypeOK
    <3> QED
      BY <2>2, <2>3, <2>5, <3>1, RenderedEmpty DEF Intact
  <2>6. CASE ~ok
    <3>1. i \notin Intact'
      BY <2>4, <2>6 DEF Stages
    <3> QED
      BY <2>2, <2>3, <2>4, <3>1 DEF Intact
  <2> QED
    BY <2>5, <2>6
<1>3. CASE OpenAppend(i, ok)
  <2>1. i \notin Intact /\ i \notin Intact'
    BY <1>3 DEF OpenAppend, Intact
  <2>2. \/ ok /\ spoiled' = spoiled \ {i}
        \/ ~ok /\ Spoils(i)
    BY <1>3 DEF OpenAppend
  <2>3. \A j \in Stages : j # i => Keeps(j)
    BY <1>3 DEF OpenAppend, PipeTypeOK, Keeps
  <2> QED
    BY <1>1, <2>1, <2>2, <2>3 DEF Intact
<1>4. CASE OtherHook(i, ok)
  <2>1. i \notin Intact /\ i \notin Intact'
    BY <1>4 DEF OtherHook, Intact, Files
  <2>2. (ok /\ spoiled' = spoiled) \/ (~ok /\ Spoils(i))
    BY <1>4 DEF OtherHook
  <2>3. \A j \in Stages : Keeps(j)
    BY <1>4 DEF OtherHook, Keeps
  <2> QED
    BY <1>1, <2>1, <2>2, <2>3 DEF Intact
<1> QED
  BY <1>2, <1>3, <1>4 DEF OpenStage

\* Processing an item.
LEMMA ProcessTypes ==
    ASSUME PipeTypeOK, NEW i \in Stages, NEW x \in Items, NEW ok \in BOOLEAN,
           ProcessStage(i, x, ok)
    PROVE  PipeTypeOK'
<1>1. CASE WriteItem(i, x, ok)
  <2>1. handle' = handle
    BY <1>1 DEF WriteItem
  <2>2. content[i] \in Seq(Tokens) /\ filed[i] \in Seq(Items)
    BY DEF PipeTypeOK
  <2>3. /\ content[i] \o <<x, ",">> \in Seq(Tokens)
        /\ content[i] \o <<"torn">> \in Seq(Tokens)
        /\ content[i] \o <<x>> \in Seq(Tokens)
    <3>1. PICK a \in Tokens : a = ","
      BY AreTokens
    <3>2. PICK b \in Tokens : b = "torn"
      BY AreTokens
    <3>3. x \in Tokens
      BY AreTokens
    <3>4. <<x, a>> \in Seq(Tokens) /\ <<b>> \in Seq(Tokens) /\ <<x>> \in Seq(Tokens)
      BY <3>1, <3>2, <3>3, Short
    <3>5. /\ content[i] \o <<x, a>> \in Seq(Tokens)
          /\ content[i] \o <<b>> \in Seq(Tokens) /\ content[i] \o <<x>> \in Seq(Tokens)
      BY <2>2, <3>4, ConcatProperties
    <3> QED
      BY <3>1, <3>2, <3>5
  <2>4. Append(filed[i], x) \in Seq(Items)
    BY <2>2, AppendProperties
  <2>5. \E c \in Seq(Tokens) : content' = content \/ content' = [content EXCEPT ![i] = c]
    BY <1>1, <2>2, <2>3 DEF WriteItem, Put
  <2>6. filed' = filed \/ filed' = [filed EXCEPT ![i] = Append(filed[i], x)]
    BY <1>1 DEF WriteItem, Records
  <2>7. spoiled' \subseteq Stages
    BY <1>1, SpoilsAfter DEF WriteItem, PipeTypeOK
  <2>8. content' \in [Stages -> Seq(Tokens)]
    BY <2>5 DEF PipeTypeOK
  <2>9. filed' \in [Stages -> Seq(Items)]
    BY <2>4, <2>6 DEF PipeTypeOK
  <2> QED
    BY <2>1, <2>7, <2>8, <2>9 DEF PipeTypeOK
<1>2. CASE FilterItem(i, x, ok) \/ PassItem(i, ok)
  BY <1>2 DEF FilterItem, PassItem, pipeVars, PipeTypeOK
<1> QED
  BY <1>1, <1>2 DEF ProcessStage

\* No file loses an item to it, and an open one gets what passes.
LEMMA ProcessFiles ==
    ASSUME PipeTypeOK, NEW i \in Stages, NEW x \in Items, NEW ok \in BOOLEAN,
           ProcessStage(i, x, ok)
    PROVE  /\ handle' = handle /\ spoiled \subseteq spoiled'
           /\ \A j \in Stages, y \in Items : Filed(j, y) => Filed(j, y)'
           /\ ok /\ i \in Files /\ handle[i] => Filed(i, x)'
<1>1. CASE FilterItem(i, x, ok) \/ PassItem(i, ok)
  <2>1. UNCHANGED <<handle, filed, spoiled>> /\ i \notin Files
    BY <1>1 DEF FilterItem, PassItem, pipeVars, Files
  <2> QED
    BY <2>1 DEF Filed
<1>2. CASE WriteItem(i, x, ok)
  <2>1. handle' = handle /\ spoiled \subseteq spoiled'
    BY <1>2 DEF WriteItem, Spoils
  <2>2. CASE ok /\ handle[i]
    <3>1. filed' = [filed EXCEPT ![i] = Append(filed[i], x)]
      BY <1>2, <2>2 DEF WriteItem, Records
    <3>2. PICK f \in Seq(Items) : f = filed[i]
      BY DEF PipeTypeOK
    <3>3. PICK g \in Seq(Items) : g = Append(f, x)
      BY AppendProperties
    <3>4. Len(f) \in Nat /\ DOMAIN f = 1 .. Len(f) /\ DOMAIN g = 1 .. Len(g)
      BY LenProperties
    <3>5. Len(g) = Len(f) + 1 /\ g[Len(f) + 1] = x /\ \A k \in 1 .. Len(f) : g[k] = f[k]
      BY <3>3, AppendProperties
    <3>6. Len(f) + 1 \in DOMAIN g /\ \A k \in DOMAIN f : k \in DOMAIN g
      BY <3>4, <3>5
    <3>7. filed'[i] = g /\ \A j \in Stages : j # i => filed'[j] = filed[j]
      BY <3>1, <3>2, <3>3 DEF PipeTypeOK
    <3>8. Filed(i, x)'
      BY <3>5, <3>6, <3>7 DEF Filed
    <3>9. ASSUME NEW y \in Items, Filed(i, y) PROVE Filed(i, y)'
      BY <3>2, <3>4, <3>5, <3>6, <3>7, <3>9 DEF Filed
    <3>10. ASSUME NEW j \in Stages, j # i, NEW y \in Items, Filed(j, y) PROVE Filed(j, y)'
      BY <3>7, <3>10 DEF Filed
    <3> QED
      BY <2>1, <3>8, <3>9, <3>10
  <2>3. CASE ~(ok /\ handle[i])
    <3>1. filed' = filed
      BY <1>2, <2>3 DEF WriteItem
    <3> QED
      BY <2>1, <2>3, <3>1 DEF Filed
  <2> QED
    BY <2>2, <2>3
<1> QED
  BY <1>1, <1>2 DEF ProcessStage

LEMMA ProcessEffect ==
    ASSUME PipeTypeOK, FilesTracked, NEW i \in Stages, NEW x \in Items,
           NEW ok \in BOOLEAN, ProcessStage(i, x, ok)
    PROVE  /\ Intact' \subseteq Intact /\ handle' = handle
           /\ \A j \in Intact' : content[j] # <<>> => content'[j] # <<>>
           /\ FilesTracked'
           /\ \A j \in Intact', y \in Items : Filed(j, y) => Filed(j, y)'
           /\ ok /\ i \in Intact' /\ handle[i] => Filed(i, x)'
<1>1. /\ handle' = handle /\ Intact' \subseteq Intact
      /\ \A j \in Intact', y \in Items : Filed(j, y) => Filed(j, y)'
      /\ ok /\ i \in Intact' /\ handle[i] => Filed(i, x)'
  BY ProcessFiles DEF Intact, Files
<1>2. CASE FilterItem(i, x, ok) \/ PassItem(i, ok)
  <2>1. UNCHANGED <<content, handle, filed, spoiled>>
    BY <1>2 DEF FilterItem, PassItem, pipeVars
  <2>2. Intact' = Intact
    BY <2>1 DEF Intact
  <2>3. FilesTracked'
    BY <2>1, <2>2 DEF FilesTracked
  <2> QED
    BY <1>1, <2>1, <2>3
<1>3. CASE WriteItem(i, x, ok)
  <2>1. \A j \in Stages : j # i => Keeps(j)
    BY <1>3 DEF WriteItem, Put, Records, PipeTypeOK, Keeps
  <2>2. CASE ok /\ handle[i]
    <3>1. spoiled' = spoiled /\ Intact' = Intact
      BY <1>3, <2>2 DEF WriteItem, Intact
    <3>2. content'[i] = content[i] \o <<x, ",">> /\ filed'[i] = Append(filed[i], x)
      BY <1>3, <2>2 DEF WriteItem, Put, Records, PipeTypeOK
    <3>3. filed[i] \in Seq(Items) /\ content[i] \in Seq(Tokens)
      BY DEF PipeTypeOK
    <3>4. i \in Intact => content'[i] = Opened(filed'[i])
      BY <2>2, <3>2, <3>3, OpenedAppend DEF FilesTracked
    <3>5. FilesTracked'
      BY <1>1, <2>1, <2>2, <3>1, <3>4 DEF FilesTracked, Keeps, Intact
    <3>6. i \in Intact' => content'[i] # <<>>
      <4>1. PICK f \in Seq(Items) : f = filed'[i]
        BY <3>2, <3>3, AppendProperties
      <4>2. Len(Opened(f)) = 2 * Len(f) + 1 /\ Len(f) \in Nat
        BY OpenedTokens, LenProperties
      <4>3. Len(Opened(f)) # 0
        BY <4>2
      <4>4. Opened(f) # <<>>
        BY <4>3, EmptySeq
      <4> QED
        BY <3>1, <3>4, <4>1, <4>4
    <3>7. \A j \in Intact' : content[j] # <<>> => content'[j] # <<>>
      BY <2>1, <3>6 DEF Keeps, Intact
    <3> QED
      BY <1>1, <3>5, <3>7
  <2>3. CASE ok /\ ~handle[i]
    <3>1. UNCHANGED <<content, handle, filed, spoiled>>
      BY <1>3, <2>3 DEF WriteItem
    <3>2. Intact' = Intact
      BY <3>1 DEF Intact
    <3>3. FilesTracked'
      BY <3>1, <3>2 DEF FilesTracked
    <3> QED
      BY <1>1, <3>1, <3>3
  <2>4. CASE ~ok
    <3>1. Spoils(i)
      BY <1>3, <2>4 DEF WriteItem
    <3>2. Intact' \subseteq Intact /\ \A j \in Intact' : j < i
      BY <3>1, SpoilsAfter
    <3>3. i \notin Intact'
      BY <3>2 DEF Stages
    <3>4. \A j \in Intact' : Keeps(j)
      BY <2>1, <3>3 DEF Intact
    <3>5. FilesTracked'
      BY <3>2, <3>4 DEF FilesTracked, Keeps
    <3> QED
      BY <1>1, <3>4, <3>5 DEF Keeps
  <2> QED
    BY <2>2, <2>3, <2>4
<1> QED
  BY <1>2, <1>3 DEF ProcessStage

\* Closing.
LEMMA SealedTokens ==
    ASSUME NEW i \in Stages, NEW c \in Seq(Tokens)
    PROVE  Sealed(i, c) \in Seq(Tokens)
<1>1. PICK a \in Tokens : a = "]"
  BY AreTokens
<1>2. PICK b \in Tokens : b = "torn"
  BY AreTokens
<1>3. Append(c, a) \in Seq(Tokens)
  BY <1>1, AppendProperties
<1>4. CASE Long(c)
  <2>1. c # <<>>
    BY <1>4 DEF Long
  <2>2. Len(c) \in 1 .. Len(c)
    BY <2>1, EmptySeq
  <2>3. /\ [c EXCEPT ![Len(c)] = a] \in Seq(Tokens)
        /\ [c EXCEPT ![Len(c)] = b] \in Seq(Tokens)
    BY <1>1, <1>2, <2>2, ExceptSeq
  <2>4. [c EXCEPT ![Len(c)] = b] \o <<a>> \in Seq(Tokens)
    BY <1>1, <2>3, Short, ConcatProperties
  <2> QED
    BY <1>1, <1>2, <1>3, <2>3, <2>4 DEF Sealed
<1> QED
  BY <1>1, <1>3, <1>4 DEF Sealed

LEMMA CloseTypes ==
    ASSUME PipeTypeOK, NEW i \in Stages, NEW ok \in BOOLEAN, CloseStage(i, ok)
    PROVE  PipeTypeOK'
<1>1. CASE CloseFile(i, ok)
  <2>1. handle' = [handle EXCEPT ![i] = FALSE] /\ filed' = filed
    BY <1>1 DEF CloseFile
  <2>2. content' = content \/ content' = [content EXCEPT ![i] = Sealed(i, content[i])]
    BY <1>1 DEF CloseFile
  <2>3. content[i] \in Seq(Tokens)
    BY DEF PipeTypeOK
  <2>4. Sealed(i, content[i]) \in Seq(Tokens)
    BY <2>3, SealedTokens
  <2>5. content' \in [Stages -> Seq(Tokens)]
    BY <2>2, <2>4 DEF PipeTypeOK
  <2>6. spoiled' \subseteq Stages
    BY <1>1, SpoilsAfter DEF CloseFile, PipeTypeOK
  <2> QED
    BY <2>1, <2>5, <2>6 DEF PipeTypeOK
<1>2. CASE OtherHook(i, ok)
  BY <1>2, SpoilsAfter DEF OtherHook, PipeTypeOK
<1> QED
  BY <1>1, <1>2 DEF CloseStage

LEMMA CloseEffect ==
    ASSUME PipeTypeOK, FilesTracked, NEW i \in Stages, NEW ok \in BOOLEAN,
           CloseStage(i, ok)
    PROVE  /\ Intact' \subseteq Intact /\ filed' = filed
           /\ \A j \in Intact' : j # i => Keeps(j)
           /\ ~ok => \A j \in Intact' : j < i
           /\ i \in Intact' =>
                /\ ~handle'[i]
                /\ handle[i] => content'[i] # <<>>
                /\ ~handle[i] => content'[i] = content[i]
           /\ FilesTracked'
<1>1. filed' = filed
  BY DEF CloseStage, CloseFile, OtherHook
<1>2. (ok /\ spoiled' = spoiled) \/ (~ok /\ Spoils(i))
  BY DEF CloseStage, CloseFile, OtherHook
<1>3. /\ Intact' \subseteq Intact
      /\ ~ok => \A j \in Intact' : j < i
  BY <1>2, SpoilsAfter DEF Intact
<1>4. ~ok => i \notin Intact'
  BY <1>3 DEF Stages
<1>5. \A j \in Stages : j # i => Keeps(j)
  BY DEF CloseStage, CloseFile, OtherHook, PipeTypeOK, Keeps
<1>6. ASSUME i \in Intact'
      PROVE  /\ ~handle'[i]
             /\ ~handle[i] => content'[i] = content[i]
             /\ handle[i] => content'[i] # <<>> /\ content'[i] = Rendered(filed[i])
  <2>1. ok /\ i \in Intact /\ Chain[i] = "json"
    BY <1>3, <1>4, <1>6 DEF Intact
  <2>2. CloseFile(i, ok)
    BY <2>1 DEF CloseStage, OtherHook, Files
  <2>3. ~handle'[i]
    BY <2>2 DEF CloseFile, PipeTypeOK
  <2>4. ~handle[i] => content'[i] = content[i]
    BY <2>1, <2>2 DEF CloseFile
  <2>5. handle[i] => content'[i] = Sealed(i, content[i])
    BY <2>1, <2>2 DEF CloseFile, PipeTypeOK
  <2>6. handle[i] => content[i] = Opened(filed[i])
    BY <2>1 DEF FilesTracked
  <2>7. filed[i] \in Seq(Items)
    BY DEF PipeTypeOK
  <2>8. Sealed(i, Opened(filed[i])) = Rendered(filed[i])
    BY <2>1, <2>7, OpenedSealed
  <2>9. Rendered(filed[i]) # <<>>
    <3>1. CASE filed[i] = <<>>
      BY <3>1, RenderedEmpty
    <3>2. CASE filed[i] # <<>>
      <4>1. /\ Rendered(filed[i]) \in Seq(Tokens)
            /\ Len(Rendered(filed[i])) = 2 * Len(filed[i]) + 1
        BY <2>7, <3>2, RenderedTokens
      <4>2. Len(filed[i]) \in Nat
        BY <2>7, LenProperties
      <4>3. Len(Rendered(filed[i])) # 0
        BY <4>1, <4>2
      <4> QED
        BY <4>3, EmptySeq
    <3> QED
      BY <3>1, <3>2
  <2> QED
    BY <2>3, <2>4, <2>5, <2>6, <2>8, <2>9
<1>7. FilesTracked'
  <2> SUFFICES ASSUME NEW j \in Intact'
               PROVE  /\ handle'[j] => content'[j] = Opened(filed'[j])
                      /\ ~handle'[j] => content'[j] \in {<<>>, Rendered(filed'[j])}
    BY DEF FilesTracked
  <2>1. CASE j = i
    BY <1>1, <1>3, <1>6, <2>1 DEF FilesTracked
  <2>2. CASE j # i
    BY <1>3, <1>5, <2>2 DEF FilesTracked, Keeps, Intact
  <2> QED
    BY <2>1, <2>2
<1> QED
  BY <1>1, <1>3, <1>5, <1>6, <1>7 DEF Intact

-----------------------------------------------------------------------------
(* Types, one group of variables after the other *)

CallTypes ==
    /\ call \in {"none", "run", "close"} /\ place \in Places
    /\ stage \in 1 .. (Len(Chain) + 1)
    /\ result \in {"none", "ok", "error", "cancelled", "panic"}
    /\ runs \in 0 .. MaxCalls /\ closes \in 0 .. MaxCloses

ControlTypes ==
    /\ running \in BOOLEAN /\ closed \in {"no", "yes", "revived"}
    /\ handlers \in [BOOLEAN -> Nat] /\ setters \in [BOOLEAN -> Nat] /\ sent \in 0 .. MaxCalls

WaitTypes == wait \in [Actors -> {"no", "tested", "parked", "woken"}]

CrawlTypes ==
    /\ tx \in BOOLEAN /\ rx \in BOOLEAN
    /\ task \in [Tasks -> {"none", "begin", "sending", "done"}]
    /\ left \in [Tasks -> Seq(Items)]

ProcTypes ==
    /\ channel \in Seq(Items) /\ Len(channel) <= Capacity
    /\ proc \in {"none", "recv", "item", "process", "done"}
    /\ held \in Seq(Items) /\ Len(held) <= 1
    /\ at \in 1 .. (Len(Chain) + 1)

CountTypes == counted \subseteq Items

HelperTypes == flag \in BOOLEAN /\ monitors \subseteq 0 .. MaxCalls

LEMMA Groups ==
    /\ TypeOK <=> /\ PipeTypeOK /\ CallTypes /\ ControlTypes /\ WaitTypes /\ CrawlTypes
                  /\ ProcTypes /\ CountTypes /\ HelperTypes
    /\ TypeOK' <=> /\ PipeTypeOK' /\ CallTypes' /\ ControlTypes' /\ WaitTypes' /\ CrawlTypes'
                   /\ ProcTypes' /\ CountTypes' /\ HelperTypes'
<1>1. TypeOK <=> /\ PipeTypeOK /\ CallTypes /\ ControlTypes /\ WaitTypes /\ CrawlTypes
                 /\ ProcTypes /\ CountTypes /\ HelperTypes
  BY Zenon DEF TypeOK, CallTypes, ControlTypes, WaitTypes, CrawlTypes, ProcTypes, CountTypes,
               HelperTypes
<1>2. TypeOK' <=> /\ PipeTypeOK' /\ CallTypes' /\ ControlTypes' /\ WaitTypes' /\ CrawlTypes'
                  /\ ProcTypes' /\ CountTypes' /\ HelperTypes'
  BY Zenon DEF TypeOK, CallTypes, ControlTypes, WaitTypes, CrawlTypes, ProcTypes, CountTypes,
               HelperTypes
<1> QED
  BY <1>1, <1>2

\* A group that a step leaves alone keeps its types.
LEMMA Kept ==
    ASSUME TypeOK
    PROVE  /\ UNCHANGED pipeVars => PipeTypeOK'
           /\ UNCHANGED callVars => CallTypes'
           /\ UNCHANGED controlVars => ControlTypes'
           /\ UNCHANGED wait => WaitTypes'
           /\ UNCHANGED <<tx, rx, task, left>> => CrawlTypes'
           /\ UNCHANGED procVars => ProcTypes'
           /\ UNCHANGED counted => CountTypes'
           /\ UNCHANGED helperVars => HelperTypes'
<1> USE Groups
<1>1. UNCHANGED pipeVars => PipeTypeOK'
  BY DEF pipeVars, PipeTypeOK
<1>2. UNCHANGED callVars => CallTypes'
  BY DEF callVars, CallTypes
<1>3. UNCHANGED controlVars => ControlTypes'
  BY DEF controlVars, ControlTypes
<1>4. UNCHANGED wait => WaitTypes'
  BY DEF WaitTypes
<1>5. UNCHANGED <<tx, rx, task, left>> => CrawlTypes'
  BY DEF CrawlTypes
<1>6. UNCHANGED procVars => ProcTypes'
  BY DEF procVars, ProcTypes
<1>7. UNCHANGED counted => CountTypes'
  BY DEF CountTypes
<1>8. UNCHANGED helperVars => HelperTypes'
  BY DEF helperVars, HelperTypes
<1> QED
  BY <1>1, <1>2, <1>3, <1>4, <1>5, <1>6, <1>7, <1>8

\* The stages of a pass, and the end of it.
LEMMA StageTypes ==
    /\ 1 \in 1 .. (Len(Chain) + 1)
    /\ \A i \in Stages : i + 1 \in 1 .. (Len(Chain) + 1)
  BY ChainLength DEF Stages

LEMMA PassTypes ==
    ASSUME TypeOK, NEW a \in Actors, TestPaused(a) \/ Park(a) \/ Passes(a)
    PROVE  WaitTypes'
  BY Groups DEF WaitTypes, TestPaused, Park, Passes

\* The places of run() and of a close.
LEMMA GoesTypes ==
    ASSUME TypeOK, NEW from \in Places, NEW to \in Places,
           RunGoes(from, to) \/ CloseGoes(from, to), stage' \in 1 .. (Len(Chain) + 1)
    PROVE  CallTypes'
  BY Groups DEF CallTypes, RunGoes, CloseGoes

LEMMA EndsTypes ==
    ASSUME TypeOK, NEW how \in {"none", "ok", "error", "cancelled", "panic"}, RunEnds(how)
    PROVE  CallTypes'
  BY Groups, StageTypes DEF CallTypes, RunEnds, Places

LEMMA PlacesAre ==
    \A p \in {"none", "monitor", "connect", "connected", "opened", "opening", "start",
              "crawl", "drain", "stopping", "closing",
              "hooks", "notify", "controller"} : p \in Places
  BY DEF Places

LEMMA RunTypes ==
    ASSUME TypeOK, Run
    PROVE  TypeOK'
<1> USE Groups, Kept
<1>1. CASE StartRun
  <2>1. runs' \in 1 .. MaxCalls
    BY <1>1, LifecycleAssumption
       DEF StartRun, CallTypes, ControlTypes, LifecycleConstants
  <2>2. CallTypes'
    BY <1>1, <2>1, StageTypes DEF StartRun, CallTypes, Places
  <2>3. ControlTypes'
    BY <1>1 DEF StartRun, Runs, ControlTypes
  <2>4. UNCHANGED <<crawlVars, procVars, counted, helperVars, pipeVars>>
    BY <1>1 DEF StartRun
  <2> QED
    BY <2>2, <2>3, <2>4 DEF crawlVars
<1>9. CASE StartController
  <2>1. CallTypes'
    BY <1>9, PlacesAre, GoesTypes DEF StartController, CallTypes
  <2>2. HelperTypes'
    BY <1>9 DEF StartController, CallTypes, HelperTypes
  <2>3. UNCHANGED <<controlVars, crawlVars, procVars, counted, pipeVars>>
    BY <1>9 DEF StartController
  <2> QED
    BY <2>1, <2>2, <2>3 DEF crawlVars
<1>10. ASSUME NEW b \in BOOLEAN, NEW from \in Places, NEW to \in Places, Connect(b, from, to)
       PROVE  TypeOK'
  <2>1. CallTypes'
    BY <1>10, GoesTypes DEF Connect, CallTypes
  <2>2. ControlTypes'
    BY <1>10 DEF Connect, ControlTypes
  <2>3. UNCHANGED <<crawlVars, procVars, counted, helperVars, pipeVars>>
    BY <1>10 DEF Connect
  <2> QED
    BY <2>1, <2>2, <2>3 DEF crawlVars
<1>11. CASE ConnectPaused \/ ConnectResumed
  BY <1>10, <1>11, PlacesAre DEF ConnectPaused, ConnectResumed
<1>2. CASE OpenMiddlewares
  <2>1. CallTypes'
    BY <1>2, PlacesAre, GoesTypes, EndsTypes DEF OpenMiddlewares, CallTypes
  <2>2. UNCHANGED <<controlVars, crawlVars, procVars, counted, helperVars, pipeVars>>
    BY <1>2 DEF OpenMiddlewares
  <2> QED
    BY <2>1, <2>2 DEF crawlVars
<1>3. CASE OpenPipelines
  <2>1. PipeTypeOK'
    BY <1>3, OpenTypes DEF OpenPipelines
  <2>2. CallTypes'
    <3>1. RunGoes("opening", "start") /\ UNCHANGED stage => CallTypes'
      BY PlacesAre, GoesTypes DEF CallTypes
    <3>2. stage \in Stages /\ stage' = stage + 1 /\ UNCHANGED <<call, place, result, runs, closes>>
          => CallTypes'
      BY StageTypes DEF CallTypes
    <3>3. RunEnds("error") => CallTypes'
      BY EndsTypes
    <3> QED
      BY <1>3, <3>1, <3>2, <3>3 DEF OpenPipelines
  <2>3. UNCHANGED <<controlVars, crawlVars, procVars, counted, helperVars>>
    BY <1>3 DEF OpenPipelines
  <2> QED
    BY <2>1, <2>2, <2>3 DEF crawlVars
<1>4. CASE AbortStart
  <2>1. CallTypes'
    BY <1>4, EndsTypes DEF AbortStart
  <2>2. UNCHANGED <<controlVars, crawlVars, procVars, counted, helperVars, pipeVars>>
    BY <1>4 DEF AbortStart
  <2> QED
    BY <2>1, <2>2 DEF crawlVars
<1>5. CASE StartCrawl
  <2>1. RunGoes("start", "crawl") /\ UNCHANGED stage => CallTypes'
    BY PlacesAre, GoesTypes DEF CallTypes
  <2>2. RunEnds("panic") => CallTypes'
    BY EndsTypes
  <2>3. CallTypes'
    BY <1>5, <2>1, <2>2 DEF StartCrawl
  <2>4. rx' = rx \/ rx' = FALSE
    BY <1>5 DEF StartCrawl
  <2>5. proc' = proc \/ proc' = "recv"
    BY <1>5 DEF StartCrawl
  <2>6. UNCHANGED <<tx, task, left, wait, channel, held, at, controlVars, counted,
                    helperVars, pipeVars>>
    BY <1>5 DEF StartCrawl
  <2>7. CrawlTypes'
    BY <2>4, <2>6 DEF CrawlTypes
  <2>8. ProcTypes'
    BY <2>5, <2>6 DEF ProcTypes
  <2> QED
    BY <2>3, <2>6, <2>7, <2>8
<1>6. CASE FinishCrawl
  <2>1. CallTypes'
    BY <1>6, PlacesAre, GoesTypes DEF FinishCrawl, CallTypes
  <2>2. CrawlTypes' /\ WaitTypes'
    BY <1>6 DEF FinishCrawl, CrawlTypes, WaitTypes
  <2>3. UNCHANGED <<controlVars, procVars, counted, helperVars, pipeVars>>
    BY <1>6 DEF FinishCrawl
  <2> QED
    BY <2>1, <2>2, <2>3
<1>7. CASE AwaitProcessor
  <2>1. CallTypes'
    BY <1>7, PlacesAre, GoesTypes DEF AwaitProcessor, CallTypes
  <2>2. UNCHANGED <<controlVars, crawlVars, procVars, counted, helperVars, pipeVars>>
    BY <1>7 DEF AwaitProcessor
  <2> QED
    BY <2>1, <2>2 DEF crawlVars
<1>8. ASSUME NEW t \in Tasks, SpawnTask(t) PROVE TypeOK'
  <2>1. WaitTypes'
    BY <1>8, PassTypes DEF SpawnTask, Actors
  <2>2. CrawlTypes'
    BY <1>8 DEF SpawnTask, CrawlTypes
  <2>3. UNCHANGED <<callVars, controlVars, procVars, counted, helperVars, pipeVars>>
    BY <1>8 DEF SpawnTask
  <2> QED
    BY <2>1, <2>2, <2>3
<1> QED
  BY <1>1, <1>2, <1>3, <1>4, <1>5, <1>6, <1>7, <1>8, <1>9, <1>11 DEF Run

LEMMA TaskTypes ==
    ASSUME TypeOK, NEW t \in Tasks, TaskStep(t)
    PROVE  TypeOK'
<1> USE Groups, Kept
<1>1. CASE TaskScrapes(t)
  <2>1. WaitTypes'
    BY <1>1, PassTypes DEF TaskScrapes, Actors
  <2>2. CrawlTypes'
    BY <1>1 DEF TaskScrapes, CrawlTypes
  <2>3. UNCHANGED <<callVars, controlVars, procVars, counted, helperVars, pipeVars>>
    BY <1>1 DEF TaskScrapes
  <2> QED
    BY <2>1, <2>2, <2>3
<1>2. CASE TaskSends(t)
  <2>1. UNCHANGED <<callVars, controlVars, tx, rx, wait, proc, held, at, counted,
                    helperVars, pipeVars>>
    BY <1>2 DEF TaskSends
  <2>2. CASE left[t] # <<>>
    <3>1. left[t] \in Seq(Items) /\ channel \in Seq(Items)
      BY DEF CrawlTypes, ProcTypes
    <3>2. Head(left[t]) \in Items /\ Tail(left[t]) \in Seq(Items)
      BY <2>2, <3>1, HeadTailProperties
    <3>3. channel' = Append(channel, Head(left[t])) /\ Len(channel) < Capacity
      BY <1>2, <2>2 DEF TaskSends
    <3>4. channel' \in Seq(Items) /\ Len(channel') = Len(channel) + 1
      BY <3>1, <3>2, <3>3, AppendProperties
    <3>5. Len(channel) \in Nat /\ Capacity \in Nat
      BY <3>1, LenProperties, LifecycleAssumption DEF LifecycleConstants
    <3>6. Len(channel') <= Capacity
      BY <3>3, <3>4, <3>5
    <3>7. ProcTypes'
      BY <2>1, <3>4, <3>6 DEF ProcTypes
    <3>8. left' = [left EXCEPT ![t] = Tail(left[t])] /\ task' = task
      BY <1>2, <2>2 DEF TaskSends
    <3>9. CrawlTypes'
      BY <2>1, <3>2, <3>8 DEF CrawlTypes
    <3> QED
      BY <2>1, <3>7, <3>9
  <2>3. CASE left[t] = <<>>
    <3>1. task' = [task EXCEPT ![t] = "done"] /\ UNCHANGED <<channel, left>>
      BY <1>2, <2>3 DEF TaskSends
    <3>2. CrawlTypes'
      BY <2>1, <3>1 DEF CrawlTypes
    <3>3. UNCHANGED procVars
      BY <2>1, <3>1 DEF procVars
    <3> QED
      BY <2>1, <3>2, <3>3
  <2> QED
    BY <2>2, <2>3
<1> QED
  BY <1>1, <1>2 DEF TaskStep

LEMMA ProcStepTypes ==
    ASSUME TypeOK, ProcessorInPlace, ProcStep
    PROVE  TypeOK'
<1> USE Groups, Kept
<1>1. PICK e \in Seq(Items) : e = <<>> /\ Len(e) = 0
  BY EmptySeq
<1>2. proc \in {"item", "process"} => held[1] \in Items
  BY ElementOfSeq DEF ProcessorInPlace, ProcTypes
<1>3. UNCHANGED <<callVars, controlVars, tx, rx, task, left, helperVars>>
  BY DEF ProcStep, Receive, EndProcessor, StartItem, ItemPasses, ItemFails, CountItem,
         crawlVars
<1>4. CASE Receive
  <2>1. channel \in Seq(Items) /\ channel # <<>>
    BY <1>4 DEF Receive, ProcTypes
  <2>2. /\ Head(channel) \in Items /\ Tail(channel) \in Seq(Items)
        /\ Len(Tail(channel)) = Len(channel) - 1
    BY <2>1, HeadTailProperties
  <2>3. held' \in Seq(Items) /\ Len(held') = 1
    BY <1>4, <2>2, Short DEF Receive
  <2>4. Len(channel) \in Nat /\ Capacity \in Nat /\ Len(channel) <= Capacity
    BY <2>1, LenProperties, LifecycleAssumption DEF LifecycleConstants, ProcTypes
  <2>5. Len(Tail(channel)) <= Capacity
    BY <2>2, <2>4
  <2>6. channel' = Tail(channel) /\ proc' = "item" /\ at' = at
    BY <1>4 DEF Receive
  <2>7. ProcTypes'
    BY <2>2, <2>3, <2>5, <2>6 DEF ProcTypes
  <2>8. UNCHANGED <<wait, counted, pipeVars>>
    BY <1>4 DEF Receive, crawlVars
  <2> QED
    BY <1>3, <2>7, <2>8
<1>5. CASE EndProcessor
  <2>1. ProcTypes'
    BY <1>5 DEF EndProcessor, ProcTypes
  <2>2. UNCHANGED <<wait, counted, pipeVars>>
    BY <1>5 DEF EndProcessor, crawlVars
  <2> QED
    BY <1>3, <2>1, <2>2
<1>6. CASE StartItem
  <2>1. WaitTypes'
    BY <1>6, PassTypes DEF StartItem, Actors
  <2>2. ProcTypes'
    BY <1>6, StageTypes DEF StartItem, ProcTypes
  <2>3. UNCHANGED <<counted, pipeVars>>
    BY <1>6 DEF StartItem
  <2> QED
    BY <1>3, <2>1, <2>2, <2>3
<1>7. CASE ItemPasses
  <2>1. PipeTypeOK'
    BY <1>2, <1>7, ProcessTypes DEF ItemPasses
  <2>2. at' \in 1 .. (Len(Chain) + 1)
    BY <1>7, StageTypes DEF ItemPasses
  <2>3. ProcTypes'
    BY <1>7, <2>2 DEF ItemPasses, ProcTypes
  <2>4. UNCHANGED <<wait, counted>>
    BY <1>7 DEF ItemPasses, crawlVars
  <2> QED
    BY <1>3, <2>1, <2>3, <2>4
<1>8. ASSUME proc' = "recv" /\ held' = e /\ at' = 1 /\ channel' = channel
      PROVE  ProcTypes'
  BY <1>1, <1>8, StageTypes DEF ProcTypes
<1>9. CASE ItemFails
  <2>1. PipeTypeOK'
    BY <1>2, <1>9, ProcessTypes DEF ItemFails
  <2>2. ProcTypes'
    BY <1>1, <1>8, <1>9 DEF ItemFails
  <2>3. UNCHANGED <<wait, counted>>
    BY <1>9 DEF ItemFails, crawlVars
  <2> QED
    BY <1>3, <2>1, <2>2, <2>3
<1>10. CASE CountItem
  <2>1. ProcTypes'
    BY <1>1, <1>8, <1>10 DEF CountItem
  <2>2. CountTypes'
    BY <1>2, <1>10 DEF CountItem, CountTypes
  <2>3. UNCHANGED <<wait, pipeVars>>
    BY <1>10 DEF CountItem, crawlVars
  <2> QED
    BY <1>3, <2>1, <2>2, <2>3
<1> QED
  BY <1>4, <1>5, <1>6, <1>7, <1>9, <1>10 DEF ProcStep

LEMMA CloseStepTypes ==
    ASSUME TypeOK, CloseStep
    PROVE  TypeOK'
<1> USE Groups, Kept
<1>1. UNCHANGED <<tx, rx, task, left, procVars, counted>>
  BY DEF CloseStep, CallClose, BeginClose, ClosePipelines, PipelinesTimeOut, HooksTimeOut,
         HooksEnd, NotifyAtClose, StopController, crawlVars
<1>2. CASE CallClose
  <2>1. closes' \in 0 .. MaxCloses
    BY <1>2, LifecycleAssumption DEF CallClose, CallTypes, LifecycleConstants
  <2>2. CallTypes'
    BY <1>2, <2>1 DEF CallClose, CallTypes, Places
  <2>3. UNCHANGED <<controlVars, wait, helperVars, pipeVars>>
    BY <1>2 DEF CallClose, crawlVars
  <2> QED
    BY <1>1, <2>2, <2>3
<1>3. CASE BeginClose
  <2>1. CallTypes'
    BY <1>3, PlacesAre, GoesTypes, StageTypes DEF BeginClose
  <2>2. ControlTypes'
    BY <1>3 DEF BeginClose, ControlTypes
  <2>3. UNCHANGED <<wait, helperVars, pipeVars>>
    BY <1>3 DEF BeginClose, crawlVars
  <2> QED
    BY <1>1, <2>1, <2>2, <2>3
<1>4. CASE ClosePipelines
  <2>1. PipeTypeOK'
    BY <1>4, CloseTypes DEF ClosePipelines
  <2>2. stage' = stage \/ (stage \in Stages /\ stage' = stage + 1)
    BY <1>4 DEF ClosePipelines
  <2>3. stage' \in 1 .. (Len(Chain) + 1)
    BY <2>2, StageTypes DEF CallTypes
  <2>4. CloseGoes("closing", "hooks") \/ CloseGoes("closing", "closing")
    BY <1>4 DEF ClosePipelines
  <2>5. CallTypes'
    BY <2>3, <2>4, PlacesAre, GoesTypes
  <2>6. UNCHANGED <<controlVars, wait, helperVars>>
    BY <1>4 DEF ClosePipelines, crawlVars
  <2> QED
    BY <1>1, <2>1, <2>5, <2>6
<1>5. CASE PipelinesTimeOut
  <2>1. spoiled' \subseteq Stages
    BY <1>5, SpoilsAfter DEF PipelinesTimeOut, Custom
  <2>2. PipeTypeOK'
    BY <1>5, <2>1 DEF PipelinesTimeOut, PipeTypeOK
  <2>3. CallTypes'
    BY <1>5, PlacesAre, GoesTypes DEF PipelinesTimeOut, CallTypes
  <2>4. UNCHANGED <<controlVars, wait, helperVars>>
    BY <1>5 DEF PipelinesTimeOut, crawlVars
  <2> QED
    BY <1>1, <2>2, <2>3, <2>4
<1>6. CASE HooksEnd \/ HooksTimeOut
  <2>1. HooksEnd
    BY <1>6 DEF HooksTimeOut
  <2>2. CallTypes'
    BY <2>1, PlacesAre, GoesTypes DEF HooksEnd, CallTypes
  <2>3. UNCHANGED <<controlVars, wait, helperVars, pipeVars>>
    BY <2>1 DEF HooksEnd, crawlVars
  <2> QED
    BY <1>1, <2>2, <2>3
<1>7. CASE NotifyAtClose
  <2>1. CallTypes'
    BY <1>7, PlacesAre, GoesTypes DEF NotifyAtClose, CallTypes
  <2>2. WaitTypes'
    BY <1>7 DEF NotifyAtClose, NotifyWaiters, WaitTypes
  <2>3. UNCHANGED <<controlVars, helperVars, pipeVars>>
    BY <1>7 DEF NotifyAtClose
  <2> QED
    BY <1>1, <2>1, <2>2, <2>3
<1>8. CASE StopController
  <2>1. RunEnds("ok") \/ RunEnds(result)
    BY <1>8 DEF StopController
  <2>2. CallTypes'
    BY <2>1, EndsTypes DEF CallTypes
  <2>3. HelperTypes'
    BY <1>8 DEF StopController, HelperTypes
  <2>4. UNCHANGED <<controlVars, wait, pipeVars>>
    BY <1>8 DEF StopController, crawlVars
  <2> QED
    BY <1>1, <2>2, <2>3, <2>4
<1> QED
  BY <1>2, <1>3, <1>4, <1>5, <1>6, <1>7, <1>8 DEF CloseStep

\* The owner's other calls, the signals, and who waits or ends on its own.
OtherStep ==
    \/ CancelRun \/ Pause \/ Resume
    \/ \E a \in Actors : TestPaused(a) \/ Park(a)
    \/ \E b \in BOOLEAN : Setter(b) \/ SendSignal(b)
    \/ \E m \in 1 .. MaxCalls : MonitorEnds(m)

LEMMA SignalTypes ==
    ASSUME TypeOK, NEW b \in BOOLEAN, Signals(b), running' \in BOOLEAN,
           closed' \in {"no", "yes", "revived"}
    PROVE  ControlTypes'
<1> USE Groups
<1>1. runs \in Nat /\ sent \in Nat /\ MaxCalls \in Nat
  BY LifecycleAssumption DEF CallTypes, ControlTypes, LifecycleConstants
<1>2. sent' \in 0 .. MaxCalls
  BY <1>1 DEF Signals
<1>3. setters[b] + handlers[b] \in Nat
  BY DEF ControlTypes
<1>4. setters' \in [BOOLEAN -> Nat]
  BY <1>3 DEF Signals, ControlTypes
<1> QED
  BY <1>2, <1>4 DEF Signals, ControlTypes

LEMMA OtherTypes ==
    ASSUME TypeOK, OtherStep
    PROVE  TypeOK'
<1> USE Groups, Kept
<1>1. CASE CancelRun
  <2>1. CallTypes'
    BY <1>1, EndsTypes DEF CancelRun
  <2>2. WaitTypes'
    BY <1>1 DEF CancelRun, WaitTypes
  <2>3. UNCHANGED <<controlVars, tx, rx, task, left, procVars, counted, helperVars, pipeVars>>
    BY <1>1 DEF CancelRun
  <2> QED
    BY <2>1, <2>2, <2>3
<1>2. CASE Pause
  <2>1. ControlTypes'
    BY <1>2, SignalTypes DEF Pause, ControlTypes
  <2>2. UNCHANGED <<callVars, crawlVars, procVars, counted, helperVars, pipeVars>>
    BY <1>2 DEF Pause
  <2> QED
    BY <2>1, <2>2 DEF crawlVars
<1>3. CASE Resume
  <2>1. ControlTypes'
    BY <1>3, SignalTypes DEF Resume, Runs, ControlTypes
  <2>2. WaitTypes'
    BY <1>3 DEF Resume, NotifyWaiters, WaitTypes
  <2>3. UNCHANGED <<callVars, tx, rx, task, left, procVars, counted, helperVars, pipeVars>>
    BY <1>3 DEF Resume
  <2> QED
    BY <2>1, <2>2, <2>3
<1>4. ASSUME NEW b \in BOOLEAN, Setter(b) PROVE TypeOK'
  <2>1. setters[b] - 1 \in Nat
    BY <1>4 DEF Setter, ControlTypes
  <2>2. setters' \in [BOOLEAN -> Nat]
    BY <1>4, <2>1 DEF Setter, ControlTypes
  <2>3. ControlTypes'
    BY <1>4, <2>2 DEF Setter, Runs, ControlTypes
  <2>4. UNCHANGED <<callVars, crawlVars, procVars, counted, helperVars, pipeVars>>
    BY <1>4 DEF Setter
  <2> QED
    BY <2>3, <2>4 DEF crawlVars
<1>5. ASSUME NEW b \in BOOLEAN, SendSignal(b) PROVE TypeOK'
  <2>1. ControlTypes'
    BY <1>5, SignalTypes DEF SendSignal, ControlTypes
  <2>2. UNCHANGED <<callVars, crawlVars, procVars, counted, helperVars, pipeVars>>
    BY <1>5 DEF SendSignal
  <2> QED
    BY <2>1, <2>2 DEF crawlVars
<1>6. ASSUME NEW a \in Actors, TestPaused(a) \/ Park(a) PROVE TypeOK'
  <2>1. WaitTypes'
    BY <1>6, PassTypes
  <2>2. UNCHANGED <<callVars, controlVars, tx, rx, task, left, procVars, counted,
                    helperVars, pipeVars>>
    BY <1>6 DEF TestPaused, Park
  <2> QED
    BY <2>1, <2>2
<1>7. ASSUME NEW m \in 1 .. MaxCalls, MonitorEnds(m) PROVE TypeOK'
  <2>1. HelperTypes'
    BY <1>7 DEF MonitorEnds, HelperTypes
  <2>2. UNCHANGED <<callVars, controlVars, crawlVars, procVars, counted, pipeVars>>
    BY <1>7 DEF MonitorEnds
  <2> QED
    BY <2>1, <2>2 DEF crawlVars
<1> QED
  BY <1>1, <1>2, <1>3, <1>4, <1>5, <1>6, <1>7 DEF OtherStep

\* Every step is one of five kinds.
LEMMA StepKinds ==
    ASSUME [Next]_vars
    PROVE  \/ Run \/ (\E t \in Tasks : TaskStep(t)) \/ ProcStep \/ CloseStep \/ OtherStep
           \/ UNCHANGED <<callVars, controlVars, crawlVars, procVars, counted, helperVars,
                          pipeVars>>
  BY DEF Next, OtherStep, vars

LEMMA TypeStep ==
    ASSUME TypeOK, ProcessorInPlace, [Next]_vars
    PROVE  TypeOK'
<1>1. CASE UNCHANGED <<callVars, controlVars, crawlVars, procVars, counted, helperVars, pipeVars>>
  BY <1>1, Groups, Kept DEF crawlVars
<1> QED
  BY <1>1, StepKinds, RunTypes, TaskTypes, ProcStepTypes, CloseStepTypes, OtherTypes

LEMMA TypeInit == Init => TypeOK
<1> SUFFICES ASSUME Init PROVE TypeOK
  OBVIOUS
<1>1. PICK e : e = <<>>
  OBVIOUS
<1>2. e \in Seq(Items) /\ e \in Seq(Tokens) /\ Len(e) = 0
  BY <1>1, EmptySeq
<1>3. PipeTypeOK
  BY <1>1, <1>2 DEF Init, PipeInit, PipeTypeOK
<1>4. CallTypes
  BY StageTypes, LifecycleAssumption DEF Init, CallTypes, Places, LifecycleConstants
<1>5. ControlTypes
  <2>1. sent = 0 /\ 0 \in 0 .. MaxCalls
    BY LifecycleAssumption DEF Init, LifecycleConstants
  <2>2. setters \in [BOOLEAN -> Nat]
    BY DEF Init
  <2> QED
    BY <2>1, <2>2 DEF Init, ControlTypes
<1>6. WaitTypes /\ CountTypes /\ HelperTypes
  BY DEF Init, WaitTypes, CountTypes, HelperTypes
<1>7. CrawlTypes
  BY LifecycleAssumption DEF Init, CrawlTypes, LifecycleConstants
<1>8. Capacity \in Nat /\ Capacity >= 0
  BY LifecycleAssumption DEF LifecycleConstants
<1>9. ProcTypes
  BY <1>1, <1>2, <1>8, StageTypes DEF Init, ProcTypes
<1> QED
  BY <1>3, <1>4, <1>5, <1>6, <1>7, <1>9, Groups

-----------------------------------------------------------------------------
(* The item processor *)

\* A step that is not its own leaves it where it is, unless a close begins.
LEMMA ProcessorKept ==
    ASSUME ProcessorInPlace, UNCHANGED <<proc, held, counted, rx>>, Closing' => Closing
    PROVE  ProcessorInPlace'
  BY DEF ProcessorInPlace

\* Where a step of run() or of a close leaves the call.
LEMMA RunCloses ==
    ASSUME Run, ~AwaitProcessor
    PROVE  ~Closing'
<1>1. CASE StartRun \/ StartController \/ ConnectPaused \/ ConnectResumed
  BY <1>1 DEF StartRun, StartController, ConnectPaused, ConnectResumed, Connect, RunGoes, Closing
<1>2. CASE OpenMiddlewares \/ OpenPipelines \/ AbortStart \/ StartCrawl \/ FinishCrawl
  BY <1>2 DEF OpenMiddlewares, OpenPipelines, AbortStart, StartCrawl, FinishCrawl,
              RunGoes, RunEnds, Closing
<1>3. ASSUME NEW t \in Tasks, SpawnTask(t) PROVE ~Closing'
  BY <1>3, LifecycleAssumption
     DEF SpawnTask, Passes, AtCheckpoint, Closing, callVars, LifecycleConstants
<1> QED
  BY <1>1, <1>2, <1>3 DEF Run

LEMMA CloseCloses ==
    ASSUME CloseStep
    PROVE  /\ Closing' => Closing
           /\ ~Crawling'
<1>1. CASE CallClose
  BY <1>1 DEF CallClose, Closing, Crawling
<1>2. CASE BeginClose \/ ClosePipelines \/ PipelinesTimeOut \/ HooksEnd \/ HooksTimeOut
           \/ NotifyAtClose
  <2>1. /\ call \in {"run", "close"} /\ UNCHANGED <<call, result>>
        /\ place \in {"stopping", "closing", "hooks", "notify"}
        /\ place' \in {"closing", "hooks", "notify", "controller"}
    BY <1>2 DEF BeginClose, ClosePipelines, PipelinesTimeOut, HooksEnd, HooksTimeOut,
                NotifyAtClose, CloseGoes
  <2> QED
    BY <2>1 DEF Closing, Crawling
<1>3. CASE StopController
  <2>1. /\ call \in {"run", "close"} /\ place = "controller" /\ call' = "none"
        /\ result' = IF call = "run" THEN "ok" ELSE result
    BY <1>3 DEF StopController, RunEnds
  <2> QED
    BY <2>1 DEF Closing, Crawling
<1> QED
  BY <1>1, <1>2, <1>3 DEF CloseStep

LEMMA OtherCloses ==
    ASSUME OtherStep
    PROVE  /\ Closing' => Closing
           /\ Crawling' => Crawling
<1>1. CASE CancelRun
  BY <1>1 DEF CancelRun, RunEnds, Closing, Crawling
<1>2. CASE ~CancelRun
  <2>1. UNCHANGED callVars
    BY <1>2 DEF OtherStep, Pause, Resume, TestPaused, Park, Setter, SendSignal, MonitorEnds
  <2> QED
    BY <2>1 DEF callVars, Closing, Crawling
<1> QED
  BY <1>1, <1>2

LEMMA ProcessorStep ==
    ASSUME TypeOK, ProcessorInPlace, [Next]_vars
    PROVE  ProcessorInPlace'
<1>1. CASE Run
  <2>1. CASE AwaitProcessor
    BY <2>1 DEF AwaitProcessor, ProcessorInPlace, crawlVars, procVars
  <2>2. CASE StartCrawl
    <3>1. ~Closing'
      BY <1>1, <2>2, RunCloses DEF AwaitProcessor, StartCrawl, RunGoes, RunEnds
    <3>2. (rx /\ rx' = FALSE /\ proc' = "recv") \/ (~rx /\ rx' = rx /\ proc' = proc)
      BY <2>2 DEF StartCrawl
    <3>3. counted' = counted /\ held' = held
      BY <2>2 DEF StartCrawl
    <3> QED
      BY <3>1, <3>2, <3>3 DEF ProcessorInPlace
  <2>3. CASE ~AwaitProcessor /\ ~StartCrawl
    <3>1. UNCHANGED <<proc, held, counted, rx>>
      BY <1>1, <2>3 DEF Run, StartRun, StartController, ConnectPaused, ConnectResumed, Connect,
                      OpenMiddlewares, OpenPipelines, AbortStart, FinishCrawl,
                        SpawnTask, crawlVars, procVars
    <3>2. ~Closing'
      BY <1>1, <2>3, RunCloses
    <3> QED
      BY <3>1, <3>2, ProcessorKept
  <2> QED
    BY <2>1, <2>2, <2>3
<1>2. ASSUME NEW t \in Tasks, TaskStep(t) PROVE ProcessorInPlace'
  <2>1. UNCHANGED <<proc, held, counted, rx, call, place, result>>
    BY <1>2 DEF TaskStep, TaskScrapes, TaskSends, callVars, procVars
  <2> QED
    BY <2>1, ProcessorKept DEF Closing
<1>3. CASE ProcStep
  <2>1. UNCHANGED <<rx, call, place, result>>
    BY <1>3 DEF ProcStep, Receive, EndProcessor, StartItem, ItemPasses, ItemFails, CountItem,
                callVars, crawlVars
  <2>2. Closing' = Closing
    BY <2>1 DEF Closing
  <2>3. CASE Receive
    <3>1. PICK a : a = Head(channel)
      OBVIOUS
    <3>2. held' = <<a>> /\ proc' = "item" /\ proc = "recv"
      BY <2>3, <3>1 DEF Receive
    <3>3. Len(held') = 1
      BY <3>2
    <3> QED
      BY <2>1, <2>2, <3>2, <3>3 DEF ProcessorInPlace
  <2>4. CASE EndProcessor
    BY <2>1, <2>2, <2>4 DEF EndProcessor, ProcessorInPlace
  <2>5. CASE StartItem
    BY <2>1, <2>2, <2>5 DEF StartItem, ProcessorInPlace
  <2>6. CASE ItemPasses
    BY <2>1, <2>2, <2>6 DEF ItemPasses, ProcessorInPlace
  <2>7. CASE ItemFails \/ CountItem
    <3>1. proc = "process" /\ proc' = "recv"
      BY <2>7 DEF ItemFails, CountItem
    <3> QED
      BY <2>1, <2>2, <3>1 DEF ProcessorInPlace
  <2> QED
    BY <1>3, <2>3, <2>4, <2>5, <2>6, <2>7 DEF ProcStep
<1>4. CASE CloseStep
  <2>1. UNCHANGED <<proc, held, counted, rx>>
    BY <1>4 DEF CloseStep, CallClose, BeginClose, ClosePipelines, PipelinesTimeOut, HooksTimeOut,
                HooksEnd, NotifyAtClose, StopController, crawlVars, procVars
  <2> QED
    BY <1>4, <2>1, CloseCloses, ProcessorKept
<1>5. CASE OtherStep
  <2>1. UNCHANGED <<proc, held, counted, rx>>
    BY <1>5 DEF OtherStep, CancelRun, Pause, Resume, TestPaused, Park, Setter, SendSignal,
                MonitorEnds, crawlVars, procVars
  <2> QED
    BY <1>5, <2>1, OtherCloses, ProcessorKept
<1>6. CASE UNCHANGED <<callVars, controlVars, crawlVars, procVars, counted, helperVars, pipeVars>>
  BY <1>6, ProcessorKept DEF callVars, crawlVars, procVars, Closing
<1> QED
  BY <1>1, <1>2, <1>3, <1>4, <1>5, <1>6, StepKinds

-----------------------------------------------------------------------------
(* The files *)

\* Who touches them.
LEMMA TouchesFiles ==
    ASSUME [Next]_vars
    PROVE  \/ OpenPipelines \/ ItemPasses \/ ItemFails \/ ClosePipelines \/ PipelinesTimeOut
           \/ UNCHANGED pipeVars
<1>1. CASE Run
  BY <1>1 DEF Run, StartRun, StartController, ConnectPaused, ConnectResumed, Connect,
              OpenMiddlewares, AbortStart, StartCrawl, FinishCrawl,
              AwaitProcessor, SpawnTask
<1>2. ASSUME NEW t \in Tasks, TaskStep(t) PROVE UNCHANGED pipeVars
  BY <1>2 DEF TaskStep, TaskScrapes, TaskSends
<1>3. CASE ProcStep
  BY <1>3 DEF ProcStep, Receive, EndProcessor, StartItem, CountItem
<1>4. CASE CloseStep
  BY <1>4 DEF CloseStep, CallClose, BeginClose, HooksTimeOut, HooksEnd, NotifyAtClose,
              StopController
<1>5. CASE OtherStep
  BY <1>5 DEF OtherStep, CancelRun, Pause, Resume, TestPaused, Park, Setter, SendSignal,
              MonitorEnds
<1> QED
  BY <1>1, <1>2, <1>3, <1>4, <1>5, StepKinds

\* The item in the processor's hands.
LEMMA HeldItem ==
    ASSUME TypeOK, ProcessorInPlace, proc = "process"
    PROVE  held[1] \in Items
<1>1. held \in Seq(Items) /\ Len(held) = 1
  BY Groups DEF ProcessorInPlace, ProcTypes
<1>2. 1 \in 1 .. Len(held)
  BY <1>1
<1> QED
  BY <1>1, <1>2, ElementOfSeq

\* A stage that takes its time spoils those after it, and is itself no file.
LEMMA TimeOutEffect ==
    ASSUME TypeOK, PipelinesTimeOut
    PROVE  /\ Intact' \subseteq Intact /\ \A j \in Intact' : j < stage
           /\ UNCHANGED <<content, handle, filed>>
  BY Groups, SpoilsAfter DEF PipelinesTimeOut, Custom

LEMMA FilesStep ==
    ASSUME TypeOK, ProcessorInPlace, FilesTracked, [Next]_vars
    PROVE  FilesTracked'
<1> USE Groups
<1>1. CASE UNCHANGED pipeVars
  BY <1>1 DEF pipeVars, FilesTracked, Intact
<1>2. CASE OpenPipelines /\ stage \in Stages
  <2>1. PICK ok \in BOOLEAN : OpenStage(stage, ok)
    BY <1>2 DEF OpenPipelines
  <2>2. /\ \A j \in Intact' : j # stage => j \in Intact /\ Keeps(j)
        /\ stage \in Intact' => handle'[stage] /\ content'[stage] = Opened(filed'[stage])
    BY <1>2, <2>1, OpenEffect
  <2> QED
    BY <2>2 DEF FilesTracked, Keeps
<1>3. CASE OpenPipelines /\ stage \notin Stages
  BY <1>1, <1>3 DEF OpenPipelines
<1>4. CASE ItemPasses \/ ItemFails
  <2>1. PICK ok \in BOOLEAN : ProcessStage(at, held[1], ok)
    BY <1>4 DEF ItemPasses, ItemFails
  <2>2. at \in Stages /\ held[1] \in Items
    BY <1>4, HeldItem DEF ItemPasses, ItemFails
  <2> QED
    BY <2>1, <2>2, ProcessEffect
<1>5. CASE ClosePipelines /\ stage \in Stages
  <2>1. PICK ok \in BOOLEAN : CloseStage(stage, ok)
    BY <1>5 DEF ClosePipelines
  <2> QED
    BY <1>5, <2>1, CloseEffect
<1>6. CASE ClosePipelines /\ stage \notin Stages
  BY <1>1, <1>6 DEF ClosePipelines
<1>7. CASE PipelinesTimeOut
  BY <1>7, TimeOutEffect DEF FilesTracked
<1> QED
  BY <1>1, <1>2, <1>3, <1>4, <1>5, <1>6, <1>7, TouchesFiles

-----------------------------------------------------------------------------
(* Which of them run() has opened and closed *)

USE DEF Starting

\* A step that touches no file and brings run() no further.
LEMMA PlaceKept ==
    ASSUME OpenInPlace, UNCHANGED pipeVars,
           \A i \in Intact : (HasOpened(i)' => HasOpened(i)) /\ (HasClosed(i)' => HasClosed(i))
    PROVE  OpenInPlace'
  BY DEF OpenInPlace, pipeVars, Intact

\* The end of a pass is behind every stage.
LEMMA EndOfPass ==
    ASSUME TypeOK, stage \notin Stages
    PROVE  \A i \in Stages : stage > i
<1> USE Groups
<1>1. stage \in 1 .. (Len(Chain) + 1) /\ Len(Chain) \in Nat
  BY ChainLength DEF CallTypes
<1> QED
  BY <1>1 DEF Stages

LEMMA RunPlace ==
    ASSUME TypeOK, FilesTracked, OpenInPlace, Run
    PROVE  OpenInPlace'
<1> USE Groups
<1>1. \A i \in Intact : i \in Stages /\ i \in Nat /\ i >= 1
  BY ChainLength DEF Intact, Stages
<1>2. CASE StartRun
  <2>1. call' = "run" /\ place' = "monitor" /\ stage' = 1 /\ UNCHANGED pipeVars
    BY <1>2 DEF StartRun
  <2> QED
    BY <1>1, <2>1, PlaceKept DEF HasOpened, HasClosed
<1>9. CASE StartController \/ ConnectPaused \/ ConnectResumed
  <2>1. /\ call = "run" /\ call' = "run" /\ UNCHANGED stage /\ UNCHANGED pipeVars
        /\ place \in {"monitor", "connect", "connected"}
        /\ place' \in {"connect", "connected", "opened"}
    BY <1>9 DEF StartController, ConnectPaused, ConnectResumed, Connect, RunGoes
  <2> QED
    BY <1>1, <1>9, <2>1, PlaceKept DEF HasOpened, HasClosed
<1>3. CASE OpenMiddlewares
  <2>1. UNCHANGED pipeVars
    BY <1>3 DEF OpenMiddlewares
  <2>2. CASE RunGoes("opened", "opening") /\ UNCHANGED stage
    BY <2>1, <2>2, PlaceKept DEF RunGoes, HasOpened, HasClosed
  <2>3. CASE RunEnds("error")
    BY <2>1, <2>3, PlaceKept DEF RunEnds, HasOpened, HasClosed
  <2> QED
    BY <1>3, <2>2, <2>3 DEF OpenMiddlewares
<1>4. CASE OpenPipelines
  <2>1. call = "run" /\ place = "opening"
    BY <1>4 DEF OpenPipelines
  <2>2. CASE stage \notin Stages
    <3>1. call' = "run" /\ place' = "start" /\ UNCHANGED pipeVars
      BY <1>4, <2>2 DEF OpenPipelines, RunGoes
    <3>2. \A i \in Intact : HasOpened(i)
      BY <1>1, <2>1, <2>2, EndOfPass DEF HasOpened
    <3> QED
      BY <3>1, <3>2, PlaceKept DEF HasClosed
  <2>3. CASE stage \in Stages /\ OpenStage(stage, TRUE) /\ stage' = stage + 1
             /\ UNCHANGED <<call, place, result, runs, closes>>
    <3>1. /\ \A j \in Intact' : j # stage => j \in Intact /\ Keeps(j)
          /\ stage \in Intact' => handle'[stage]
      BY <2>3, OpenEffect
    <3>2. \A i \in Intact' : ~HasClosed(i)'
      BY <2>1, <2>3 DEF HasClosed
    <3>3. ASSUME NEW i \in Intact', HasOpened(i)' PROVE handle'[i]
      <4>1. CASE i = stage
        BY <3>1, <3>3, <4>1
      <4>2. CASE i # stage
        <5>1. i < stage + 1
          BY <2>1, <2>3, <3>3 DEF HasOpened
        <5>2. i \in Intact /\ Keeps(i)
          BY <3>1, <3>3, <4>2
        <5>3. i \in Nat /\ stage \in Nat
          BY <1>1, <2>3, <5>2, ChainLength DEF Stages
        <5>4. stage > i
          BY <4>2, <5>1, <5>3
        <5>5. HasOpened(i)
          BY <2>1, <5>4 DEF HasOpened
        <5> QED
          BY <5>2, <5>5 DEF OpenInPlace, Keeps
      <4> QED
        BY <4>1, <4>2
    <3> QED
      BY <3>2, <3>3 DEF OpenInPlace
  <2>4. CASE RunEnds("error")
    BY <2>4 DEF RunEnds, OpenInPlace, HasOpened, HasClosed
  <2> QED
    BY <1>4, <2>2, <2>3, <2>4 DEF OpenPipelines
<1>5. CASE AbortStart
  BY <1>5 DEF AbortStart, RunEnds, OpenInPlace, HasOpened, HasClosed
<1>6. CASE StartCrawl
  <2>1. UNCHANGED pipeVars
    BY <1>6 DEF StartCrawl
  <2>2. CASE RunGoes("start", "crawl")
    BY <2>1, <2>2, PlaceKept DEF RunGoes, HasOpened, HasClosed
  <2>3. CASE RunEnds("panic")
    BY <2>1, <2>3, PlaceKept DEF RunEnds, HasOpened, HasClosed
  <2> QED
    BY <1>6, <2>2, <2>3 DEF StartCrawl
<1>7. CASE FinishCrawl \/ AwaitProcessor
  <2>1. UNCHANGED pipeVars
    BY <1>7 DEF FinishCrawl, AwaitProcessor
  <2>2. RunGoes("crawl", "drain") \/ RunGoes("drain", "stopping")
    BY <1>7 DEF FinishCrawl, AwaitProcessor
  <2> QED
    BY <2>1, <2>2, PlaceKept DEF RunGoes, HasOpened, HasClosed
<1>8. ASSUME NEW t \in Tasks, SpawnTask(t) PROVE OpenInPlace'
  <2>1. UNCHANGED <<call, place, stage, result>> /\ UNCHANGED pipeVars
    BY <1>8 DEF SpawnTask, callVars
  <2> QED
    BY <2>1, PlaceKept DEF HasOpened, HasClosed
<1> QED
  BY <1>2, <1>3, <1>4, <1>5, <1>6, <1>7, <1>8, <1>9 DEF Run

LEMMA ClosePlace ==
    ASSUME TypeOK, FilesTracked, OpenInPlace, CloseStep
    PROVE  OpenInPlace'
<1> USE Groups
<1>1. Len(Chain) \in Nat /\ \A i \in Intact : i \in Stages /\ i \in Nat
  BY ChainLength DEF Intact, Stages
<1>2. CASE CallClose
  <2>1. call = "none" /\ call' = "close" /\ result' = result /\ UNCHANGED pipeVars
    BY <1>2 DEF CallClose
  <2> QED
    BY <2>1, PlaceKept DEF HasOpened, HasClosed
<1>3. CASE BeginClose
  <2>1. /\ place = "stopping" /\ place' = "closing" /\ stage' = 1
        /\ UNCHANGED <<call, result>> /\ UNCHANGED pipeVars
    BY <1>3 DEF BeginClose, CloseGoes
  <2>2. \A i \in Intact : i >= 1
    BY DEF Intact, Stages
  <2>3. \A i \in Intact : ~(stage' > i)
    BY <1>1, <2>1, <2>2
  <2> QED
    BY <2>1, <2>3, PlaceKept DEF HasOpened, HasClosed
<1>4. CASE ClosePipelines
  <2>1. place = "closing" /\ UNCHANGED <<call, result>>
    BY <1>4 DEF ClosePipelines, CloseGoes
  <2>2. CASE stage \notin Stages
    <3>1. place' = "hooks" /\ UNCHANGED pipeVars
      BY <1>4, <2>2 DEF ClosePipelines, CloseGoes
    <3>2. \A i \in Intact : stage > i
      BY <1>1, <2>2, EndOfPass
    <3> QED
      BY <2>1, <3>1, <3>2, PlaceKept DEF HasOpened, HasClosed
  <2>3. CASE stage \in Stages /\ CloseStage(stage, TRUE) /\ place' = "closing"
             /\ stage' = stage + 1
    <3>1. stage \in Nat
      BY <1>1, <2>3 DEF Stages
    <3>2. /\ Intact' \subseteq Intact
          /\ \A j \in Intact' : j # stage => Keeps(j)
          /\ stage \in Intact' =>
                /\ ~handle'[stage]
                /\ handle[stage] => content'[stage] # <<>>
                /\ ~handle[stage] => content'[stage] = content[stage]
      BY <2>3, CloseEffect
    <3>3. ASSUME NEW i \in Intact', i # stage
          PROVE  /\ HasOpened(i)' => handle'[i]
                 /\ HasClosed(i)' => ~handle'[i] /\ content'[i] # <<>>
      <4>1. i \in Intact /\ Keeps(i) /\ i \in Nat
        BY <1>1, <3>2, <3>3
      <4>2. (stage' <= i => stage <= i) /\ (stage' > i => stage > i)
        BY <2>3, <3>1, <3>3, <4>1
      <4>3. (HasOpened(i)' => HasOpened(i)) /\ (HasClosed(i)' => HasClosed(i))
        BY <2>1, <2>3, <4>2 DEF HasOpened, HasClosed
      <4> QED
        BY <4>1, <4>3 DEF OpenInPlace, Keeps
    <3>4. ASSUME NEW i \in Intact', i = stage
          PROVE  /\ ~HasOpened(i)'
                 /\ HasClosed(i)' => ~handle'[i] /\ content'[i] # <<>>
      <4>1. ~(stage' <= i) /\ stage <= i
        BY <2>3, <3>1, <3>4
      <4>2. ~HasOpened(i)'
        BY <2>1, <2>3, <4>1 DEF HasOpened
      <4>3. /\ i \in Intact /\ ~handle'[i]
            /\ handle[i] => content'[i] # <<>>
            /\ ~handle[i] => content'[i] = content[i]
        BY <3>2, <3>4
      <4>4. CASE call = "run"
        <5>1. HasOpened(i)
          BY <2>1, <4>1, <4>4 DEF HasOpened
        <5>2. handle[i]
          BY <4>3, <5>1 DEF OpenInPlace
        <5> QED
          BY <4>2, <4>3, <5>2
      <4>5. CASE call # "run"
        <5>1. HasClosed(i)' => HasClosed(i)
          BY <2>1, <4>5 DEF HasClosed
        <5> QED
          BY <4>2, <4>3, <5>1 DEF OpenInPlace
      <4> QED
        BY <4>4, <4>5
    <3> QED
      BY <3>3, <3>4 DEF OpenInPlace
  <2>4. CASE stage \in Stages /\ CloseStage(stage, FALSE) /\ place' = "hooks"
    <3>1. /\ Intact' \subseteq Intact
          /\ \A j \in Intact' : j < stage
          /\ \A j \in Intact' : j # stage => Keeps(j)
      BY <2>4, CloseEffect
    <3>2. stage \in Nat
      BY <1>1, <2>4 DEF Stages
    <3>3. ASSUME NEW i \in Intact'
          PROVE  /\ HasOpened(i)' => handle'[i]
                 /\ HasClosed(i)' => ~handle'[i] /\ content'[i] # <<>>
      <4>1. i \in Intact /\ i < stage /\ i \in Nat
        BY <1>1, <3>1, <3>3
      <4>2. stage > i /\ i # stage
        BY <3>2, <4>1
      <4>3. Keeps(i)
        BY <3>1, <3>3, <4>2
      <4>4. ~HasOpened(i)' /\ (HasClosed(i)' => HasClosed(i))
        BY <2>1, <2>4, <4>2 DEF HasOpened, HasClosed
      <4> QED
        BY <4>1, <4>3, <4>4 DEF OpenInPlace, Keeps
    <3> QED
      BY <3>3 DEF OpenInPlace
  <2> QED
    BY <1>4, <2>2, <2>3, <2>4 DEF ClosePipelines, CloseGoes
<1>5. CASE PipelinesTimeOut
  <2>1. /\ place = "closing" /\ place' = "hooks" /\ UNCHANGED <<call, result>>
        /\ stage \in Stages
    BY <1>5 DEF PipelinesTimeOut, CloseGoes, Custom
  <2>2. /\ Intact' \subseteq Intact /\ \A j \in Intact' : j < stage
        /\ UNCHANGED <<content, handle, filed>>
    BY <1>5, TimeOutEffect
  <2>3. stage \in Nat
    BY <1>1, <2>1 DEF Stages
  <2>4. ASSUME NEW i \in Intact'
        PROVE  ~HasOpened(i)' /\ (HasClosed(i)' => HasClosed(i)) /\ i \in Intact
    <3>1. i \in Intact /\ stage > i
      BY <1>1, <2>2, <2>3, <2>4
    <3> QED
      BY <2>1, <3>1 DEF HasOpened, HasClosed
  <2> QED
    BY <2>2, <2>4 DEF OpenInPlace
<1>6. CASE HooksEnd \/ HooksTimeOut \/ NotifyAtClose
  <2>1. /\ place \in {"hooks", "notify"} /\ place' \in {"notify", "controller"}
        /\ UNCHANGED <<call, result>> /\ UNCHANGED pipeVars
    BY <1>6 DEF HooksEnd, HooksTimeOut, NotifyAtClose, CloseGoes
  <2> QED
    BY <2>1, PlaceKept DEF HasOpened, HasClosed
<1>7. CASE StopController
  <2>1. /\ place = "controller" /\ call \in {"run", "close"} /\ call' = "none"
        /\ result' = IF call = "run" THEN "ok" ELSE result
        /\ UNCHANGED pipeVars
    BY <1>7 DEF StopController, RunEnds
  <2> QED
    BY <2>1, PlaceKept DEF HasOpened, HasClosed
<1> QED
  BY <1>2, <1>3, <1>4, <1>5, <1>6, <1>7 DEF CloseStep

LEMMA PlaceStep ==
    ASSUME TypeOK, ProcessorInPlace, FilesTracked, OpenInPlace, [Next]_vars
    PROVE  OpenInPlace'
<1>1. ASSUME UNCHANGED <<call, place, stage, result>>, UNCHANGED pipeVars
      PROVE  OpenInPlace'
  BY <1>1, PlaceKept DEF HasOpened, HasClosed
<1>2. ASSUME NEW t \in Tasks, TaskStep(t) PROVE OpenInPlace'
  BY <1>1, <1>2 DEF TaskStep, TaskScrapes, TaskSends, callVars
<1>3. CASE ProcStep
  <2>1. UNCHANGED <<call, place, stage, result>>
    BY <1>3 DEF ProcStep, Receive, EndProcessor, StartItem, ItemPasses, ItemFails, CountItem,
                callVars
  <2>2. CASE UNCHANGED pipeVars
    BY <1>1, <2>1, <2>2
  <2>3. CASE ItemPasses \/ ItemFails
    <3>1. PICK ok \in BOOLEAN : ProcessStage(at, held[1], ok)
      BY <2>3 DEF ItemPasses, ItemFails
    <3>2. at \in Stages /\ held[1] \in Items
      BY <2>3, HeldItem DEF ItemPasses, ItemFails
    <3>3. /\ Intact' \subseteq Intact /\ handle' = handle
          /\ \A j \in Intact' : content[j] # <<>> => content'[j] # <<>>
      BY <3>1, <3>2, Groups, ProcessEffect
    <3> QED
      BY <2>1, <3>3 DEF OpenInPlace, HasOpened, HasClosed
  <2> QED
    BY <1>3, <2>2, <2>3 DEF ProcStep, Receive, EndProcessor, StartItem, CountItem
<1>4. CASE OtherStep
  <2>1. UNCHANGED pipeVars
    BY <1>4 DEF OtherStep, CancelRun, Pause, Resume, TestPaused, Park, Setter, SendSignal,
                MonitorEnds
  <2>2. CASE CancelRun
    BY <2>1, <2>2, PlaceKept DEF CancelRun, RunEnds, HasOpened, HasClosed
  <2>3. CASE ~CancelRun
    <3>1. UNCHANGED callVars
      BY <1>4, <2>3
         DEF OtherStep, Pause, Resume, TestPaused, Park, Setter, SendSignal, MonitorEnds
    <3> QED
      BY <1>1, <2>1, <3>1 DEF callVars
  <2> QED
    BY <2>2, <2>3
<1>5. CASE UNCHANGED <<callVars, controlVars, crawlVars, procVars, counted, helperVars, pipeVars>>
  BY <1>1, <1>5 DEF callVars
<1> QED
  BY <1>2, <1>3, <1>4, <1>5, StepKinds, RunPlace, ClosePlace

-----------------------------------------------------------------------------
(* What is counted is filed *)

\* A step of somebody else who files and counts nothing, and begins no crawl.
LEMMA CountedKept ==
    ASSUME CountedFiled, Intact' \subseteq Intact, UNCHANGED <<filed, counted, proc, held, at>>,
           Crawling' \/ Closing' => Crawling \/ Closing
    PROVE  CountedFiled'
  BY DEF CountedFiled, Filed

LEMMA CountedStep ==
    ASSUME TypeOK, ProcessorInPlace, FilesTracked, OpenInPlace, CountedFiled, [Next]_vars
    PROVE  CountedFiled'
<1> USE Groups
<1>1. ASSUME UNCHANGED pipeVars PROVE Intact' = Intact /\ filed' = filed
  BY <1>1 DEF pipeVars, Intact
<1>2. CASE Run
  <2>1. CASE AwaitProcessor
    <3>1. UNCHANGED pipeVars /\ UNCHANGED <<counted, proc, held, at>>
      BY <2>1 DEF AwaitProcessor, procVars
    <3>2. Crawling
      BY <2>1 DEF AwaitProcessor, RunGoes, Crawling
    <3> QED
      BY <1>1, <3>1, <3>2, CountedKept
  <2>2. CASE StartCrawl
    <3>1. counted' = counted
      BY <2>2 DEF StartCrawl
    <3>2. CASE rx
      <4>1. proc' = "recv" /\ counted = {}
        BY <2>2, <3>2 DEF StartCrawl, ProcessorInPlace
      <4> QED
        BY <3>1, <4>1 DEF CountedFiled
    <3>3. CASE ~rx
      BY <2>2, <3>3 DEF StartCrawl, RunEnds, CountedFiled, Crawling, Closing
    <3> QED
      BY <3>2, <3>3
  <2>3. CASE FinishCrawl
    <3>1. UNCHANGED pipeVars /\ UNCHANGED <<counted, proc, held, at>>
      BY <2>3 DEF FinishCrawl, procVars
    <3>2. Crawling
      BY <2>3 DEF FinishCrawl, RunGoes, Crawling
    <3> QED
      BY <1>1, <3>1, <3>2, CountedKept
  <2>4. CASE \/ StartRun \/ StartController \/ ConnectPaused \/ ConnectResumed
              \/ OpenMiddlewares \/ OpenPipelines \/ AbortStart
    <3>1. ~Crawling' /\ ~Closing'
      BY <2>4 DEF StartRun, StartController, ConnectPaused, ConnectResumed, Connect,
                  OpenMiddlewares, OpenPipelines, AbortStart, RunGoes, RunEnds,
                  Crawling, Closing
    <3> QED
      BY <3>1 DEF CountedFiled
  <2>5. ASSUME NEW t \in Tasks, SpawnTask(t) PROVE CountedFiled'
    <3>1. UNCHANGED pipeVars /\ UNCHANGED <<counted, proc, held, at, call, place, result>>
      BY <2>5 DEF SpawnTask, procVars, callVars
    <3> QED
      BY <1>1, <3>1, CountedKept DEF Crawling, Closing
  <2> QED
    BY <1>2, <2>1, <2>2, <2>3, <2>4, <2>5 DEF Run
<1>3. ASSUME NEW t \in Tasks, TaskStep(t) PROVE CountedFiled'
  <2>1. UNCHANGED pipeVars /\ UNCHANGED <<counted, proc, held, at, call, place, result>>
    BY <1>3 DEF TaskStep, TaskScrapes, TaskSends, procVars, callVars
  <2> QED
    BY <1>1, <2>1, CountedKept DEF Crawling, Closing
<1>4. CASE ProcStep
  <2>1. UNCHANGED <<call, place, stage, result>>
    BY <1>4 DEF ProcStep, Receive, EndProcessor, StartItem, ItemPasses, ItemFails, CountItem,
                callVars
  <2>2. Crawling' = Crawling /\ Closing' = Closing
    BY <2>1 DEF Crawling, Closing
  <2>3. CASE Receive \/ EndProcessor
    <3>1. UNCHANGED pipeVars /\ counted' = counted /\ proc' # "process"
      BY <2>3 DEF Receive, EndProcessor
    <3> QED
      BY <1>1, <2>2, <3>1 DEF CountedFiled, Filed
  <2>4. CASE StartItem
    <3>1. UNCHANGED pipeVars /\ counted' = counted /\ at' = 1
      BY <2>4 DEF StartItem
    <3>2. \A i \in Intact : ~(at' > i)
      BY <3>1, ChainLength DEF Intact, Stages
    <3> QED
      BY <1>1, <2>2, <3>1, <3>2 DEF CountedFiled, Filed
  <2>5. CASE ItemFails
    <3>1. at \in Stages /\ held[1] \in Items /\ ProcessStage(at, held[1], FALSE)
      BY <2>5, HeldItem DEF ItemFails
    <3>2. /\ Intact' \subseteq Intact
          /\ \A j \in Intact', y \in Items : Filed(j, y) => Filed(j, y)'
      BY <3>1, ProcessEffect
    <3>3. counted' = counted /\ proc' = "recv"
      BY <2>5 DEF ItemFails
    <3>4. counted \subseteq Items
      BY DEF CountTypes
    <3> QED
      BY <2>2, <3>2, <3>3, <3>4 DEF CountedFiled
  <2>6. CASE ItemPasses
    <3>1. at \in Stages /\ held[1] \in Items /\ proc = "process"
      BY <2>6, HeldItem DEF ItemPasses
    <3>2. PICK s \in Stages : s = at
      BY <3>1
    <3>3. PICK h \in Items : h = held[1]
      BY <3>1
    <3>4. ProcessStage(s, h, TRUE)
      BY <2>6, <3>2, <3>3 DEF ItemPasses
    <3>5. /\ Intact' \subseteq Intact
          /\ \A j \in Intact', y \in Items : Filed(j, y) => Filed(j, y)'
          /\ s \in Intact' /\ handle[s] => Filed(s, h)'
      BY <3>4, ProcessEffect
    <3>6. counted' = counted /\ at' = at + 1 /\ held' = held /\ proc' = proc
      BY <2>6 DEF ItemPasses
    <3>7. counted \subseteq Items
      BY DEF CountTypes
    <3>8. ASSUME Crawling \/ Closing, NEW i \in Intact', at' > i
          PROVE  Filed(i, h)'
      <4>1. i \in Intact /\ i \in Nat /\ s \in Nat
        BY <3>5, ChainLength DEF Intact, Stages
      <4>2. CASE s > i
        <5>1. Filed(i, h)
          BY <3>8, <3>2, <3>3, <3>1, <4>1, <4>2 DEF CountedFiled
        <5> QED
          BY <3>5, <5>1
      <4>3. CASE ~(s > i)
        <5>1. s = i
          BY <3>6, <3>8, <3>2, <4>1, <4>3
        <5>2. Crawling
          BY <3>8, <3>1 DEF ProcessorInPlace
        <5>3. handle[i]
          BY <4>1, <5>2 DEF Crawling, HasOpened, OpenInPlace
        <5> QED
          BY <3>5, <5>1, <5>3
      <4> QED
        BY <4>2, <4>3
    <3>9. ASSUME Crawling \/ Closing, NEW i \in Intact', NEW x \in counted
          PROVE  Filed(i, x)'
      BY <3>5, <3>7, <3>9 DEF CountedFiled
    <3> QED
      BY <2>2, <3>6, <3>8, <3>9, <3>3 DEF CountedFiled, Filed
  <2>7. CASE CountItem
    <3>1. proc = "process" /\ at \notin Stages /\ UNCHANGED pipeVars
      BY <2>7 DEF CountItem
    <3>2. at \in 1 .. (Len(Chain) + 1) /\ Len(Chain) \in Nat
      BY ChainLength DEF ProcTypes
    <3>3. \A i \in Intact : at > i
      BY <3>1, <3>2 DEF Intact, Stages
    <3>4. counted' = counted \cup {held[1]} /\ proc' = "recv"
      BY <2>7 DEF CountItem
    <3> QED
      BY <1>1, <2>2, <3>1, <3>3, <3>4 DEF CountedFiled, Filed
  <2> QED
    BY <1>4, <2>3, <2>4, <2>5, <2>6, <2>7 DEF ProcStep
<1>5. CASE CloseStep
  <2>1. UNCHANGED <<counted, proc, held, at>>
    BY <1>5 DEF CloseStep, CallClose, BeginClose, ClosePipelines, PipelinesTimeOut, HooksTimeOut,
                HooksEnd, NotifyAtClose, StopController, procVars
  <2>2. Intact' \subseteq Intact /\ filed' = filed
    <3>1. CASE UNCHANGED pipeVars
      BY <1>1, <3>1
    <3>2. CASE ClosePipelines /\ stage \in Stages
      <4>1. PICK ok \in BOOLEAN : CloseStage(stage, ok)
        BY <3>2 DEF ClosePipelines
      <4> QED
        BY <3>2, <4>1, CloseEffect
    <3>3. CASE PipelinesTimeOut
      BY <3>3, TimeOutEffect
    <3> QED
      BY <1>5, <3>1, <3>2, <3>3
         DEF CloseStep, CallClose, BeginClose, ClosePipelines, HooksTimeOut, HooksEnd,
             NotifyAtClose, StopController
  <2> QED
    BY <1>5, <2>1, <2>2, CloseCloses, CountedKept
<1>6. CASE OtherStep
  <2>1. UNCHANGED pipeVars /\ UNCHANGED <<counted, proc, held, at>>
    BY <1>6 DEF OtherStep, CancelRun, Pause, Resume, TestPaused, Park, Setter, SendSignal,
                MonitorEnds, procVars
  <2> QED
    BY <1>1, <1>6, <2>1, OtherCloses, CountedKept
<1>7. CASE UNCHANGED <<callVars, controlVars, crawlVars, procVars, counted, helperVars, pipeVars>>
  BY <1>1, <1>7, CountedKept DEF callVars, procVars, Crawling, Closing
<1> QED
  BY <1>2, <1>3, <1>4, <1>5, <1>6, <1>7, StepKinds

-----------------------------------------------------------------------------
(* What a close loses *)

\* What opening a stage does to the files after it, and closing to all of them.
LEMMA OpenFiles ==
    ASSUME PipeTypeOK, NEW i \in Stages, NEW ok \in BOOLEAN, OpenStage(i, ok)
    PROVE  \A j \in Files \ spoiled' :
              IF j = i THEN handle'[j] ELSE j \notin spoiled /\ handle'[j] = handle[j]
<1>1. Spoils(i) => i \in spoiled' /\ spoiled \subseteq spoiled'
  BY ChainLength DEF Spoils, Stages
<1>2. CASE OpenJson(i, ok)
  <2>1. handle' = handle \/ handle' = [handle EXCEPT ![i] = TRUE]
    BY <1>2 DEF OpenJson
  <2>2. (ok /\ spoiled' = spoiled \ {i} /\ handle'[i]) \/ Spoils(i)
    BY <1>2 DEF OpenJson, PipeTypeOK
  <2> QED
    BY <1>1, <2>1, <2>2 DEF Files, PipeTypeOK
<1>3. CASE OpenAppend(i, ok)
  <2>1. handle' = handle \/ handle' = [handle EXCEPT ![i] = TRUE]
    BY <1>3 DEF OpenAppend
  <2>2. (ok /\ spoiled' = spoiled \ {i} /\ handle'[i]) \/ Spoils(i)
    BY <1>3 DEF OpenAppend, PipeTypeOK
  <2> QED
    BY <1>1, <2>1, <2>2 DEF Files, PipeTypeOK
<1>4. CASE OtherHook(i, ok)
  BY <1>1, <1>4 DEF OtherHook
<1> QED
  BY <1>2, <1>3, <1>4 DEF OpenStage

LEMMA CloseFiles ==
    ASSUME CloseStep
    PROVE  filed' = filed /\ spoiled \subseteq spoiled'
<1>1. CASE UNCHANGED pipeVars
  BY <1>1 DEF pipeVars
<1>2. ASSUME NEW ok \in BOOLEAN, CloseStage(stage, ok)
      PROVE  filed' = filed /\ spoiled \subseteq spoiled'
  BY <1>2 DEF CloseStage, CloseFile, OtherHook, Spoils
<1>3. CASE PipelinesTimeOut
  BY <1>3 DEF PipelinesTimeOut, Spoils
<1> QED
  BY <1>1, <1>2, <1>3
     DEF CloseStep, CallClose, BeginClose, ClosePipelines, HooksTimeOut, HooksEnd,
         NotifyAtClose, StopController

\* Who changes the flag, the history of it, and how often run() was called.
LEMMA ControlKept ==
    ASSUME [Next]_vars
    PROVE  \/ \E b \in BOOLEAN : Setter(b)
           \/ StartRun \/ Resume \/ Pause \/ BeginClose
           \/ UNCHANGED <<running, closed>>
<1>1. CASE Run
  BY <1>1 DEF Run, StartController, ConnectPaused, ConnectResumed, Connect, OpenMiddlewares,
              OpenPipelines, AbortStart, StartCrawl, FinishCrawl,
              AwaitProcessor, SpawnTask, controlVars
<1>2. ASSUME NEW t \in Tasks, TaskStep(t) PROVE UNCHANGED <<running, closed>>
  BY <1>2 DEF TaskStep, TaskScrapes, TaskSends, controlVars
<1>3. CASE ProcStep
  BY <1>3 DEF ProcStep, Receive, EndProcessor, StartItem, ItemPasses, ItemFails, CountItem,
              controlVars
<1>4. CASE CloseStep
  BY <1>4 DEF CloseStep, CallClose, ClosePipelines, PipelinesTimeOut, HooksTimeOut, HooksEnd,
              NotifyAtClose, StopController, controlVars
<1>5. CASE OtherStep
  BY <1>5 DEF OtherStep, CancelRun, TestPaused, Park, SendSignal, MonitorEnds, controlVars
<1>6. CASE UNCHANGED <<callVars, controlVars, crawlVars, procVars, counted, helperVars, pipeVars>>
  BY <1>6 DEF controlVars
<1> QED
  BY <1>1, <1>2, <1>3, <1>4, <1>5, <1>6, StepKinds

\* A run that was not the first stays one, and so does what was revived.
LEMMA HistoryKept ==
    ASSUME TypeOK, [Next]_vars
    PROVE  /\ closed' = "no" => closed = "no"
           /\ OneRun' => OneRun
           /\ closed = "yes" /\ OneRun' =>
                 closed' = "yes" /\ ~StartRun /\ ~Resume /\ ~Setter(TRUE)
<1> USE Groups
<1>1. runs' = runs \/ (StartRun /\ runs' = runs + 1)
  <2>1. CASE Run
    BY <2>1 DEF Run, StartRun, StartController, ConnectPaused, ConnectResumed, Connect,
                      OpenMiddlewares, OpenPipelines, AbortStart, StartCrawl,
                FinishCrawl, AwaitProcessor, SpawnTask, RunGoes, RunEnds, callVars
  <2>2. ASSUME NEW t \in Tasks, TaskStep(t) PROVE runs' = runs
    BY <2>2 DEF TaskStep, TaskScrapes, TaskSends, callVars
  <2>3. CASE ProcStep
    BY <2>3 DEF ProcStep, Receive, EndProcessor, StartItem, ItemPasses, ItemFails, CountItem,
                callVars
  <2>4. CASE CloseStep
    BY <2>4 DEF CloseStep, CallClose, BeginClose, ClosePipelines, PipelinesTimeOut,
                HooksTimeOut, HooksEnd, NotifyAtClose, StopController, CloseGoes, RunEnds
  <2>5. CASE OtherStep
    BY <2>5 DEF OtherStep, CancelRun, Pause, Resume, TestPaused, Park, Setter, SendSignal,
                MonitorEnds, RunEnds, callVars
  <2> QED
    BY <2>1, <2>2, <2>3, <2>4, <2>5, StepKinds DEF callVars
<1>2. runs \in Int
  BY LifecycleAssumption DEF CallTypes, LifecycleConstants
<1>3. \/ UNCHANGED <<running, closed>> \/ closed' = closed
      \/ Runs
      \/ closed' = IF closed = "no" THEN "yes" ELSE closed
  BY ControlKept DEF Setter, StartRun, Resume, Pause, BeginClose
<1>4. closed' = "no" => closed = "no"
  BY <1>3 DEF Runs
<1>5. closed = "revived" => closed' = "revived"
  BY <1>3 DEF Runs
<1>6. OneRun' => OneRun
  BY <1>1, <1>2, <1>5 DEF OneRun
<1>7. closed = "yes" /\ Runs => ~OneRun'
  BY DEF Runs, OneRun
<1>8. StartRun \/ Resume \/ Setter(TRUE) => Runs
  BY DEF StartRun, Resume, Setter
<1>9. closed = "yes" => closed' \in {"yes", "revived"}
  BY <1>3 DEF Runs
<1> QED
  BY <1>4, <1>6, <1>7, <1>8, <1>9 DEF OneRun

\* Only the owner calls close().
LEMMA CloseKept ==
    ASSUME [Next]_vars, ~CallClose
    PROVE  /\ closes' = closes /\ (call' = "close" => call = "close")
           /\ Waking' => Waking
           /\ ~BeginClose /\ place' \in {"closing", "hooks", "notify", "controller"} =>
                 place \in {"closing", "hooks", "notify", "controller"}
<1>1. CASE Run
  <2>1. ASSUME NEW t \in Tasks, SpawnTask(t) PROVE UNCHANGED callVars
    BY <2>1 DEF SpawnTask
  <2> QED
    BY <1>1, <2>1 DEF Run, StartRun, StartController, ConnectPaused, ConnectResumed, Connect,
                      OpenMiddlewares, OpenPipelines, AbortStart, StartCrawl,
                      FinishCrawl, AwaitProcessor, RunGoes, RunEnds, callVars, Waking
<1>2. CASE CloseStep
  BY <1>2 DEF CloseStep, BeginClose, ClosePipelines, PipelinesTimeOut, HooksTimeOut, HooksEnd,
              NotifyAtClose, StopController, CloseGoes, RunEnds, Waking
<1>3. CASE CancelRun
  BY <1>3 DEF CancelRun, RunEnds, Waking
<1>4. CASE ~Run /\ ~CloseStep /\ ~CancelRun
  <2>1. UNCHANGED callVars
    BY <1>4, StepKinds
       DEF TaskStep, TaskScrapes, TaskSends, ProcStep, Receive, EndProcessor, StartItem,
           ItemPasses, ItemFails, CountItem, OtherStep, Pause, Resume, TestPaused, Park,
           Setter, SendSignal, MonitorEnds
  <2> QED
    BY <2>1 DEF callVars, Waking
<1> QED
  BY <1>1, <1>2, <1>3, <1>4

\* The places of a close, and the flag after it.
LEMMA ClosedStep ==
    ASSUME TypeOK, ClosedInPlace, [Next]_vars
    PROVE  /\ (closed = "yes" => ~running)'
           /\ (place \in {"closing", "hooks", "notify", "controller"} => closed # "no")'
           /\ (call = "close" => closes > 0)'
<1> USE Groups DEF ClosedInPlace
<1>1. (closed = "yes" => ~running)'
  BY ControlKept DEF Setter, StartRun, Resume, Pause, BeginClose, Runs
<1>2. closed # "no" => closed' # "no"
  BY HistoryKept
<1>3. CASE CallClose
  <2>1. closes \in Nat
    BY LifecycleAssumption DEF CallTypes, LifecycleConstants
  <2>2. closes' > 0
    BY <1>3, <2>1 DEF CallClose
  <2>3. place' = "stopping"
    BY <1>3 DEF CallClose
  <2> QED
    BY <1>1, <2>2, <2>3
<1>4. CASE BeginClose
  <2>1. closed' # "no" /\ closes' = closes /\ call' = call
    BY <1>4 DEF BeginClose, CloseGoes
  <2> QED
    BY <1>1, <2>1
<1>5. CASE ~CallClose /\ ~BeginClose
  BY <1>1, <1>2, <1>5, CloseKept
<1> QED
  BY <1>3, <1>4, <1>5

\* Who moves the processor's wait.
LEMMA ProcWaits ==
    ASSUME TypeOK, [Next]_vars
    PROVE  \/ StartItem \/ TestPaused(Proc) \/ Park(Proc) \/ Resume \/ NotifyAtClose
           \/ wait'[Proc] = wait[Proc]
<1> USE Groups
<1>1. Proc \in Actors /\ Main # Proc /\ Proc \notin Tasks
      /\ wait \in [Actors -> {"no", "tested", "parked", "woken"}]
  BY LifecycleAssumption DEF WaitTypes, Actors, LifecycleConstants
<1>2. \A a \in Actors : a # Proc /\ (Passes(a) \/ TestPaused(a) \/ Park(a)) =>
                           wait'[Proc] = wait[Proc]
  BY <1>1 DEF Passes, TestPaused, Park
<1>3. CASE Run
  <2>1. ASSUME NEW t \in Tasks, SpawnTask(t) PROVE wait'[Proc] = wait[Proc]
    BY <1>1, <1>2, <2>1 DEF SpawnTask, Actors
  <2>2. FinishCrawl => wait'[Proc] = wait[Proc]
    BY <1>1 DEF FinishCrawl
  <2> QED
    BY <1>3, <2>1, <2>2 DEF Run, StartRun, StartController, ConnectPaused, ConnectResumed, Connect,
                      OpenMiddlewares, OpenPipelines, AbortStart, StartCrawl,
                      FinishCrawl, AwaitProcessor, crawlVars
<1>4. ASSUME NEW t \in Tasks, TaskStep(t) PROVE wait'[Proc] = wait[Proc]
  BY <1>1, <1>2, <1>4 DEF TaskStep, TaskScrapes, TaskSends, Actors
<1>5. CASE ProcStep
  BY <1>5 DEF ProcStep, Receive, EndProcessor, ItemPasses, ItemFails, CountItem, crawlVars
<1>6. CASE CloseStep
  BY <1>6 DEF CloseStep, CallClose, BeginClose, ClosePipelines, PipelinesTimeOut,
              HooksTimeOut, HooksEnd, StopController, crawlVars
<1>7. CASE OtherStep
  <2>1. CASE CancelRun
    BY <1>1, <2>1 DEF CancelRun
  <2>2. ASSUME NEW a \in Actors, TestPaused(a) \/ Park(a)
        PROVE  TestPaused(Proc) \/ Park(Proc) \/ wait'[Proc] = wait[Proc]
    BY <1>2, <2>2
  <2> QED
    BY <1>7, <2>1, <2>2 DEF OtherStep, Pause, Setter, SendSignal, MonitorEnds, crawlVars
<1>8. CASE UNCHANGED <<callVars, controlVars, crawlVars, procVars, counted, helperVars, pipeVars>>
  BY <1>8 DEF crawlVars
<1> QED
  BY <1>3, <1>4, <1>5, <1>6, <1>7, <1>8, StepKinds

\* Where the processor stands after a step that is not its own.
LEMMA ProcStands ==
    ASSUME [Next]_vars
    PROVE  ProcStep \/ (StartCrawl /\ rx /\ proc' = "recv") \/ UNCHANGED <<proc, held, at>>
<1>1. CASE Run
  BY <1>1 DEF Run, StartRun, StartController, ConnectPaused, ConnectResumed, Connect,
                      OpenMiddlewares, OpenPipelines, AbortStart, StartCrawl,
              FinishCrawl, AwaitProcessor, SpawnTask, procVars
<1>2. ASSUME NEW t \in Tasks, TaskStep(t) PROVE UNCHANGED <<proc, held, at>>
  BY <1>2 DEF TaskStep, TaskScrapes, TaskSends, procVars
<1>3. CASE CloseStep
  BY <1>3 DEF CloseStep, CallClose, BeginClose, ClosePipelines, PipelinesTimeOut,
              HooksTimeOut, HooksEnd, NotifyAtClose, StopController, procVars
<1>4. CASE OtherStep
  BY <1>4 DEF OtherStep, CancelRun, Pause, Resume, TestPaused, Park, Setter, SendSignal,
              MonitorEnds, procVars
<1>5. CASE UNCHANGED <<callVars, controlVars, crawlVars, procVars, counted, helperVars, pipeVars>>
  BY <1>5 DEF procVars
<1> QED
  BY <1>1, <1>2, <1>3, <1>4, <1>5, StepKinds

\* The processor waits only for the item it holds.
LEMMA WaitStep ==
    ASSUME TypeOK, ProcessorInPlace, ClosedInPlace, [Next]_vars
    PROVE  (proc # "item" => wait[Proc] = "no")'
<1> USE Groups
<1>1. Proc \in Actors /\ Main # Proc /\ Proc \notin Tasks
      /\ wait \in [Actors -> {"no", "tested", "parked", "woken"}]
  BY LifecycleAssumption DEF WaitTypes, Actors, LifecycleConstants
<1>2. proc # "item" => wait[Proc] = "no"
  BY DEF ClosedInPlace
<1>3. CASE StartItem
  BY <1>1, <1>3 DEF StartItem, Passes
<1>4. CASE TestPaused(Proc) \/ Park(Proc)
  <2>1. proc' = proc
    BY <1>4 DEF TestPaused, Park, procVars
  <2>2. proc = "item"
    BY <1>1, <1>2, <1>4 DEF TestPaused, Park, AtCheckpoint
  <2> QED
    BY <2>1, <2>2
<1>5. CASE Resume \/ NotifyAtClose
  <2>1. proc' = proc /\ NotifyWaiters
    BY <1>5 DEF Resume, NotifyAtClose, procVars
  <2> QED
    BY <1>1, <1>2, <2>1 DEF NotifyWaiters
<1>6. CASE wait'[Proc] = wait[Proc]
  <2>1. CASE ProcStep
    <3>1. proc # "item" \/ StartItem
      BY <2>1 DEF ProcStep, Receive, EndProcessor, ItemPasses, ItemFails, CountItem
    <3> QED
      BY <1>2, <1>3, <1>6, <3>1
  <2>2. CASE StartCrawl /\ rx
    BY <1>2, <1>6, <2>2 DEF ProcessorInPlace
  <2>3. CASE proc' = proc
    BY <1>2, <1>6, <2>3
  <2> QED
    BY <2>1, <2>2, <2>3, ProcStands
<1> QED
  BY <1>3, <1>4, <1>5, <1>6, ProcWaits

LEMMA OpensFirstStep ==
    ASSUME TypeOK, OpensFirst, [Next]_vars
    PROVE  OpensFirst'
<1> USE Groups
<1>1. runs \in Nat /\ rx \in BOOLEAN
  BY LifecycleAssumption DEF CallTypes, CrawlTypes, LifecycleConstants
<1>2. CASE StartRun
  <2>1. runs' = runs + 1 /\ rx' = rx
    BY <1>2 DEF StartRun, crawlVars
  <2>2. runs' > 0 /\ (runs' = 1 => runs = 0)
    BY <1>1, <2>1
  <2> QED
    BY <1>1, <2>1, <2>2 DEF OpensFirst
<1>3. CASE StartCrawl
  <2>1. /\ runs' = runs /\ call = "run" /\ place = "start"
        /\ place' \notin Starting \cup {"start"}
    BY <1>3 DEF StartCrawl, RunGoes, RunEnds
  <2>2. runs' > 0
    BY <2>1 DEF OpensFirst
  <2> QED
    BY <2>1, <2>2 DEF OpensFirst
<1>4. CASE ~StartRun /\ ~StartCrawl
  <2>1. /\ runs' = runs /\ rx' = rx /\ (call' = "run" => call = "run")
        /\ place' \in Starting \cup {"start"} =>
              place \in Starting \cup {"start"}
    <3>1. CASE Run
      <4>1. ASSUME NEW t \in Tasks, SpawnTask(t) PROVE UNCHANGED callVars /\ rx' = rx
        BY <4>1 DEF SpawnTask
      <4> QED
        BY <1>4, <3>1, <4>1 DEF Run, StartController, ConnectPaused, ConnectResumed, Connect,
              OpenMiddlewares,
                      OpenPipelines, AbortStart, FinishCrawl,
              AwaitProcessor, RunGoes, RunEnds, callVars, crawlVars
    <3>2. CASE CloseStep
      BY <3>2 DEF CloseStep, CallClose, BeginClose, ClosePipelines, PipelinesTimeOut,
                  HooksTimeOut, HooksEnd, NotifyAtClose, StopController, CloseGoes, RunEnds,
                  crawlVars
    <3>3. CASE CancelRun
      BY <3>3 DEF CancelRun, RunEnds
    <3>4. CASE ~Run /\ ~CloseStep /\ ~CancelRun
      <4>1. UNCHANGED callVars /\ rx' = rx
        BY <3>4, StepKinds
           DEF TaskStep, TaskScrapes, TaskSends, ProcStep, Receive, EndProcessor, StartItem,
               ItemPasses, ItemFails, CountItem, OtherStep, Pause, Resume, TestPaused, Park,
               Setter, SendSignal, MonitorEnds, crawlVars
      <4> QED
        BY <4>1 DEF callVars
    <3> QED
      BY <3>1, <3>2, <3>3, <3>4
  <2> QED
    BY <2>1 DEF OpensFirst
<1> QED
  BY <1>2, <1>3, <1>4

\* Opening comes to nothing but the next stage.
LEMMA OpeningKept ==
    ASSUME [Next]_vars, ~OpenPipelines, ~StartCrawl
    PROVE  /\ rx' = rx
           /\ \/ place' = "monitor" /\ stage' = 1
              \/ place \in Starting /\ place' \in Starting /\ stage' = stage
              \/ place' \notin Starting \cup {"start"}
              \/ UNCHANGED <<place, stage>>
<1>1. CASE Run
  <2>1. ASSUME NEW t \in Tasks, SpawnTask(t) PROVE UNCHANGED <<rx, place, stage>>
    BY <2>1 DEF SpawnTask, callVars
  <2> QED
    BY <1>1, <2>1 DEF Run, StartRun, StartController, ConnectPaused, ConnectResumed, Connect,
                      OpenMiddlewares, AbortStart, FinishCrawl, AwaitProcessor,
                      RunGoes, RunEnds, crawlVars
<1>2. CASE CloseStep
  BY <1>2 DEF CloseStep, CallClose, BeginClose, ClosePipelines, PipelinesTimeOut,
              HooksTimeOut, HooksEnd, NotifyAtClose, StopController, CloseGoes, RunEnds,
              crawlVars
<1>3. CASE CancelRun
  BY <1>3 DEF CancelRun, RunEnds
<1>4. CASE ~Run /\ ~CloseStep /\ ~CancelRun
  <2>1. UNCHANGED callVars /\ rx' = rx
    BY <1>4, StepKinds
       DEF TaskStep, TaskScrapes, TaskSends, ProcStep, Receive, EndProcessor, StartItem,
           ItemPasses, ItemFails, CountItem, OtherStep, Pause, Resume, TestPaused, Park,
           Setter, SendSignal, MonitorEnds, crawlVars
  <2> QED
    BY <2>1 DEF callVars
<1> QED
  BY <1>1, <1>2, <1>3, <1>4

\* Who counts.
LEMMA CountedBy ==
    ASSUME [Next]_vars
    PROVE  CountItem \/ counted' = counted
<1>1. CASE Run
  BY <1>1 DEF Run, StartRun, StartController, ConnectPaused, ConnectResumed, Connect,
                      OpenMiddlewares, OpenPipelines, AbortStart, StartCrawl,
              FinishCrawl, AwaitProcessor, SpawnTask
<1>2. ASSUME NEW t \in Tasks, TaskStep(t) PROVE counted' = counted
  BY <1>2 DEF TaskStep, TaskScrapes, TaskSends
<1>3. CASE ProcStep
  BY <1>3 DEF ProcStep, Receive, EndProcessor, StartItem, ItemPasses, ItemFails
<1>4. CASE CloseStep
  BY <1>4 DEF CloseStep, CallClose, BeginClose, ClosePipelines, PipelinesTimeOut,
              HooksTimeOut, HooksEnd, NotifyAtClose, StopController
<1>5. CASE OtherStep
  BY <1>5 DEF OtherStep, CancelRun, Pause, Resume, TestPaused, Park, Setter, SendSignal,
              MonitorEnds
<1> QED
  BY <1>1, <1>2, <1>3, <1>4, <1>5, StepKinds

LEMMA NothingLostStep ==
    ASSUME TypeOK, ProcessorInPlace, ClosedInPlace, OpensFirst, NothingLost, [Next]_vars
    PROVE  NothingLost'
<1> USE Groups
<1> SUFFICES ASSUME OneRun', closed' = "no", NEW i \in Files \ spoiled'
             PROVE  /\ \A x \in counted' : Filed(i, x)'
                    /\ proc' = "process" /\ at' > i => Filed(i, held[1])'
                    /\ \/ ~rx' \/ place' = "start"
                       \/ place' \in Starting /\ stage' > i
                       => handle'[i]
  BY DEF NothingLost
<1>1. OneRun /\ closed = "no" /\ place \notin {"closing", "hooks", "notify", "controller"}
  BY HistoryKept DEF ClosedInPlace
<1>2. i \in Stages /\ i \in Nat /\ i >= 1
  BY ChainLength DEF Files, Stages
<1>3. counted \subseteq Items /\ counted' \subseteq Items
  BY TypeStep DEF CountTypes
<1>4. i \notin spoiled =>
        /\ \A x \in counted : Filed(i, x)
        /\ proc = "process" /\ at > i => Filed(i, held[1])
        /\ \/ ~rx \/ place = "start"
           \/ place \in Starting /\ stage > i
           => handle[i]
  BY <1>1 DEF NothingLost
<1>5. CASE OpenPipelines
  <2>1. /\ call = "run" /\ place = "opening" /\ counted' = counted
        /\ UNCHANGED <<rx, proc>>
    BY <1>5 DEF OpenPipelines, crawlVars, procVars
  <2>2. runs = 1
    <3>1. runs > 0 /\ runs <= 1 /\ runs \in Int
      BY <1>1, <2>1, LifecycleAssumption DEF OpensFirst, OneRun, CallTypes, LifecycleConstants
    <3> QED
      BY <3>1
  <2>3. rx' /\ proc' = "none" /\ counted' = {}
    BY <2>1, <2>2 DEF OpensFirst, ProcessorInPlace
  <2>4. CASE stage \notin Stages
    <3>1. UNCHANGED pipeVars
      BY <1>5, <2>4 DEF OpenPipelines
    <3>2. i \notin spoiled /\ stage > i
      BY <1>2, <2>4, <3>1, EndOfPass DEF pipeVars
    <3>3. handle'[i]
      BY <1>4, <2>1, <3>1, <3>2 DEF pipeVars
    <3> QED
      BY <2>3, <3>3
  <2>5. CASE stage \in Stages /\ OpenStage(stage, TRUE) /\ stage' = stage + 1
             /\ UNCHANGED <<call, place, result, runs, closes>>
    <3>1. IF i = stage THEN handle'[i] ELSE i \notin spoiled /\ handle'[i] = handle[i]
      BY <2>5, OpenFiles
    <3>2. ASSUME stage' > i PROVE handle'[i]
      <4>1. stage \in Nat
        BY <2>5, ChainLength DEF Stages
      <4>2. i = stage \/ stage > i
        BY <1>2, <2>5, <3>2, <4>1
      <4> QED
        BY <1>4, <2>1, <3>1, <4>2
    <3> QED
      BY <2>1, <2>3, <2>5, <3>2
  <2>6. CASE RunEnds("error")
    BY <2>3, <2>6 DEF RunEnds
  <2> QED
    BY <1>5, <2>4, <2>5, <2>6 DEF OpenPipelines
<1>6. CASE ItemPasses
  <2>1. /\ proc = "process" /\ at' = at + 1 /\ counted' = counted
        /\ UNCHANGED <<rx, place, stage, proc, held>>
    BY <1>6 DEF ItemPasses, callVars, crawlVars
  <2>2. PICK s \in Stages : s = at
    BY <1>6 DEF ItemPasses
  <2>3. PICK h \in Items : h = held[1]
    BY <2>1, HeldItem
  <2>4. ProcessStage(s, h, TRUE)
    BY <1>6, <2>2, <2>3 DEF ItemPasses
  <2>5. /\ handle' = handle /\ spoiled \subseteq spoiled'
        /\ \A j \in Stages, y \in Items : Filed(j, y) => Filed(j, y)'
        /\ s \in Files /\ handle[s] => Filed(s, h)'
    BY <2>4, ProcessFiles
  <2>6. i \notin spoiled
    BY <2>5
  <2>7. \A x \in counted' : Filed(i, x)'
    BY <1>2, <1>3, <1>4, <2>1, <2>5, <2>6
  <2>8. handle[i]
    BY <1>4, <2>1, <2>6 DEF ProcessorInPlace
  <2>9. ASSUME at' > i PROVE Filed(i, h)'
    <3>1. s \in Nat
      BY ChainLength DEF Stages
    <3>2. i = s \/ at > i
      BY <1>2, <2>1, <2>2, <2>9, <3>1
    <3>3. CASE i = s
      BY <2>5, <2>8, <3>3
    <3>4. CASE at > i
      <4>1. Filed(i, h)
        BY <1>4, <2>1, <2>3, <2>6, <3>4
      <4> QED
        BY <1>2, <2>5, <4>1
    <3> QED
      BY <3>2, <3>3, <3>4
  <2>10. at' > i => Filed(i, held[1])'
    BY <2>1, <2>3, <2>9 DEF Filed
  <2> QED
    BY <2>5, <2>7, <2>8, <2>10
<1>7. CASE ItemFails
  <2>1. /\ proc = "process" /\ proc' = "recv" /\ counted' = counted
        /\ UNCHANGED <<rx, place, stage>>
    BY <1>7 DEF ItemFails, callVars, crawlVars
  <2>2. at \in Stages /\ held[1] \in Items /\ ProcessStage(at, held[1], FALSE)
    BY <1>7, <2>1, HeldItem DEF ItemFails
  <2>3. /\ handle' = handle /\ spoiled \subseteq spoiled'
        /\ \A j \in Stages, y \in Items : Filed(j, y) => Filed(j, y)'
    BY <2>2, ProcessFiles
  <2>4. i \notin spoiled
    BY <2>3
  <2> QED
    BY <1>2, <1>3, <1>4, <2>1, <2>3, <2>4
<1>8. CASE ClosePipelines \/ PipelinesTimeOut
  BY <1>1, <1>8 DEF ClosePipelines, PipelinesTimeOut, CloseGoes
<1>9. CASE UNCHANGED pipeVars /\ ~OpenPipelines /\ ~ItemPasses /\ ~ItemFails
  <2>1. i \notin spoiled /\ handle' = handle /\ filed' = filed
    BY <1>9 DEF pipeVars
  <2>2. \A y : Filed(i, y)' <=> Filed(i, y)
    BY <2>1 DEF Filed
  <2>3. \/ ~rx' \/ place' = "start"
        \/ place' \in Starting /\ stage' > i
        => handle'[i]
    <3>1. CASE StartCrawl
      <4>1. place = "start"
        BY <3>1 DEF StartCrawl
      <4> QED
        BY <1>4, <2>1, <4>1
    <3>2. CASE ~StartCrawl
      <4>1. ~(1 > i)
        BY <1>2
      <4> QED
        BY <1>4, <1>9, <2>1, <3>2, <4>1, OpeningKept
    <3> QED
      BY <3>1, <3>2
  <2>4. \A x \in counted' : Filed(i, x)
    <3>1. CASE CountItem
      <4>1. proc = "process" /\ at \notin Stages /\ counted' = counted \cup {held[1]}
        BY <3>1 DEF CountItem
      <4>2. at \in 1 .. (Len(Chain) + 1) /\ Len(Chain) \in Nat
        BY ChainLength DEF ProcTypes
      <4>3. at > i
        BY <1>2, <4>1, <4>2 DEF Stages
      <4> QED
        BY <1>4, <2>1, <4>1, <4>3
    <3> QED
      BY <1>4, <2>1, <3>1, CountedBy
  <2>5. PICK h : h = held'[1]
    OBVIOUS
  <2>6. proc' = "process" /\ at' > i => Filed(i, h)
    <3>1. CASE StartItem
      <4>1. at' = 1
        BY <3>1 DEF StartItem
      <4> QED
        BY <1>2, <4>1
    <3>2. CASE Receive \/ EndProcessor \/ CountItem \/ (StartCrawl /\ proc' = "recv")
      BY <3>2 DEF Receive, EndProcessor, CountItem
    <3>3. CASE UNCHANGED <<proc, held, at>>
      BY <1>4, <2>1, <2>5, <3>3
    <3>4. ProcStep => StartItem \/ Receive \/ EndProcessor \/ CountItem
      BY <1>9 DEF ProcStep
    <3>5. \/ StartItem \/ Receive \/ EndProcessor \/ CountItem
          \/ (StartCrawl /\ proc' = "recv") \/ UNCHANGED <<proc, held, at>>
      BY <3>4, ProcStands
    <3> QED
      BY <3>1, <3>2, <3>3, <3>5
  <2> QED
    BY <2>2, <2>3, <2>4, <2>5, <2>6 DEF Filed
<1> QED
  BY <1>5, <1>6, <1>7, <1>8, <1>9, TouchesFiles

\* Nothing is lost until a close begins.
LEMMA NoneLost == NothingLost /\ OneRun /\ closed = "no" => Lost = {}
  BY DEF NothingLost, Lost

LEMMA LostFinite ==
    ASSUME IsFiniteSet(counted), NEW S, S \subseteq Lost
    PROVE  /\ IsFiniteSet(Lost) /\ Cardinality(Lost) \in Nat
           /\ Cardinality(S) \in Nat /\ Cardinality(S) <= Cardinality(Lost)
<1>1. Lost \subseteq counted
  BY DEF Lost
<1>2. IsFiniteSet(Lost)
  BY <1>1, FS_Subset
<1>3. IsFiniteSet(S) /\ Cardinality(S) <= Cardinality(Lost)
  BY <1>2, FS_Subset
<1> QED
  BY <1>2, <1>3, FS_CardinalityType

\* A step that counts nothing and undoes no file loses nothing.
LEMMA LostKept ==
    ASSUME TypeOK, counted' = counted, spoiled \subseteq spoiled',
           \A j \in Stages, y \in Items : Filed(j, y) => Filed(j, y)'
    PROVE  Lost' \subseteq Lost
<1>1. counted \subseteq Items /\ Files \subseteq Stages
  BY Groups DEF CountTypes, Files
<1> QED
  BY <1>1 DEF Lost

LEMMA LostSame ==
    ASSUME TypeOK, UNCHANGED <<filed, spoiled, counted>>
    PROVE  Lost' = Lost
  BY DEF Lost, Filed

LEMMA LostStep ==
    ASSUME TypeOK, ProcessorInPlace, OpensFirst, OneRun, [Next]_vars, ~CountItem
    PROVE  Lost' \subseteq Lost
<1>1. counted' = counted
  BY CountedBy
<1>2. CASE OpenPipelines
  <2>1. runs \in Int /\ runs > 0 /\ runs <= 1
    BY <1>2, Groups, LifecycleAssumption
       DEF OpenPipelines, OpensFirst, OneRun, CallTypes, LifecycleConstants
  <2>2. runs = 1
    BY <2>1
  <2>3. counted = {}
    BY <1>2, <2>2 DEF OpenPipelines, OpensFirst, ProcessorInPlace
  <2> QED
    BY <1>1, <2>3 DEF Lost
<1>3. CASE ItemPasses \/ ItemFails
  <2>1. at \in Stages /\ held[1] \in Items
    BY <1>3, HeldItem DEF ItemPasses, ItemFails
  <2>2. PICK ok \in BOOLEAN : ProcessStage(at, held[1], ok)
    BY <1>3 DEF ItemPasses, ItemFails
  <2>3. /\ spoiled \subseteq spoiled'
        /\ \A j \in Stages, y \in Items : Filed(j, y) => Filed(j, y)'
    BY <2>1, <2>2, ProcessFiles, Groups
  <2> QED
    BY <1>1, <2>3, LostKept
<1>4. CASE ClosePipelines \/ PipelinesTimeOut
  <2>1. filed' = filed /\ spoiled \subseteq spoiled'
    BY <1>4, CloseFiles DEF CloseStep
  <2>2. \A j \in Stages, y \in Items : Filed(j, y) => Filed(j, y)'
    BY <2>1 DEF Filed
  <2> QED
    BY <1>1, <2>1, <2>2, LostKept
<1>5. CASE UNCHANGED pipeVars
  BY <1>1, <1>5, LostSame DEF pipeVars
<1> QED
  BY <1>2, <1>3, <1>4, <1>5, TouchesFiles

\* With the flag cleared the processor goes on with an item only if it was woken.
LEMMA InHandKept ==
    ASSUME TypeOK, ClosedInPlace, [Next]_vars, ~running, ~Resume, ~NotifyAtClose
    PROVE  InHand' => InHand
<1>1. CASE StartItem
  BY <1>1 DEF StartItem, Passes, InHand
<1>2. CASE ItemPasses
  BY <1>2 DEF ItemPasses, InHand
<1>3. CASE EndProcessor \/ ItemFails \/ CountItem \/ (StartCrawl /\ proc' = "recv")
  BY <1>3 DEF EndProcessor, ItemFails, CountItem, InHand
<1>4. CASE Receive
  <2>1. wait[Proc] = "no" /\ wait' = wait /\ proc' = "item"
    BY <1>4 DEF Receive, ClosedInPlace, crawlVars
  <2> QED
    BY <2>1 DEF InHand
<1>5. CASE proc' = proc /\ ~StartItem
  <2>1. CASE TestPaused(Proc) \/ Park(Proc)
    <3>1. wait'[Proc] # "woken"
      BY <2>1, Groups, LifecycleAssumption DEF TestPaused, Park, WaitTypes, Actors
    <3> QED
      BY <1>5, <3>1 DEF InHand
  <2>2. CASE wait'[Proc] = wait[Proc]
    BY <1>5, <2>2 DEF InHand
  <2> QED
    BY <1>5, <2>1, <2>2, ProcWaits
<1>6. ProcStep => \/ StartItem \/ ItemPasses \/ EndProcessor \/ ItemFails \/ CountItem
                  \/ Receive
  BY DEF ProcStep
<1> QED
  BY <1>1, <1>2, <1>3, <1>4, <1>5, <1>6, ProcStands

\* What is yet to be lost: the item in hand, and the one a close is about to wake.
LEMMA LossStep ==
    ASSUME IInv, LossInv, NothingLost', ClosedInPlace', [Next]_vars
    PROVE  LossTracked'
<1>0. /\ TypeOK /\ ProcessorInPlace
      /\ ClosedInPlace /\ OpensFirst /\ NothingLost /\ LossTracked
  BY DEF IInv, LossInv
<1>1. IsFiniteSet(counted')
  <2>1. CASE counted' = counted
    BY <1>0, <2>1 DEF LossTracked
  <2>2. CASE CountItem
    <3>1. counted' = counted \cup {held[1]}
      BY <2>2 DEF CountItem
    <3> QED
      BY <1>0, <3>1, FS_AddElement DEF LossTracked
  <2> QED
    BY <2>1, <2>2, CountedBy
<1> SUFFICES ASSUME OneRun'
             PROVE  Cardinality(Lost') + (IF InHand' THEN 1 ELSE 0)
                      + (IF Waking' THEN 1 ELSE 0) <= closes' + 1
  BY <1>1 DEF LossTracked
<1>2. closes \in Nat /\ closes' \in Nat
  BY <1>0, TypeStep, Groups, LifecycleAssumption DEF CallTypes, LifecycleConstants
<1>3. OneRun
  BY <1>0, HistoryKept
<1>4. /\ IsFiniteSet(counted)
      /\ Cardinality(Lost) + (IF InHand THEN 1 ELSE 0) + (IF Waking THEN 1 ELSE 0)
            <= closes + 1
  BY <1>0, <1>3 DEF LossTracked
<1>5. Cardinality(Lost) \in Nat
  BY <1>4, LostFinite
<1>6. Waking' => closes' > 0
  BY DEF Waking, ClosedInPlace
<1>7. ASSUME Lost' = {}
      PROVE  Cardinality(Lost') + (IF InHand' THEN 1 ELSE 0)
                      + (IF Waking' THEN 1 ELSE 0) <= closes' + 1
  <2>1. Cardinality(Lost') = 0
    BY <1>7, FS_EmptySet
  <2>2. CASE Waking'
    <3>1. \A c \in Nat : c > 0 => 0 + 1 + 1 <= c + 1 /\ 0 + 0 + 1 <= c + 1
      OBVIOUS
    <3> QED
      BY <1>2, <1>6, <2>1, <2>2, <3>1
  <2>3. CASE ~Waking'
    <3>1. \A c \in Nat : 0 + 1 + 0 <= c + 1 /\ 0 + 0 + 0 <= c + 1
      OBVIOUS
    <3> QED
      BY <1>2, <2>1, <2>3, <3>1
  <2> QED
    BY <2>2, <2>3
<1>8. ASSUME Lost' \subseteq Lost, closes' = closes, InHand' => InHand, Waking' => Waking
      PROVE  Cardinality(Lost') + (IF InHand' THEN 1 ELSE 0)
                      + (IF Waking' THEN 1 ELSE 0) <= closes' + 1
  <2>1. Cardinality(Lost') \in Nat /\ Cardinality(Lost') <= Cardinality(Lost)
    BY <1>4, <1>8, LostFinite
  <2> QED
    BY <1>2, <1>4, <1>5, <1>8, <2>1
<1>9. CASE closed' = "no"
  <2>1. Lost' = {}
    BY <1>9 DEF NothingLost, Lost
  <2> QED
    BY <1>7, <2>1
<1>10. CASE closed = "no" /\ closed' # "no"
  <2>1. Lost = {}
    BY <1>0, <1>3, <1>10, NoneLost
  <2>2. CASE BeginClose
    <3>1. UNCHANGED <<filed, spoiled, counted>>
      BY <2>2 DEF BeginClose, pipeVars
    <3> QED
      BY <1>7, <2>1, <3>1, LostSame, <1>0
  <2>3. CASE ~BeginClose
    BY <1>10, <2>3, ControlKept DEF Setter, StartRun, Resume, Pause, Runs
  <2> QED
    BY <2>2, <2>3
<1>11. CASE closed = "yes" /\ closed' = "yes"
  <2>1. ~running /\ ~Resume
    BY <1>0, <1>11, HistoryKept DEF ClosedInPlace
  <2>2. CASE CallClose
    <3>1. /\ closes' = closes + 1 /\ call = "none"
          /\ UNCHANGED <<filed, spoiled, counted, proc, wait>>
      BY <2>2 DEF CallClose, crawlVars, procVars, pipeVars
    <3>2. Lost' = Lost /\ (InHand' <=> InHand) /\ ~Waking
      BY <3>1, LostSame, <1>0 DEF InHand, Waking
    <3> QED
      BY <1>2, <1>4, <1>5, <3>1, <3>2
  <2>3. CASE NotifyAtClose
    <3>1. /\ call \in {"run", "close"} /\ place = "notify" /\ place' = "controller"
          /\ UNCHANGED <<closes, filed, spoiled, counted, proc>>
      BY <2>3 DEF NotifyAtClose, CloseGoes, procVars, pipeVars
    <3>2. Lost' = Lost /\ ~Waking'
      BY <3>1, LostSame, <1>0 DEF Waking
    <3>3. CASE call = "run"
      <4>1. proc' = "done"
        BY <1>0, <3>1, <3>3 DEF ProcessorInPlace, Closing
      <4> QED
        BY <1>8, <3>1, <3>2, <4>1 DEF InHand
    <3>4. CASE call = "close"
      <4>1. Waking
        BY <3>1, <3>4 DEF Waking
      <4> QED
        BY <1>2, <1>4, <1>5, <3>1, <3>2, <4>1
    <3> QED
      BY <3>1, <3>3, <3>4
  <2>4. CASE CountItem
    <3>1. /\ counted' = counted \cup {held[1]} /\ proc = "process" /\ proc' = "recv"
          /\ UNCHANGED <<filed, spoiled, closes, call, place>>
      BY <2>4 DEF CountItem, pipeVars, callVars
    <3>2. InHand /\ ~InHand' /\ (Waking' <=> Waking)
      BY <3>1 DEF InHand, Waking
    <3>3. Lost' \subseteq Lost \cup {held[1]}
      BY <3>1 DEF Lost, Filed
    <3>4. IsFiniteSet(Lost)
      BY <1>4, LostFinite
    <3>5. /\ IsFiniteSet(Lost \cup {held[1]})
          /\ Cardinality(Lost \cup {held[1]}) <= Cardinality(Lost) + 1
      BY <1>5, <3>4, FS_AddElement
    <3>6. Cardinality(Lost') <= Cardinality(Lost \cup {held[1]})
      BY <3>3, <3>5, FS_Subset
    <3>7. Cardinality(Lost') \in Nat /\ Cardinality(Lost \cup {held[1]}) \in Nat
      BY <3>3, <3>5, FS_Subset, FS_CardinalityType
    <3> QED
      BY <1>2, <1>4, <1>5, <3>1, <3>2, <3>5, <3>6, <3>7
  <2>5. CASE ~CallClose /\ ~NotifyAtClose /\ ~CountItem
    <3>1. Lost' \subseteq Lost
      BY <1>0, <1>3, <2>5, LostStep
    <3>2. closes' = closes /\ (Waking' => Waking)
      BY <2>5, CloseKept
    <3>3. InHand' => InHand
      BY <1>0, <2>1, <2>5, InHandKept
    <3> QED
      BY <1>8, <3>1, <3>2, <3>3
  <2> QED
    BY <2>2, <2>3, <2>4, <2>5
<1>12. closed \in {"no", "yes"} /\ closed' \in {"no", "yes"}
  BY <1>0, <1>3, TypeStep, Groups DEF OneRun, ControlTypes
<1> QED
  BY <1>9, <1>10, <1>11, <1>0, <1>12, HistoryKept

-----------------------------------------------------------------------------
(* The theorems *)

LEMMA InvInit == Init => IInv
<1> SUFFICES ASSUME Init PROVE IInv
  OBVIOUS
<1>1. TypeOK
  BY TypeInit
<1>2. FilesTracked
  BY DEF Init, PipeInit, FilesTracked, Intact
<1>3. OpenInPlace
  BY DEF Init, OpenInPlace, HasOpened, HasClosed
<1>4. ProcessorInPlace
  BY DEF Init, ProcessorInPlace, Closing
<1>5. CountedFiled
  BY DEF Init, CountedFiled, Crawling, Closing
<1> QED
  BY <1>1, <1>2, <1>3, <1>4, <1>5 DEF IInv

LEMMA InvStep == IInv /\ [Next]_vars => IInv'
  BY TypeStep, ProcessorStep, FilesStep, PlaceStep, CountedStep DEF IInv

THEOREM Invariance == Spec => []IInv
  BY InvInit, InvStep, PTL DEF Spec

\* Every variable of the engine's life keeps its type: no call of the owner, signal
\* or spawned handler, in whatever order, takes one out of it (engine run, close, pause,
\* resume; pipeline open_spider, process_dynamic_item, close_spider).
THEOREM TypeCorrect == Spec => []TypeOK
<1>1. IInv => TypeOK
  BY DEF IInv
<1> QED
  BY <1>1, Invariance, PTL

LEMMA LossInit == Init => LossInv
<1> SUFFICES ASSUME Init PROVE LossInv
  OBVIOUS
<1>1. ClosedInPlace
  BY LifecycleAssumption DEF Init, ClosedInPlace, Actors, LifecycleConstants
<1>2. OpensFirst
  BY DEF Init, OpensFirst
<1>3. NothingLost
  BY DEF Init, NothingLost
<1>4. Lost = {}
  BY DEF Init, Lost
<1>5. Cardinality(Lost) = 0 /\ IsFiniteSet(counted)
  BY <1>4, FS_EmptySet DEF Init
<1>6. ~InHand /\ ~Waking /\ closes = 0
  BY DEF Init, InHand, Waking
<1>7. LossTracked
  BY <1>5, <1>6 DEF LossTracked
<1> QED
  BY <1>1, <1>2, <1>3, <1>7 DEF LossInv

LEMMA LossInvStep == IInv /\ LossInv /\ [Next]_vars => LossInv'
<1> SUFFICES ASSUME IInv, LossInv, [Next]_vars PROVE LossInv'
  OBVIOUS
<1> USE DEF IInv, LossInv
<1>1. ClosedInPlace'
  BY ClosedStep, WaitStep DEF ClosedInPlace
<1>2. OpensFirst'
  BY OpensFirstStep
<1>3. NothingLost'
  BY NothingLostStep
<1>4. LossTracked'
  BY <1>1, <1>3, LossStep
<1> QED
  BY <1>1, <1>2, <1>3, <1>4

\* However a run() is dropped and close() called, paused, timed out or failing half-way,
\* what is counted and missing from a file nothing went wrong with is at most one item
\* for each close() and one more, for any chain, tasks, items and number of calls, as
\* long as nothing sets running again (engine run, close; pipeline process_dynamic_item).
THEOREM LossIsBounded == Spec => []LossBounded
<1>1. IInv /\ LossInv => LossBounded
  <2> SUFFICES ASSUME IInv, LossInv, OneRun PROVE Cardinality(Lost) <= closes + 1
    BY DEF LossBounded, OneRun
  <2>1. closes \in Nat
    BY Groups, LifecycleAssumption DEF IInv, CallTypes, LifecycleConstants
  <2>2. Cardinality(Lost) \in Nat
    BY LostFinite DEF LossInv, LossTracked
  <2> QED
    BY <2>1, <2>2 DEF LossInv, LossTracked
<1>2. Spec => []LossInv
  BY LossInit, LossInvStep, Invariance, PTL DEF Spec
<1> QED
  BY <1>1, <1>2, Invariance, PTL

\* After a run() that nobody cut short, every JSON file nothing went wrong with is one
\* well-formed array with all the counted items, whatever the chain, the faults and the
\* number of tasks, calls and items (engine run, close; pipeline close_spider).
THEOREM FilesWhole == Spec => []FileWhole
<1>1. IInv => FileWhole
  <2> SUFFICES ASSUME IInv, call = "none", result = "ok", NEW i \in Files,
                      Chain[i] = "json", i \notin spoiled
               PROVE  /\ content[i] = Rendered(filed[i])
                      /\ \A x \in counted : \E k \in DOMAIN filed[i] : filed[i][k] = x
    BY DEF FileWhole
  <2>1. i \in Intact
    BY DEF Files, Intact
  <2>2. HasClosed(i) /\ Closing
    BY DEF HasClosed, Closing
  <2>3. ~handle[i] /\ content[i] # <<>>
    BY <2>1, <2>2 DEF IInv, OpenInPlace
  <2>4. content[i] = Rendered(filed[i])
    BY <2>1, <2>3 DEF IInv, FilesTracked
  <2>5. \A x \in counted : Filed(i, x)
    BY <2>1, <2>2 DEF IInv, CountedFiled
  <2> QED
    BY <2>4, <2>5 DEF Filed
<1> QED
  BY <1>1, Invariance, PTL
=============================================================================
