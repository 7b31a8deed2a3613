------------------------------ MODULE Wildcard ------------------------------
(***************************************************************************)
(* Which topics a subscription with wildcards names.  The server rewrites  *)
(* the subscription into a regular expression, "+" into a group for text   *)
(* without a slash and "*" into a group for any text on one line, and      *)
(* matches the whole topic against it.  Names are sequences of characters; *)
(* those with another meaning in a regular expression are outside the      *)
(* model.                                                                  *)
(***************************************************************************)
EXTENDS Naturals, Sequences, SequencesExt, Selection

\* The characters that "." of a regular expression does not match.
LineBreaks == {"\n", "\r"}

\* Slips in the rewriting: a segment spelt as letters; a segment that runs over
\* "/".
Covers_LettersOnly(char, part) ==
  CASE char = "*" -> Range(part) \cap LineBreaks = {}
    [] char = "+" -> part # <<>> /\ Range(part) \cap {"/", "+", "*"} = {}
    [] OTHER      -> part = <<char>>
Covers_CrossesSlash(char, part) ==
  CASE char = "*" -> Range(part) \cap LineBreaks = {}
    [] char = "+" -> part # <<>>
    [] OTHER      -> part = <<char>>

\* The texts that the expression put for one character of the subscription
\* matches: (.*) for "*", ([^/]+) for "+".
Covers(char, part) ==
  CASE char = "*" -> Range(part) \cap LineBreaks = {}
    [] char = "+" -> part # <<>> /\ "/" \notin Range(part)
    [] OTHER      -> part = <<char>>

\* regex_match: the topic is cut into one part per character of the
\* subscription.  m[j][i]: the topic from i on matches the rest from j on.
matches_wildcard_path(topic, wildcard_topic) ==
  LET m[j \in 1..Len(wildcard_topic) + 1] ==
        [i \in 1..Len(topic) + 1 |->
           IF j > Len(wildcard_topic)
           THEN i > Len(topic)
           ELSE \E k \in i..Len(topic) + 1 :
                  /\ Covers(wildcard_topic[j], SubSeq(topic, i, k - 1))
                  /\ m[j + 1][k]]
  IN  m[1][1]

-----------------------------------------------------------------------------
(* The meaning of a subscription by levels, the texts between slashes.     *)

\* Where the levels end, in order: at each slash, and at the end of the name.
Ends(name) ==
  Filter([i \in 1..Len(name) + 1 |-> i],
         {i \in 1..Len(name) : name[i] = "/"} \cup {Len(name) + 1})

\* Where a level starts: behind the end of the one before.
Start(name, n) == IF n = 1 THEN 1 ELSE Ends(name)[n - 1] + 1

Levels(name) ==
  [n \in DOMAIN Ends(name) |-> SubSeq(name, Start(name, n), Ends(name)[n] - 1)]

\* A wildcard stands for whole levels.
WellFormed(name) ==
  \A n \in DOMAIN Levels(name) :
    Range(Levels(name)[n]) \cap {"+", "*"} # {} => Len(Levels(name)[n]) = 1

\* "+" is one level that is not empty, "*" is one level or more without a line
\* break, any other level is itself: cut[n] is the first level that the n-th one
\* stands for.
LevelsMatch(topic, wildcard_topic) ==
  LET T == Levels(topic)
      W == Levels(wildcard_topic)
  IN  \E cut \in [1..Len(W) + 1 -> 1..Len(T) + 1] :
        /\ cut[1] = 1 /\ cut[Len(W) + 1] = Len(T) + 1
        /\ \A n \in DOMAIN W :
             /\ cut[n] < cut[n + 1]
             /\ W[n] = <<"*">> => \A l \in cut[n]..cut[n + 1] - 1 : Range(T[l]) \cap LineBreaks = {}
             /\ W[n] # <<"*">> => cut[n + 1] = cut[n] + 1
             /\ W[n] = <<"+">> => T[cut[n]] # <<>>
             /\ W[n] \notin {<<"+">>, <<"*">>} => T[cut[n]] = W[n]
=============================================================================
