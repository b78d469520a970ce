-------------------------- MODULE MCEffectAnalysis --------------------------
(* EffectAnalysis for TLC: files of three functions and main. *)
EXTENDS EffectAnalysis

CONSTANTS n1, n2, n3, e1

MCText == <<n1, n2, n3, "main">>

\* Occurrences: a method is declared outside of the functions.
Occurrences ==
  {c \in Places \X Callees \X Spellings : c[3] = "declaration" => c[1] = "outside"}

\* Every call graph of the three, with calls written plainly, and any performers ...
PlainSources ==
  {[declares |-> FALSE, performs |-> P \X {"statement"},
    calls |-> {<<c[1], c[2], "plain">> : c \in C}] :
     P \in SUBSET Funcs, C \in SUBSET {<<f, g>> \in Names \X Names : f # g}}

\* ... and every file with up to one perform and two calls, written in any way.
SpelledSources ==
  {[declares |-> d, performs |-> P, calls |-> C] :
     d \in BOOLEAN,
     P \in {{}} \cup {{p} : p \in Funcs \X Forms},
     C \in {{}} \cup {{c1, c2} : c1, c2 \in Occurrences}}

MCSources == PlainSources \cup SpelledSources
===============================================================================
