--------------------------- MODULE ContextBuilder ---------------------------
(***************************************************************************)
(* The context of a prompt, from what the CAG cache and the vector store    *)
(* gave.  A text is its number of characters, 0 if there is none: stripped, *)
(* and "No context found." is none.  Headings and the mark of a cut come on *)
(* top of what is kept.                                                     *)
(***************************************************************************)
EXTENDS Integers

Contexts == [cag : Nat, rag : Nat]

\* What merge keeps of each, within MAX_CONTEXT_CHARS.
Merged(budget, found) ==
  LET half == budget \div 2
  IN IF found.cag > half /\ found.rag > half
     THEN [cag |-> half, rag |-> half]
     ELSE IF found.cag + found.rag <= budget THEN found
     ELSE IF found.cag <= half THEN [found EXCEPT !.rag = budget - found.cag]
     ELSE [found EXCEPT !.cag = budget - found.rag]

----------------------------------------------------------------------------
(* What it promises *)

Within(budget, kept) == kept.cag + kept.rag <= budget

\* A split of the budget is fair if nobody could have more than the character that
\* an odd budget leaves but at the expense of one that has no more.
Fair(budget, found, kept) ==
  \A cag \in 0..found.cag, rag \in 0..found.rag :
    cag + rag <= budget =>
      /\ cag > kept.cag + 1 => rag < kept.rag /\ kept.rag <= kept.cag
      /\ rag > kept.rag + 1 => cag < kept.cag /\ kept.cag <= kept.rag
=============================================================================
