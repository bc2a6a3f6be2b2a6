---------------------------- MODULE ReviewedFiles ---------------------------
(***************************************************************************)
(* What /apply promises about the text of the vault files: the accepted    *)
(* changes of one file form a batch that enters the file in one step; the  *)
(* batch of an existing file enters it at most once, whatever is sent      *)
(* twice, retried or lost.  The text carries the user's edits; a batch may *)
(* take edits back (an editor and the indexer share no lock).              *)
(***************************************************************************)
EXTENDS Naturals

CONSTANTS
  Files, Ops, Edits,
  OpFile,   \* OpFile[o] : the file change o belongs to
  EditFile, \* EditFile[e] : the file edit e belongs to
  Batches,  \* sets of changes, each of one file
  Once      \* the batches that change an existing file

VARIABLE text \* text[f].ops[o], text[f].edits

Init == text = [f \in Files |-> [ops |-> [o \in Ops |-> 0], edits |-> {}]]

Apply(S) ==
  \E f \in Files : \E kept \in SUBSET text[f].edits :
    /\ \A o \in S : OpFile[o] = f
    /\ S \in Once => \A o \in S : text[f].ops[o] = 0
    /\ text' = [text EXCEPT ![f] =
         [ops   |-> [o \in Ops |-> IF o \in S THEN text[f].ops[o] + 1 ELSE text[f].ops[o]],
          edits |-> kept]]

Edit(e) ==
  text' = [text EXCEPT ![EditFile[e]] =
            [ops |-> text[EditFile[e]].ops, edits |-> text[EditFile[e]].edits \union {e}]]

Next == (\E S \in Batches : Apply(S)) \/ (\E e \in Edits : Edit(e))

Spec == Init /\ [][Next]_text
=============================================================================
