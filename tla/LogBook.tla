------------------------------- MODULE LogBook -------------------------------
(***************************************************************************)
(* What the log pipeline promises to those who look at logs: entries are   *)
(* written down once and stay, and a reader who follows live is shown      *)
(* entries that are written down, each at most once. It promises neither   *)
(* that every line is written down nor that every reader is shown it.      *)
(***************************************************************************)
EXTENDS Sequences, SequencesExt

CONSTANTS Entry, Reader

VARIABLES
  book,  \* the entries written down, in their order
  shown  \* shown[r]: what reader r was shown, in that order

bookVars == <<book, shown>>

BookInit ==
  /\ book = <<>>
  /\ shown = [r \in Reader |-> <<>>]

WriteDown(e) ==
  /\ e \notin ToSet(book)
  /\ book' = Append(book, e)
  /\ UNCHANGED shown

Show(r, e) ==
  /\ e \in ToSet(book) \ ToSet(shown[r])
  /\ shown' = [shown EXCEPT ![r] = Append(@, e)]
  /\ UNCHANGED book

BookNext ==
  \E e \in Entry : WriteDown(e) \/ \E r \in Reader : Show(r, e)

BookSpec == BookInit /\ [][BookNext]_bookVars
=============================================================================
