----------------------------- MODULE FlatMemory -----------------------------
(***************************************************************************)
(* What VirtualMemory.h promises: a memory of pages in which a read gives   *)
(* what was last written, wherever the pages are kept.  A page that was     *)
(* never used may hold anything.                                            *)
(***************************************************************************)
CONSTANTS
  Page, Offset,  \* an address is a page and an offset in it
  Word,          \* what a word can hold
  Unused,        \* in place of the content of a page never used
  NoResult       \* the result of a call that has returned 0

VARIABLES
  pages,  \* the content of each page
  result  \* the result of the last call

Content == [Offset -> Word]

Init == pages = [p \in Page |-> Unused] /\ result = NoResult

\* A call changes at most the page it is about.
Touch(p) ==
  /\ pages'[p] \in Content
  /\ \A q \in Page \ {p} : pages'[q] = pages[q]

Read(p, o) ==
  /\ Touch(p)
  /\ result' = pages'[p][o]
  /\ pages[p] # Unused => pages'[p] = pages[p]

Write(p, o) ==
  /\ Touch(p)
  /\ result' = pages'[p][o]
  /\ pages[p] # Unused => pages'[p] = [pages[p] EXCEPT ![o] = result']

Refuse == result' = NoResult /\ UNCHANGED pages

\* VMinitialize forgets pages; it does not say which.
Forget ==
  /\ \A p \in Page : pages'[p] \in {pages[p], Unused}
  /\ result' = NoResult

Next ==
  \/ \E p \in Page, o \in Offset : Read(p, o) \/ Write(p, o)
  \/ Refuse
  \/ Forget

Spec == Init /\ [][Next]_<<pages, result>>

=============================================================================
