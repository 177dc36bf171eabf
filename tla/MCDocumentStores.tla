--------------------------- MODULE MCDocumentStores ---------------------------
EXTENDS DocumentStores
CONSTANTS a, b, p, q
\* A thread of each of two processes, or, for the one provider that tells
\* these apart, two threads of one process.
MCSetups ==
  {[kind |-> k, procOf |-> [c \in {a, b} |-> IF c = a THEN p ELSE q]] : k \in Files \cup Remote}
  \cup {[kind |-> "kdbx", procOf |-> [c \in {a, b} |-> p]]}
=============================================================================
