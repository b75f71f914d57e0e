---------------------------- MODULE WeakMemory ----------------------------
(* What a C++ thread may see of the atomics another thread writes.          *)
(*                                                                          *)
(* The writing side is one thread (or several that never overlap), so its   *)
(* stores are numbered in program order, and what a reader knows of them is *)
(* one number: known = k means that every store up to k happens before what *)
(* the reader does next.  A load returns any store to the location that no  *)
(* known one has replaced; it may be as stale as the orderings allow, so a  *)
(* whole handler of the reader is one step: what it could have loaded       *)
(* earlier it can still load at its end.  For the same reason a handler of  *)
(* the writer makes its stores at once: a reader that sees it half done     *)
(* sees some of them and not others.                                        *)
EXTENDS Integers, SequencesExt

\* The store of val with number at.  To a reader that synchronises with it it
\* carries the stores up to rel: a release store up to itself, a relaxed one
\* up to the last release fence.
Store(at, val, rel) == [at |-> at, val |-> val, rel |-> rel]

\* The stores, of those made to one location, that a load may return.
Visible(stores, known) ==
    {stores[i] : i \in {j \in DOMAIN stores : j = Len(stores) \/ stores[j + 1].at > known}}

\* Whether s is one of them.
Remains(stores, s, known) ==
    \A i \in DOMAIN stores : stores[i].at > s.at => stores[i].at > known

\* The value the writing side itself finds.
Newest(stores) == Last(stores).val

Later(a, b) == IF a > b THEN a ELSE b

\* What is known after an acquire load that returned the release store s.
Acquired(known, s) == Later(known, s.at)

\* What is known after relaxed loads that returned s, or all of S, and an
\* acquire fence.
Fenced(known, s)    == Later(known, s.rel)
FencedAll(known, S) == Later(known, Max({s.rel : s \in S}))
=============================================================================
