--------------------------- MODULE MC_TeeSessions ---------------------------
(***************************************************************************)
(* Model-checking values for TeeSessions.                                  *)
(***************************************************************************)
EXTENDS TeeSessions, TLC

CONSTANTS t1, t2, s1, s2, h1, m1

\* Two Java threads, two session ids and one operation hash code, so that
\* two sessions, two calls at once and two calls sharing a hash code happen.
MCThreads == {t1, t2}
MCSids == {s1, s2}
MCHashes == {h1}

\* One shared memory id: two threads releasing it at once, and a release
\* racing a call whose operation references it.
MCSmIds == {m1}

\* One session id: a closed session reused by a later invoke.
MCSids1 == {s1}
=============================================================================
