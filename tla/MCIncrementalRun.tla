------------------------- MODULE MCIncrementalRun --------------------------
(* Instances of IncrementalRun for TLC.                                     *)
EXTENDS IncrementalRun

\* Page 1 is shared by three identities, page 2 is filtered out although the
\* cache prices it, page 4 has no competitive price, and the last identity is on
\* no page.
Pages == <<{1, 2}, {1, 2, 3}, {4, 5}, {1}, {}>>
\* A preparation that dies after a batch of two resumes with 3, 4 and 5: item 4,
\* which the cache knows, is prepared twice and item 2 never.
ByPriority == <<4, 1, 2, 5, 3>>
=============================================================================
