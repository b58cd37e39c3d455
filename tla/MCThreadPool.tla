---------------------------- MODULE MCThreadPool ----------------------------
EXTENDS ThreadPool

Exec    == [kind |-> "exec"]
Barrier == [kind |-> "barrier"]
WaitAll == [kind |-> "waitall"]
WaitFor(n) == [kind |-> "wait", thread |-> n]

SeqsUpTo(S, n) == UNION {[1 .. k -> S] : k \in 0 .. n}

\* Every file of up to four commands of these, empty ones and those with
\* BARRIERs in a row included.
ShortJobs == SeqsUpTo({Exec, Barrier}, 4) \cup SeqsUpTo({Exec, Barrier, WaitAll}, 2)

\* The delays: a WAIT for all against WAITs for one and for threads that do not
\* exist (0 and one more than there are), and a BARRIER.
DelayJobs == SeqsUpTo({Exec, WaitAll, WaitFor(1), WaitFor(3), Barrier}, 3)

AllJobs == ShortJobs \cup DelayJobs
=============================================================================
