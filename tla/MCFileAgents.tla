---------------------------- MODULE MCFileAgents ----------------------------
(* Small instances of FileAgents for TLC. *)
EXTENDS FileAgents

T(kind, src, dst) == [kind |-> kind, src |-> src, dst |-> dst]

\* A conversion of a file next to a read of it in one answer, a summary of that
\* file, and calls that need no thread.
MCPlans == {<<T("convert", "f", "g"), T("read", "f", "f")>>,
            <<T("chain", "f", "f")>>,
            <<T("remote", "f", "f"), T("unknown", "f", "f")>>}

\* "r2" names its tool and writes the file the plans of "r1" work on.
MCGiven == [r \in Requests |-> IF r = "r2" THEN <<T("write", "f", "f")>> ELSE <<>>]
=============================================================================
