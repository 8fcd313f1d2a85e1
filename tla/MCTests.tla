------------------------------- MODULE MCTests -------------------------------
(***************************************************************************)
(* The repository's tests, run as tests/test.sh does, with a limit, which  *)
(* the interpreter alone executes, and without one, when the JIT is first. *)
(* All but two begin with std, so that main hands them over to the         *)
(* interpreter; tests 11 and 14 never do and are compiled from their first *)
(* to their last step.                                                     *)
(***************************************************************************)
EXTENDS JitMachine, RepoTests

VARIABLE test                  \* the test that was loaded

MCTestImages == {ImageOf(Tests[t]) : t \in DOMAIN Tests}

MCTestInit ==
    /\ JitInit
    /\ test \in DOMAIN Tests
    /\ mem = Loaded(ImageOf(Tests[test]))

MCTestSpec == MCTestInit /\ [][(JitNext \/ Ended) /\ UNCHANGED test]_<<vars, test>>

\* The registers of the last dump before the k-th output.
DumpsBefore(k) == {i \in 1 .. k - 1 : out[i].kind = "dump"}
RegsBefore(k)  == IF DumpsBefore(k) = {} THEN [r \in RegId |-> 0]
                  ELSE out[CHOOSE i \in DumpsBefore(k) : \A j \in DumpsBefore(k) : j <= i].regs

\* The k-th output is the one shown: a character, or a dump with what has changed.
Shows(k, shown) ==
    IF out[k].kind = "char" THEN shown = <<out[k].char>>
    ELSE /\ <<out[k].pc, out[k].state>> = SubSeq(shown, 1, 2)
         /\ {<<r, out[k].regs[r]>> : r \in {q \in RegId : out[k].regs[q] # RegsBefore(k)[q]}}
               = {shown[3][i] : i \in DOMAIN shown[3]}

AsExpected(t) ==
    /\ result = "invalid" /\ Len(out) = Len(t.shows)
    /\ \A k \in DOMAIN out : Shows(k, t.shows[k])

\* tests/test.sh:7: a test that has stopped has printed the dumps and characters
\* that its .expected file shows, in that order, interpreted or compiled, although
\* compiled code is not the code the file was made with; TLC's deadlock check adds
\* that none gets stuck.
TestsPass == ~Running => AsExpected(Tests[test])
=============================================================================
