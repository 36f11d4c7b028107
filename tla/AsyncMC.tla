------------------------------ MODULE AsyncMC ------------------------------
(***************************************************************************)
(* Runs of one or two asynchronous steps with up to three children.        *)
(***************************************************************************)
EXTENDS Async

Do(kind, tasks) == [kind |-> kind, tasks |-> tasks]

\* One step, every pair of children.
Pairs == {<<Do(kind, <<a, b>>)>> : kind \in {"ALL", "ANY", "SEQUENTLY", "CONCURRENT"},
            a \in {"writes", "fails", "hangs", "stuck", "unknown"},
            b \in {"claims", "fails", "hangs", "unsafe"}}

\* Two steps that overlap: what the first has started is still at work.
Overlaps ==
    {<<Do(first, <<"writes", "claims">>), Do(second, <<"claims", "writes">>)>> :
        first \in {"ANY", "CONCURRENT", "ALL"}, second \in {"ALL", "ANY", "SEQUENTLY"}}
      \cup {<<Do("ANY", <<>>)>>, <<Do("ALL", <<>>), Do("SEQUENTLY", <<"fails", "hangs", "fails">>)>>}

MCScenarios ==
    [steps : Pairs \cup Overlaps, changes : {0}]
      \cup [steps : {<<Do("ANY", <<"writes", "fails">>)>>}, changes : {3}]
=============================================================================
