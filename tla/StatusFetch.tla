----------------------------- MODULE StatusFetch -----------------------------
(***************************************************************************)
(* StatusService together with the one-shot fetches the webview makes for  *)
(* rows that show no status yet, which write the same signal.              *)
(***************************************************************************)
EXTENDS StatusService

VARIABLE fetch  \* per path: None or a fetch, <<>> and then <<what it has read>>

fvars == <<vars, fetch>>

FetchInit == Init /\ fetch = [p \in Paths |-> None]

\* refreshWorktreeStatuses, onlyMissing.
FetchStart(p) ==
    /\ p \in wanted /\ shown[p] = None /\ fetch[p] = None
    /\ fetch' = [fetch EXCEPT ![p] = <<>>]
    /\ UNCHANGED vars

FetchRead(p) ==
    /\ fetch[p] = <<>>
    /\ fetch' = [fetch EXCEPT ![p] = <<disk[p]>>]
    /\ UNCHANGED vars

\* The answer, which waits for every path of the batch, replaces what is shown.
FetchAnswers(p) ==
    /\ fetch[p] \notin {None, <<>>}
    /\ shown' = [shown EXCEPT ![p] = fetch[p][1]]
    /\ fetch' = [fetch EXCEPT ![p] = None]
    /\ UNCHANGED <<rest, entry, faults, owed>>

FetchNext ==
    \/ Next /\ UNCHANGED fetch
    \/ \E p \in Paths : FetchStart(p) \/ FetchRead(p) \/ FetchAnswers(p)

\* With the slow poll.
PollSpec ==
    /\ FetchInit /\ [][FetchNext]_fvars /\ Fairness
    /\ \A p \in Paths : WF_fvars(Poll(p) /\ UNCHANGED fetch)
                       /\ WF_fvars(FetchRead(p)) /\ WF_fvars(FetchAnswers(p))

-----------------------------------------------------------------------------
\* status_service.rs: "Fallback - a slow 15 s tick that catches silent file
\* edits": the tree a mounted row shows becomes the one on disk.
PollCatches ==
    \A p \in Paths :
        <>[](p \in wanted /\ focused) =>
            <>[](shown[p] /= None /\ shown[p].work = disk[p].work)
=============================================================================
