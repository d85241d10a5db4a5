--------------------------- MODULE SessionsLedger ---------------------------
(***************************************************************************)
(* What state/sessions.toml promises to the rest of raum: the recovery     *)
(* authority.  Readers see one table of tracked rows, the disk holds       *)
(* another, and the disk lags in one way only: the last_state of a row     *)
(* whose acknowledgement flag is clear.  A restart, or a write that fails, *)
(* takes readers back to the disk.                                         *)
(***************************************************************************)
CONSTANTS Session, State, NoState, NoRow

VARIABLES view, disk

Row == [state : State \cup {NoState}, acked : BOOLEAN, key : BOOLEAN]

Table == [Session -> Row \cup {NoRow}]

Empty == [s \in Session |-> NoRow]

LedgerInit == view = Empty /\ disk = Empty

(* One call changes one row and is on disk when readers see it. *)
Record(s) ==
    /\ \E row \in Row \cup {NoRow} : view' = [view EXCEPT ![s] = row]
    /\ disk' = view'

(* A new last_state on a row that stays unacknowledged may reach only the   *)
(* readers.                                                                 *)
Touch(s) ==
    /\ view[s] # NoRow /\ ~view[s].acked
    /\ \E row \in Row : /\ row = [view[s] EXCEPT !.state = row.state]
                        /\ view' = [view EXCEPT ![s] = row]
    /\ UNCHANGED disk

(* The disk catches up with the readers. *)
Settle == disk' = view /\ UNCHANGED view

(* A crash, or a failed write, takes the readers back to the disk. *)
FallBack == view' = disk /\ UNCHANGED disk

LedgerNext ==
    \/ \E s \in Session : Record(s) \/ Touch(s)
    \/ Settle
    \/ FallBack

LedgerSpec == LedgerInit /\ [][LedgerNext]_<<view, disk>>

(* The set of tracked rows, their recovery keys and their acknowledgements  *)
(* never lag memory on disk (store.rs write_sessions).                      *)
OnlyStateLags ==
    \A s \in Session :
        /\ (view[s] = NoRow) <=> (disk[s] = NoRow)
        /\ view[s] # NoRow => view[s] = [disk[s] EXCEPT !.state = view[s].state]
=============================================================================
