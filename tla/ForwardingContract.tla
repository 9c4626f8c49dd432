-------------------------- MODULE ForwardingContract --------------------------
(***************************************************************************)
(* What the pipeline promises for each accepted chat message, seen from    *)
(* outside: where the message is, and where it may go from there.          *)
(*                                                                         *)
(*     new --> flight --> sent | queued | dropped | lost                   *)
(*                        queued --> sent | dropped                        *)
(*                                                                         *)
(* A disk that fails to write adds: a message lost before its flight, a    *)
(* queued message lost because its record was in memory only, and a        *)
(* dropped one coming back because its record was still in the file.       *)
(* "sent", and "lost", are final in every case.                            *)
(***************************************************************************)
CONSTANTS
    Items,
    DiskFaults

VARIABLE status

Status == {"new", "flight", "queued", "sent", "dropped", "lost"}

TypeOK == status \in [Items -> Status]

Moves ==
    {<<"new", "flight">>,
     <<"flight", "sent">>, <<"flight", "queued">>, <<"flight", "dropped">>, <<"flight", "lost">>,
     <<"queued", "sent">>, <<"queued", "dropped">>}

FaultyMoves ==
    {<<"new", "lost">>, <<"queued", "lost">>, <<"dropped", "queued">>}

Allowed == IF DiskFaults THEN Moves \cup FaultyMoves ELSE Moves

InFlight == {i \in Items : status[i] = "flight"}

Init == status = [i \in Items |-> "new"]

(* One message is taken up while none is in flight; nothing else moves. *)
Begin(i) ==
    /\ InFlight = {}
    /\ status[i] = "new"
    /\ \E s \in {t \in Status : <<"new", t>> \in Allowed} :
          status' = [status EXCEPT ![i] = s]

(* Messages already taken up move on, several at once when a full queue    *)
(* evicts others or when the runtime stops.                                *)
Advance ==
    /\ status' \in [Items -> Status]
    /\ \A i \in Items :
          \/ status'[i] = status[i]
          \/ status[i] # "new" /\ <<status[i], status'[i]>> \in Allowed

Next == Advance \/ \E i \in Items : Begin(i)

Spec == Init /\ [][Next]_status
=============================================================================
