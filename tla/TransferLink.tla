---------------------------- MODULE TransferLink ----------------------------
(***************************************************************************)
(* The connection that the transfers of one agent share: frames in flight  *)
(* in both directions, the read loop of the server's session, and the      *)
(* agent that takes one frame after the other.  A broken connection loses  *)
(* what is in flight; the agent dials again.                               *)
(*                                                                         *)
(* The server's handlers look the record up first (getTransfer) and lock   *)
(* it afterwards: reader holds the frame of a session between the two.  A  *)
(* session that was superseded may still hold one.                         *)
(***************************************************************************)
EXTENDS TransferRecord

CONSTANTS
    Cap,               \* frames in flight in one direction
    MaxLinks           \* connections the agent makes

ASSUME LinkAssumption == Cap \in Nat /\ MaxLinks \in Nat \ {0}

VARIABLES
    link, online,      \* the agent's latest connection, and is it up
    down, up,          \* frames in flight on it
    reader             \* per connection: the frame whose record was looked up

linkVars == <<link, online, down, up>>

Links == 1..MaxLinks

LinkTypeOK ==
    /\ link \in Links /\ online \in BOOLEAN
    /\ Len(down) <= Cap /\ Len(up) <= Cap
    /\ \A l \in Links : reader[l] # None => reader[l].t \in Transfers

LinkInit ==
    /\ link = 1 /\ online = TRUE
    /\ down = <<>> /\ up = <<>>
    /\ reader = [l \in Links |-> None]

-----------------------------------------------------------------------------
\* sendMessage of the server on connection l; a frame for a connection that is
\* gone may still be accepted by its queue, and is lost.
SendOK(l, m) ==
    IF online /\ l = link
    THEN Len(down) < Cap /\ down' = Append(down, m)
    ELSE UNCHANGED down

SendFails(l) == ~(online /\ l = link) /\ UNCHANGED down

CancelFrame(t) == [kind |-> "cancel", t |-> t]

\* The last part of cancelTransfer: the frame goes out on the agent's current
\* connection, if it has one.
SendCancel(t) ==
    /\ t \in cancelling
    /\ cancelling' = cancelling \ {t}
    /\ IF online THEN Len(down) < Cap /\ down' = Append(down, CancelFrame(t))
                 ELSE UNCHANGED down
    /\ UNCHANGED <<status, audit, live, cancelSig, reap, cancels, link, online, up, reader>>

\* The session's read loop takes a frame and looks the record up.
Read ==
    /\ online /\ up # <<>> /\ reader[link] = None
    /\ up' = Tail(up)
    /\ reader' = IF Head(up).t \in live THEN [reader EXCEPT ![link] = Head(up)] ELSE reader
    /\ UNCHANGED <<recordVars, link, online, down>>

\* A handler is called with the frame of session l, and the loop goes on.
Handle(l, kind) ==
    /\ reader[l] # None /\ reader[l].kind = kind
    /\ reader' = [reader EXCEPT ![l] = None]

Break ==
    /\ online /\ link < MaxLinks
    /\ online' = FALSE /\ down' = <<>> /\ up' = <<>>
    /\ UNCHANGED <<recordVars, link, reader>>

\* The server dies and starts again.
Restart ==
    /\ online => link < MaxLinks
    /\ ForgetTransfers
    /\ online' = FALSE /\ down' = <<>> /\ up' = <<>>
    /\ reader' = [l \in Links |-> None]
    /\ UNCHANGED link

Redial ==
    /\ ~online
    /\ online' = TRUE /\ link' = link + 1
    /\ UNCHANGED <<recordVars, down, up, reader>>

\* The agent takes a frame of the given kind ...
Take(t, kind) ==
    /\ down # <<>> /\ Head(down).kind = kind /\ Head(down).t = t
    /\ down' = Tail(down)
    /\ UNCHANGED <<recordVars, link, online, reader>>

\* ... and may answer it.
Answer(m) == online /\ Len(up) < Cap /\ up' = Append(up, m)
Silent    == UNCHANGED up
=============================================================================
