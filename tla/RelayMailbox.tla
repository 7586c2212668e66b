---------------------------- MODULE RelayMailbox ----------------------------
(***************************************************************************)
(* The relay implements a mailbox.  Mail is handed over in the step that   *)
(* completes the send of a pull's response, and received in the step that  *)
(* reads its last partition.                                               *)
(***************************************************************************)
EXTENDS RelayProperties

IsPull(rsp) == rsp.code = "MESSAGES_PULLED_SUCCESS"

addressBar ==
  [p \in Processes |-> IF myInfo[p] = NoInfo THEN NoInfo ELSE myInfo[p].clientId]

offeredBar ==
  IF session.pc = "after" /\ IsPull(session.response)
    THEN session.response.messages
    ELSE {}

\* All of the response has been sent: p has read some partitions of it, and the
\* others wait for it.
IsSentWhole(p) ==
  /\ InCall(p)
  /\ IsPull(conn[ConnOf(p)].response)
  /\ call[p].read + conn[ConnOf(p)].down = ResponsePartitions(conn[ConnOf(p)].response)

onTheWayBar ==
  [p \in Processes |->
     IF IsSentWhole(p) THEN conn[ConnOf(p)].response.messages ELSE {}]

M == INSTANCE Mailbox WITH
  Users <- Processes, Addresses <- ClientIds, NoAddress <- NoInfo,
  Mail <- Messages,
  address <- addressBar, lastId <- lastRowId, waiting <- messages,
  offered <- offeredBar, onTheWay <- onTheWayBar, received <- received

\* Every behaviour of the relay is one of a mailbox: whatever fails, mail is
\* posted in its sender's own name, handed over to its addressee oldest first,
\* removed only after that, and received at most once each time it is handed over.
ImplementsMailbox == M!Spec
=============================================================================
