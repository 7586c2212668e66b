--------------------------- MODULE MessageUManager --------------------------
(***************************************************************************)
(* MessageUManager: what the server does for each kind of request, on top  *)
(* of the storage.  Refused holds when the operation raises an exception;  *)
(* otherwise its storage step is taken and its value goes in the response. *)
(***************************************************************************)
EXTENDS SQLStorage, RequestParser

CONSTANTS
  MAX_PULLED_MESSAGES_DATA,  \* 0xFFFFFFFF in server/common.py
  ForeignIds                 \* ids other servers gave out: uuid4() repeats none

\* Any single message that SQLite can store fits in one response.
ASSUME PullLimitAssumption ==
  /\ MAX_PULLED_MESSAGES_DATA \in Nat
  /\ SQLITE_MAX_LENGTH + MessageHeaderSize <= MAX_PULLED_MESSAGES_DATA

\* Mutant: ids that are only unique in this database.
FreshIds_local == {id \in ClientIds : ~ is_client_id_exist(id)}

\* The values uuid4() may return
FreshIds == {id \in ClientIds \ ForeignIds : ~ is_client_id_exist(id)}

\* Mutant: nobody is refused.
_handle_pre_request_unchecked(id) == update_client_last_seen(id)

\* _handle_pre_request, for every request except REGISTER: a client that is not
\* registered is refused, the others have been seen now.
_handle_pre_request(id) ==
  /\ is_client_id_exist(id)
  /\ update_client_last_seen(id)

\* Mutant: the addressee of a message is not looked up.
Refused_destination(r, payload) ==
  CASE r.op = "REGISTER"       -> is_user_name_exist(r.userName)
    [] r.op = "GET_PUBLIC_KEY" -> get_client_public_key(r.destClientId) = {}
    [] r.op = "SEND_MESSAGE"   -> ~ CanSave(payload.length)
    [] OTHER                   -> FALSE

Refused(r, payload) ==
  CASE r.op = "REGISTER"       -> is_user_name_exist(r.userName)
    [] r.op = "GET_PUBLIC_KEY" -> get_client_public_key(r.destClientId) = {}
    [] r.op = "SEND_MESSAGE"   -> \/ ~ is_client_id_exist(r.destClientId)
                                  \/ ~ CanSave(payload.length)
    [] OTHER                   -> FALSE

\* Mutant: the row gets another id than the response.
register_client_other(r, id) ==
  /\ id \in FreshIds
  /\ \E x \in FreshIds : add_client(x, r.userName, r.publicKey)

register_client(r, id) ==
  /\ id \in FreshIds
  /\ add_client(id, r.userName, r.publicKey)

\* Mutant: two arguments of save_message are swapped.
send_message_swapped(r, payload) ==
  save_message(r.destClientId, r.messageType, r.clientId, r.contentSize, payload)

send_message(r, payload) ==
  save_message(r.destClientId, r.clientId, r.messageType, r.contentSize, payload)

\* Mutant: the newest messages first.
pull_messages_newest(id) ==
  LET rows == pull_client_messages(id)
  IN  {m \in rows : SizeOf({x \in rows : x.id >= m.id}) <= MAX_PULLED_MESSAGES_DATA}

\* The loop takes the rows in the order of their ids and stops at the first one
\* that does not fit in what the rows before it leave.
pull_messages(id) ==
  LET rows     == pull_client_messages(id)
      UpTo(m)  == {x \in rows : x.id <= m.id}
      Fits(m)  == SizeOf(UpTo(m)) <= MAX_PULLED_MESSAGES_DATA
  IN  {m \in rows : \A x \in UpTo(m) : Fits(x)}
=============================================================================
