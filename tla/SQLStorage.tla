----------------------------- MODULE SQLStorage -----------------------------
(***************************************************************************)
(* SQLStorageHandler: the SQLite database behind the server.  Each method  *)
(* opens the database, runs one statement, commits and closes, so each is  *)
(* one atomic step that survives a crash of the server.                    *)
(***************************************************************************)
EXTENDS Protocol

CONSTANTS
  Database,                    \* the rows of "clients" in the server.db at hand
  SQLITE_MAX_LENGTH,           \* longest value SQLite stores
  SQLITE_MAX_VARIABLE_NUMBER   \* most parameters SQLite binds in a statement

ClientRows == [id: ClientIds, userName: UserNames, publicKey: PublicKeys]

\* A table that the constraints of "clients" allow
ConsistentClients(rows) ==
  \A x, y \in rows : (x.id = y.id \/ x.userName = y.userName) => x = y

ASSUME DatabaseAssumption ==
  Database \subseteq ClientRows /\ ConsistentClients(Database)

ASSUME SQLiteLimitsAssumption ==
  /\ SQLITE_MAX_LENGTH \in Nat
  /\ SQLITE_MAX_VARIABLE_NUMBER \in Nat \ {0}

VARIABLES
  clients,    \* the rows of the table "clients"
  lastSeen,   \* the clients whose LastSeen column has been updated
  messages,   \* the rows of the table "messages"
  lastRowId   \* the AUTOINCREMENT counter of "messages": ids are never reused

storageVars == <<clients, lastSeen, messages, lastRowId>>

StorageTypeOK ==
  /\ clients \in SUBSET ClientRows
  /\ lastSeen \in SUBSET ClientIds
  /\ messages \in SUBSET Messages
  /\ lastRowId \in Nat

\* CREATE TABLE IF NOT EXISTS: the clients already there stay, no message waits.
StorageInit ==
  /\ clients = Database
  /\ lastSeen = {}
  /\ messages = {}
  /\ lastRowId = 0

is_client_id_exist(id) == \E row \in clients : row.id = id

is_user_name_exist(name) == \E row \in clients : row.userName = name

\* UserName is UNIQUE and ID is the PRIMARY KEY: the INSERT raises otherwise.
add_client(id, name, key) ==
  /\ ~ is_client_id_exist(id)
  /\ ~ is_user_name_exist(name)
  /\ clients' = clients \cup {[id |-> id, userName |-> name, publicKey |-> key]}
  /\ UNCHANGED <<lastSeen, messages, lastRowId>>

list_clients(excluded) ==
  {[id |-> row.id, userName |-> row.userName] :
     row \in {r \in clients : r.id # excluded}}

\* The keys of the rows selected: one, or none.
get_client_public_key(id) ==
  {row.publicKey : row \in {r \in clients : r.id = id}}

update_client_last_seen(id) ==
  /\ lastSeen' = lastSeen \cup {id}
  /\ UNCHANGED <<clients, messages, lastRowId>>

\* The INSERT raises "string or blob too big" on a longer content.
CanSave(length) == length <= SQLITE_MAX_LENGTH

\* Mutant: without AUTOINCREMENT an id is used again once its row is deleted.
save_message_rowid(to, from, type, size, payload) ==
  LET id == Max({0} \cup {m.id : m \in messages}) + 1
  IN  /\ CanSave(payload.length)
      /\ lastRowId' = id
      /\ messages' = messages \cup
           {[id |-> id, toClient |-> to, fromClient |-> from, type |-> type,
             size |-> size, length |-> payload.length, carried |-> payload.carried]}
      /\ UNCHANGED <<clients, lastSeen>>

save_message(to, from, type, size, payload) ==
  /\ CanSave(payload.length)
  /\ lastRowId' = lastRowId + 1
  /\ messages' = messages \cup
       {[id |-> lastRowId + 1, toClient |-> to, fromClient |-> from, type |-> type,
         size |-> size, length |-> payload.length, carried |-> payload.carried]}
  /\ UNCHANGED <<clients, lastSeen>>

\* Mutant: the SELECT without its WHERE clause.
pull_client_messages_all(id) == messages

pull_client_messages(id) == {m \in messages : m.toClient = id}

\* The DELETE raises "too many SQL variables" on a longer list of ids.
CanDelete(ids) == Cardinality(ids) <= SQLITE_MAX_VARIABLE_NUMBER

\* Mutant: the DELETE compares ids with <= where the code lists them.
delete_client_messages_upto(ids) ==
  /\ CanDelete(ids)
  /\ messages' = {m \in messages : \A id \in ids : m.id > id}
  /\ UNCHANGED <<clients, lastSeen, lastRowId>>

\* An empty list of ids returns early, and deletes nothing here either.
delete_client_messages(ids) ==
  /\ CanDelete(ids)
  /\ messages' = {m \in messages : m.id \notin ids}
  /\ UNCHANGED <<clients, lastSeen, lastRowId>>
=============================================================================
