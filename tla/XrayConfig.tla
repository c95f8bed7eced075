----------------------------- MODULE XrayConfig -----------------------------
(***************************************************************************)
(* The xray config as the panel edits it: the edits each request makes to  *)
(* the parsed file between xray.Read and xray.Write                        *)
(* (internal/xray/clients.go and the closures handed to mutateConfig in    *)
(* internal/http/clients.go and server_admin.go).                          *)
(*                                                                         *)
(* An edit is the SET of configs it may produce: one config when it        *)
(* succeeds, the empty set when the closure returns an error and the       *)
(* mutation is abandoned.                                                  *)
(*                                                                         *)
(* Abstraction.  A client keeps its UUID and its name (Email); flow is     *)
(* carried along verbatim by every operation, so a PATCH of the flow alone *)
(* is a rename to the name the client has.  The realitySettings block is   *)
(* "good" or "bad": whether `xray -test` accepts it.  There is a VLESS     *)
(* inbound with realitySettings (PrimaryInbound succeeds).                 *)
(***************************************************************************)
EXTENDS Naturals, Sequences, SequencesExt

CONSTANTS
  Id,     \* client UUIDs
  Name,   \* client names, trimmed and non-empty
  None    \* "no such thing": no client, no config, nobody, xray not running

Client == [id : Id, name : Name]

Config == [clients : Seq(Client), reality : {"good", "bad"}]

\* What `xray -test -config <file>` answers (external: the xray binary).
Accepted(f) == f.reality = "good"

Ids(cs) == {cs[i].id : i \in DOMAIN cs}

\* No UUID occurs twice in a list of clients.
Unique(cs) == \A i, j \in DOMAIN cs : cs[i].id = cs[j].id => i = j

\* The position the loops over a client list stop at: the first with that id.
First(cs, id) ==
  {i \in DOMAIN cs : cs[i].id = id /\ \A j \in 1..(i - 1) : cs[j].id # id}

\* Another client than id has this name.
NameTaken(cs, id, name) ==
  \E i \in DOMAIN cs : cs[i].id # id /\ cs[i].name = name

-----------------------------------------------------------------------------
(* The edits.                                                              *)

\* f.AddClient: refused when a live client has the name.  The id is the
\* fresh UUID.
AddClient(f, id, name) ==
  IF \E i \in DOMAIN f.clients : f.clients[i].name = name
  THEN {}
  ELSE {[f EXCEPT !.clients = Append(@, [id |-> id, name |-> name])]}

\* Mutant: PATCH without the check that the new name is free.
RenameUnchecked(f, id, name) ==
  {[f EXCEPT !.clients[i] = [id |-> id, name |-> name]] : i \in First(f.clients, id)}

\* The closure of PATCH /clients/{id}.
Rename(f, id, name) ==
  IF NameTaken(f.clients, id, name)
  THEN {}
  ELSE {[f EXCEPT !.clients[i] = [id |-> id, name |-> name]] : i \in First(f.clients, id)}

\* f.RemoveClient: an error when the client is not there.
RemoveClient(f, id) ==
  {[f EXCEPT !.clients = RemoveAt(@, i)] : i \in First(f.clients, id)}

\* The closure of DELETE ignores that error: the file is rewritten as it was.
DeleteClient(f, id) ==
  IF id \in Ids(f.clients) THEN RemoveClient(f, id) ELSE {f}

\* Mutant: enable appends without looking for the UUID.
RestoreUnchecked(f, c) == {[f EXCEPT !.clients = Append(@, c)]}

\* The closure of enable: append the client verbatim unless its UUID is live.
RestoreClient(f, c) ==
  IF c.id \in Ids(f.clients) THEN {} ELSE {[f EXCEPT !.clients = Append(@, c)]}

\* The closure of PATCH /server/reality.
PatchReality(f, block) == {[f EXCEPT !.reality = block]}

\* The requests that edit the config, and what the edit of request a makes
\* of f.  c is the client an enable took out of the disabled store.
EditRequest ==
       [op : {"create", "patch"}, id : Id, name : Name]
  \cup [op : {"delete", "disable", "enable"}, id : Id]
  \cup [op : {"reality"}, block : {"good", "bad"}]

Edit(a, c, f) ==
  CASE a.op = "create"  -> AddClient(f, a.id, a.name)
    [] a.op = "patch"   -> Rename(f, a.id, a.name)
    [] a.op = "delete"  -> DeleteClient(f, a.id)
    [] a.op = "disable" -> RemoveClient(f, a.id)
    [] a.op = "enable"  -> RestoreClient(f, c)
    [] a.op = "reality" -> PatchReality(f, a.block)

=============================================================================
