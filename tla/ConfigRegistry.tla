--------------------------- MODULE ConfigRegistry ---------------------------
(***************************************************************************)
(* What mutateConfig promises of /etc/xray/config.json: "it serialises all *)
(* writes ... so two concurrent requests can't produce interleaved config  *)
(* states" (internal/http/mutate.go:10-14).  The file changes only by one  *)
(* whole edit applied to what the file holds at that moment: no edit is    *)
(* lost, mixed with another, or applied to an older version.               *)
(***************************************************************************)
EXTENDS XrayConfig

CONSTANT InitFile    \* the config the panel finds when it is installed

VARIABLE file

Init == file = InitFile

\* A request to create brings a UUID of its own (uuid.NewRandom).
Apply(a) ==
  /\ a.op = "create" => a.id \notin Ids(file.clients)
  /\ \E c \in Client \cup {None} :
       /\ a.op = "enable" => c \in Client
       /\ file' \in Edit(a, c, file)

\* An edit that leaves the file as it was is a stutter.
Next ==
  /\ file' # file
  /\ \E a \in EditRequest : Apply(a)

Spec == Init /\ [][Next]_file

=============================================================================
