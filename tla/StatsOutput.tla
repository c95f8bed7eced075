----------------------------- MODULE StatsOutput -----------------------------
(***************************************************************************)
(* What the panel makes of the output of `xray api statsquery` and of      *)
(* `xray api statsgetallonlineusers` (internal/xray/stats.go).             *)
(*                                                                         *)
(* xray names a counter user>>>{email}>>>traffic>>>{direction}.  A string  *)
(* is a sequence of tokens: ">" is that character, every other token is a  *)
(* run of other characters.  So an email may have a separator in it or end *)
(* in a part of one, as the names the panel lets an operator give may.     *)
(* Whether a number is printed as a string or as a number makes no         *)
(* difference to coerceInt and is left out.                                *)
(***************************************************************************)
EXTENDS Integers, Sequences, FiniteSets

-----------------------------------------------------------------------------
(* strings.Split(s, ">>>"), which cuts from left to right: the separators in  *)
(* a row of ">" are its first three, its next three, and so on.            *)

Sep == <<">", ">", ">">>

\* Where separators end: at every third ">" of a row.
Cuts(s) ==
  {i \in 1..Len(s) : \E m \in 1..(i \div 3) :
                        /\ \A j \in (i - 3 * m + 1)..i : s[j] = ">"
                        /\ 3 * m < i => s[i - 3 * m] # ">"}

\* The k-th of a set of cuts.
Nth(cuts, k) == CHOOSE i \in cuts : Cardinality({j \in cuts : j <= i}) = k

Split(s) ==
  LET parts[cuts \in SUBSET (1..Len(s))] ==
        [k \in 1..(Cardinality(cuts) + 1) |->
           SubSeq(s, IF k = 1 THEN 1 ELSE Nth(cuts, k - 1) + 1,
                     IF k - 1 = Cardinality(cuts) THEN Len(s) ELSE Nth(cuts, k) - 3)]
  IN  parts[Cuts(s)]

-----------------------------------------------------------------------------
(* statsquery.                                                             *)

Directions == {"uplink", "downlink"}

CounterName(u, d) == <<"user">> \o Sep \o u \o Sep \o <<"traffic">> \o Sep \o <<d>>

\* The counters xray prints for a function of emails to bytes up and down,
\* under one of two wrappers (external).
PrintStats(wrapper, traffic) ==
  LET entries == {[name |-> CounterName(u, d), value |-> traffic[u][d]] :
                    u \in DOMAIN traffic, d \in Directions}
  IN  [stat       |-> IF wrapper = "stat" THEN entries ELSE {},
       statistics |-> IF wrapper = "statistics" THEN entries ELSE {}]

\* Mutant: more parts than four will do.
IsLongUserStat(parts) ==
  Len(parts) >= 4 /\ parts[1] = <<"user">> /\ parts[3] = <<"traffic">>

\* parseUserStatName accepts a name of these parts.
IsUserStat(parts) ==
  Len(parts) = 4 /\ parts[1] = <<"user">> /\ parts[3] = <<"traffic">>

Entries(out) == IF out.stat # {} THEN out.stat ELSE out.statistics

\* parseStats: an entry per email; a direction that is not printed is 0.  (Of
\* two counters for one email and direction one would win.)
ParseStats(out) ==
  LET read     == {[parts |-> Split(e.name), value |-> e.value] : e \in Entries(out)}
      known    == {r \in read : IsUserStat(r.parts)}
      Of(u, d) == {r.value : r \in {r \in known : r.parts[2] = u /\ r.parts[4] = <<d>>}}
      Last(u, d) == IF Of(u, d) = {} THEN 0 ELSE CHOOSE n \in Of(u, d) : TRUE
  IN  {[email |-> u, uplink |-> Last(u, "uplink"), downlink |-> Last(u, "downlink")] :
         u \in {r.parts[2] : r \in known}}

-----------------------------------------------------------------------------
(* statsgetallonlineusers.                                                 *)

\* JSON values.  An array is a function of its positions, whatever they are:
\* no order of the users is looked at.
Number(n)     == [kind |-> "number", value |-> n]
String(s)     == [kind |-> "string", text |-> s]
Object(f)     == [kind |-> "object", fields |-> f]
Array(items)  == [kind |-> "array", items |-> items]

OnlineName(u) == <<"user">> \o Sep \o u \o Sep \o <<"online">>

Row(u, n) == Object([k \in {<<"email">>, <<"count">>} |->
                       IF k = <<"email">> THEN String(u) ELSE Number(n)])

\* {"alice": 1}, {"users": {"alice": 1}}, {"users": [{"email": .., "count":
\* 1}]} and {"users": ["user>>>alice>>>online"]}.
Shapes == {"flat", "object", "rows", "strings"}

\* What xray prints when each user in the domain of sessions has so many
\* (external).
PrintOnline(shape, sessions) ==
  LET users == DOMAIN sessions
      Map   == Object([u \in users |-> Number(sessions[u])])
      Rows  == Array([u \in users |-> Row(u, sessions[u])])
      each  == UNION {{u} \X (1..sessions[u]) : u \in users}
      Names == Array([i \in each |-> String(OnlineName(i[1]))])
      Wrapped(inner) == Object([k \in {<<"users">>} |-> inner])
  IN  CASE shape = "flat"    -> Map
        [] shape = "object"  -> Wrapped(Map)
        [] shape = "rows"    -> Wrapped(Rows)
        [] shape = "strings" -> Wrapped(Names)

coerceInt(v) == IF v.kind = "number" THEN v.value ELSE 0

buildOnlineFromMap(fields) ==
  {[email |-> u, sessions |-> coerceInt(fields[u])] : u \in DOMAIN fields}

\* The email in user>>>alice>>>online, or nothing.
extractOnlineEmail(s) ==
  LET parts == Split(s)
  IN  IF Len(parts) >= 2 /\ parts[1] = <<"user">> THEN parts[2] ELSE <<>>

\* Each string counts one session for its email.
CountStrings(items) ==
  LET emails == {<<i, extractOnlineEmail(items[i].text)>> : i \in DOMAIN items}
  IN  {[email |-> u, sessions |-> Cardinality({e \in emails : e[2] = u})] :
         u \in {e[2] : e \in emails} \ {<<>>}}

ReadRows(items) ==
  LET found == {items[i].fields : i \in DOMAIN items}
  IN  {[email |-> r[<<"email">>].text, sessions |-> coerceInt(r[<<"count">>])] :
         r \in {r \in found : r[<<"email">>].text # <<>>}}

\* json.Unmarshal of v into a slice succeeds.
IsArrayOf(kind, v) ==
  v.kind = "array" /\ \A i \in DOMAIN v.items : v.items[i].kind = kind

Online(users) == [ok |-> TRUE, users |-> users]
Failed        == [ok |-> FALSE, users |-> {}]

\* parseOnlineUsers.  An object with the only key "users" is taken for a
\* wrapper, and what is in it for the first of three things that it can be.
ParseOnline(out) ==
  LET inner == out.fields[<<"users">>]
  IN  IF DOMAIN out.fields # {<<"users">>} THEN Online(buildOnlineFromMap(out.fields))
      ELSE IF inner.kind = "object"        THEN Online(buildOnlineFromMap(inner.fields))
      ELSE IF IsArrayOf("string", inner)   THEN Online(CountStrings(inner.items))
      ELSE IF IsArrayOf("object", inner)   THEN Online(ReadRows(inner.items))
      ELSE Failed

-----------------------------------------------------------------------------
(* Reference: what is printed comes back.                                  *)

\* An email that the separator after it does not reach into: it has none in
\* it, and no ">" at its end.
HasSep(s) == \E i \in 1..Len(s) : /\ i + 2 <= Len(s)
                                  /\ s[i] = ">" /\ s[i + 1] = ">" /\ s[i + 2] = ">"

Plain(s) == ~HasSep(s) /\ (Len(s) > 0 => s[Len(s)] # ">")

\* Mappings of some of the emails to values.
Some(emails, values) == UNION {[S -> values] : S \in SUBSET emails}

\* QueryUsers returns the counters xray has, by user and direction, under both
\* wrappers.  A client whose email is not plain is left out, and what it sent
\* is never credited to another one (stats.go:201-255).
StatsComeBack(emails, bytes) ==
  \A traffic \in Some(emails, [Directions -> bytes]) : \A w \in {"stat", "statistics"} :
    ParseStats(PrintStats(w, traffic)) =
      {[email |-> u, uplink |-> traffic[u]["uplink"], downlink |-> traffic[u]["downlink"]] :
         u \in {v \in DOMAIN traffic : Plain(v)}}

\* "accepts every shape xray is known to emit" (stats.go:114-122): the
\* sessions come back from each shape.  There are two exceptions.  A client
\* named "users" who is online alone is an error in the flat shape.  In the
\* string shape the sessions of an email that is not plain are lost or counted
\* for another one; plain ones have all of theirs, perhaps with those.
SessionsComeBack(emails, numbers) ==
  \A sessions \in Some(emails, numbers) : \A shape \in Shapes :
    LET parsed == ParseOnline(PrintOnline(shape, sessions))
        users  == DOMAIN sessions
    IN  CASE shape = "flat" /\ users = {<<"users">>} -> parsed = Failed
          [] shape = "strings" /\ (\E u \in users : ~Plain(u)) ->
               /\ parsed.ok
               /\ \A u \in users : Plain(u) =>
                    \E r \in parsed.users : r.email = u /\ r.sessions >= sessions[u]
          [] OTHER -> parsed = Online({[email |-> u, sessions |-> sessions[u]] : u \in users})

=============================================================================
