-------------------------- MODULE MCActivityTracker --------------------------
(* Small instances of ActivityTracker for TLC.                             *)
EXTENDS ActivityTracker

OneUser == {<<"alice">>}

\* Emails the output is parsed for: every one of up to two tokens of a name and
\* ">", longer ones with a separator in them, the word that is also a wrapper,
\* and one that has the rest of a counter's name in it.
ShortEmails == UNION {[1..n -> {"alice", ">"}] : n \in 1..2}

Emails == ShortEmails
            \cup {Sep, <<"alice", ">", ">">>, <<"alice">> \o Sep, <<"alice">> \o Sep \o <<"bob">>,
                  <<"users">>, <<"alice">> \o Sep \o <<"traffic">>}

\* Any two are online.
Pairs == {{u, v} : u \in Emails, v \in Emails}

CountersParse == \A pair \in Pairs : StatsComeBack(pair, 0..1)
SessionsParse == \A pair \in Pairs : SessionsComeBack(pair, 1..2)

\* The counters xray prints come back, and the sessions while there are any
\* (stats.go:114-255).
OutputParses == CountersParse /\ (online # {} => SessionsParse)

=============================================================================
