---------------------------- MODULE MCServerAdmin ----------------------------
(* Small instances of ServerAdmin for TLC.                                 *)
EXTENDS ServerAdmin, TLC

CONSTANTS k0, k1, k2, k3

Plain == [key |-> k0, api |-> FALSE, stats |-> FALSE, policy |-> Absent,
          routing |-> Absent, inbounds |-> <<"vless">>]

\* A policy that has level zero as given, and entries of the operator.
WithLevel0(zero) == [levels |-> [zero |-> zero, mine |-> TRUE], mine |-> TRUE]

OwnRouting == [rules |-> <<"own", "own">>, mine |-> TRUE]

\* What a router may come with: a plain config, hand-written policies and
\* routing of every shape the code looks at, and what is refused.
Installed ==
  {Plain,
   [Plain EXCEPT !.policy = WithLevel0([online |-> "off", mine |-> TRUE]),
                 !.routing = OwnRouting],
   [Plain EXCEPT !.policy = WithLevel0(Absent), !.inbounds = <<"other", "vless">>],
   [Plain EXCEPT !.policy = [levels |-> Absent, mine |-> TRUE],
                 !.routing = [rules |-> Absent, mine |-> TRUE]],
   [Plain EXCEPT !.policy = WithLevel0([online |-> "on", mine |-> TRUE]),
                 !.inbounds = <<"other">>],
   [Plain EXCEPT !.policy = WithLevel0(Null), !.routing = Null],
   [Plain EXCEPT !.policy = WithLevel0(Bad)],
   [Plain EXCEPT !.routing = Bad, !.inbounds = <<"vless", "api">>]}

JustPlain == {Plain}

\* Requests are interchangeable, and so are the keys not yet drawn.
Interchangeable == Permutations(Req) \cup Permutations({k1, k2, k3})

=============================================================================
