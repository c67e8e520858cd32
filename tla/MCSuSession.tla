---------------------------- MODULE MCSuSession ----------------------------
(* Small instances of SuSession for TLC. *)
EXTENDS SuSessionProps, TLC

CONSTANTS c1, c2, p1

MCStr == {"su", "id", "--daemon", "long"}
MCStrLen == [s \in MCStr |-> IF s = "long" THEN 3 ELSE 2]

Req(uid, argv, mount, atty, closed) ==
    [uid |-> uid, argv |-> argv, mount |-> mount, atty |-> atty, closed |-> closed]

\* One client at a time, all shapes of request: no terminal, all terminals, input
\* only, one closed stream with and without a terminal, two closed streams, the mount
\* flag on one, two and three arguments, too many arguments, a string that is too long.
ShapeRequests ==
    { Req(0, <<"su", "id">>, FALSE, {}, {}),
      Req(0, <<"su", "id">>, FALSE, Streams, {}),
      Req(0, <<"su">>, FALSE, {"in"}, {}),
      Req(0, <<"su">>, FALSE, {}, {"in"}),
      Req(0, <<"su">>, FALSE, {}, {"in", "out"}),
      Req(0, <<"su">>, FALSE, {"in", "out"}, {"err"}),
      Req(0, <<"su">>, TRUE, {}, {}),
      Req(0, <<"su">>, TRUE, Streams, {}),
      Req(0, <<"su", "id">>, TRUE, {}, {}),
      Req(0, <<"su", "id", "--daemon">>, TRUE, {}, {}),
      Req(0, <<"su", "id", "id">>, FALSE, {}, {}),
      Req(0, <<"su", "long">>, FALSE, {}, {}) }

\* Two clients on terminals: of two users, or of one.
PairRequests ==
    { Req(0, <<"su">>, FALSE, Streams, {}), Req(1, <<"su">>, FALSE, Streams, {}) }

\* Clients that differ in nothing.
PlainRequests == { Req(0, <<"su">>, FALSE, {}, {}) }

\* With one set of requests for all, clients are interchangeable.
ClientSymmetry == Permutations(Clients)
=============================================================================
