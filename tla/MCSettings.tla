----------------------------- MODULE MCSettings -----------------------------
(* Model checking of Settings: files of up to three lines (a heading, what   *)
(* it opens and what follows), with the sections and scalars of config.yaml, *)
(* values of every class, a comment, a nested mapping and a key that is      *)
(* written with its dot.                                                     *)
EXTENDS Settings

Line(indent, k, v) == [depth |-> indent, key |-> k, value |-> v]

ConfigLines ==
  {Line(0, <<"api">>, "none"), Line(0, <<"retry">>, "none"),
   Line(1, <<"api_key">>, "good"), Line(1, <<"api_key">>, Hashed),
   Line(1, <<"api_key">>, "blank"), Line(1, <<"max_attempts">>, "low"),
   Line(1, <<"timeout">>, "low"), Line(2, <<"timeout">>, "bad"),
   Line(0, <<"buffer_capacity">>, "low"), Line(0, <<"collect_interval">>, "better"),
   Line(0, <<"collect_interval">>, "none"), Line(0, <<"api", "api_key">>, "better"),
   Line(0, <<>>, "none")}

Variables == {<<"api", "api_key">>, <<"collect_interval">>}
=============================================================================
